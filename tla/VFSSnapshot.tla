------------------------------ MODULE VFSSnapshot ------------------------------
(***************************************************************************)
(* The directories behind VFSWorkspaceBase.snapshot and restore            *)
(* (_vfs/_base.py) and behind CheckpointBridge (_orchestration/            *)
(* checkpoint.py), which archives the working directory into the durable   *)
(* store, for FULL scope by way of a snapshot, and swaps a restored one in. *)
(*                                                                         *)
(* Nothing in them suspends between the first and the last file operation, *)
(* so operations do not interleave; but each file operation may raise, and *)
(* the process may die between any two and inside copytree and rmtree.     *)
(* Only the bridge suspends, while the durable store is read.              *)
(***************************************************************************)
EXTENDS FiniteSets

CONSTANTS
    Tags,       \* snapshot tags
    Contents,   \* what a working directory may hold
    Nested,     \* pairs <<t, u>>: the name u is t followed by ".tmp." and more
    NoTag

ASSUME VFSAssumption ==
    /\ Nested \subseteq {p \in Tags \X Tags : p[1] # p[2]}
    /\ Contents \cap {"none", "torn", "empty"} = {}
    /\ NoTag \notin Tags

VARIABLES
    work,      \* _host_workdir
    aside,     \* its ".aside" sibling
    copy,      \* the ".restore.*" or "ckpt-restore-*" sibling being filled
    tags,      \* the directories of _snapshots_root, by tag
    tmp,       \* the "<tag>.tmp.*" directories beside them
    op,        \* the operation under way, and the file operation it is at
    fetching,  \* CheckpointBridge.restore awaits the store
    durable,   \* the tree of this workspace's latest checkpoint in the store
    alive,     \* the process runs and the workspace is initialized
    data,      \* history: what the user last wrote or restored
    saved,     \* history: what each tag's last completed snapshot held
    broken,    \* history: tags an uncompleted operation has begun to remove
    mishap     \* history: "torn" once a removal was cut short, "stranded" once
               \* the workspace went on without its working directory

vars == <<work, aside, copy, tags, tmp, op, fetching, durable, alive,
          data, saved, broken, mishap>>

workVars == <<work, aside, data>>
tagVars == <<tags, tmp, saved, broken>>
bridge == <<fetching, durable>>

(* "torn" is a tree of which only a part is there. *)
Trees == Contents \cup {"empty", "torn"}
Places == Trees \cup {"none"}
Idle == [kind |-> "none", tag |-> NoTag, at |-> "idle"]
Kinds == {"none", "snapshot", "restore", "checkpoint", "archive"}
Points == {"idle", "copy", "remove", "removing", "publish",
           "clear", "clearing", "out", "in", "inAlone", "drop", "store", "storeLive"}

At(kind, point) == op.kind \in kind /\ op.at = point
Step(point) == op' = [op EXCEPT !.at = point]
Swap == {"restore", "checkpoint"}

Init ==
    /\ work = "empty" /\ aside = "none" /\ copy = "none"
    /\ tags = [t \in Tags |-> "none"] /\ tmp = [t \in Tags |-> "none"]
    /\ op = Idle /\ fetching = FALSE /\ durable = "none" /\ alive = TRUE
    /\ data = "empty" /\ saved = [t \in Tags |-> "none"]
    /\ broken = {} /\ mishap = {}

(* exec_shell and write_file between operations; they make a missing        *)
(* directory.                                                              *)
Write(c) ==
    /\ alive /\ op = Idle
    /\ work' = c /\ data' = c
    /\ UNCHANGED <<aside, copy, tagVars, op, bridge, alive, mishap>>

-----------------------------------------------------------------------------
(* snapshot.  A definition X_Y is X with one fault Y; no specification uses  *)
(* it.                                                                      *)

(* _cleanup_stale_snapshot_dirs matches names by prefix. *)
Cleaned(t) == {u \in Tags : <<t, u>> \in Nested /\ tags[u] # "none"}

SnapshotBegins(t) ==
    /\ alive /\ op = Idle
    /\ tags' = [u \in Tags |-> IF u \in Cleaned(t) THEN "none" ELSE tags[u]]
    /\ broken' = broken \cup Cleaned(t)
    /\ tmp' = [u \in Tags |-> IF u = t THEN "torn"
                              ELSE IF <<t, u>> \in Nested THEN "none" ELSE tmp[u]]
    /\ op' = [kind |-> "snapshot", tag |-> t, at |-> "copy"]
    /\ UNCHANGED <<workVars, copy, bridge, alive, saved, mishap>>

(* _snapshot_to returned. *)
SnapshotCopied_InPlace ==
    /\ At({"snapshot"}, "copy") /\ work # "none"
    /\ tmp' = [tmp EXCEPT ![op.tag] = work]
    /\ tags' = [tags EXCEPT ![op.tag] = "torn"]
    /\ Step(IF tags[op.tag] = "none" THEN "publish" ELSE "remove")
    /\ UNCHANGED <<workVars, copy, bridge, alive, saved, broken, mishap>>
SnapshotCopied ==
    /\ At({"snapshot"}, "copy") /\ work # "none"
    /\ tmp' = [tmp EXCEPT ![op.tag] = work]
    /\ Step(IF tags[op.tag] = "none" THEN "publish" ELSE "remove")
    /\ UNCHANGED <<workVars, copy, tags, bridge, alive, saved, broken, mishap>>

(* rmtree(dest), which is not one file operation. *)
RemovalBegins ==
    /\ At({"snapshot"}, "remove")
    /\ tags' = [tags EXCEPT ![op.tag] = "torn"]
    /\ broken' = broken \cup {op.tag}
    /\ Step("removing")
    /\ UNCHANGED <<workVars, copy, tmp, bridge, alive, saved, mishap>>

RemovalEnds ==
    /\ At({"snapshot"}, "removing")
    /\ tags' = [tags EXCEPT ![op.tag] = "none"]
    /\ Step("publish")
    /\ UNCHANGED <<workVars, copy, tmp, bridge, alive, saved, broken, mishap>>

Published ==
    /\ At({"snapshot"}, "publish")
    /\ tags' = [tags EXCEPT ![op.tag] = tmp[op.tag]]
    /\ saved' = [saved EXCEPT ![op.tag] = tmp[op.tag]]
    /\ tmp' = [tmp EXCEPT ![op.tag] = "none"]
    /\ broken' = broken \ {op.tag}
    /\ op' = Idle
    /\ UNCHANGED <<workVars, copy, bridge, alive, mishap>>

CutShort == IF op.at = "removing" THEN mishap \cup {"torn"} ELSE mishap

(* Any of them raised: the new copy is removed, whatever became of the old. *)
SnapshotFailed ==
    /\ op.kind = "snapshot"
    /\ tmp' = [tmp EXCEPT ![op.tag] = "none"]
    /\ mishap' = CutShort
    /\ op' = Idle
    /\ UNCHANGED <<workVars, copy, tags, bridge, alive, saved, broken>>

-----------------------------------------------------------------------------
(* CheckpointBridge.checkpoint.  FULL scope makes a snapshot under a tag of  *)
(* its own, which it removes again and nobody restores: here only its copy. *)

CheckpointBegins ==
    /\ alive /\ op = Idle /\ work # "none"
    /\ \/ copy' = "torn" /\ op' = [kind |-> "archive", tag |-> NoTag, at |-> "copy"]
       \/ copy' = copy /\ op' = [kind |-> "archive", tag |-> NoTag, at |-> "storeLive"]
    /\ UNCHANGED <<workVars, tagVars, bridge, alive, mishap>>

FullCopied ==
    /\ At({"archive"}, "copy")
    /\ copy' = work
    /\ Step("store")
    /\ UNCHANGED <<workVars, tagVars, bridge, alive, mishap>>

(* The snapshot raised: FULL degrades to DATA, from the live directory.      *)
Degraded_TakesCopy ==
    /\ At({"archive"}, "copy")
    /\ copy' = copy
    /\ Step("store")
    /\ UNCHANGED <<workVars, tagVars, bridge, alive, mishap>>
Degraded ==
    /\ At({"archive"}, "copy")
    /\ copy' = "none"
    /\ Step("storeLive")
    /\ UNCHANGED <<workVars, tagVars, bridge, alive, mishap>>

Stored ==
    /\ op.at \in {"store", "storeLive"}
    /\ durable' = IF op.at = "store" THEN copy ELSE work
    /\ copy' = "none" /\ op' = Idle
    /\ UNCHANGED <<workVars, tagVars, fetching, alive, mishap>>

StoreFailed ==
    /\ op.at \in {"store", "storeLive"}
    /\ copy' = "none" /\ op' = Idle
    /\ UNCHANGED <<workVars, tagVars, bridge, alive, mishap>>

-----------------------------------------------------------------------------
(* restore, and CheckpointBridge.restore with _swap_workdir.               *)

RestoreBegins_Unchecked(t) ==
    /\ alive /\ op = Idle
    /\ copy' = "torn"
    /\ op' = [kind |-> "restore", tag |-> t, at |-> "copy"]
    /\ UNCHANGED <<workVars, tagVars, bridge, alive, mishap>>
RestoreBegins(t) ==
    /\ alive /\ op = Idle /\ tags[t] # "none"
    /\ copy' = "torn"
    /\ op' = [kind |-> "restore", tag |-> t, at |-> "copy"]
    /\ UNCHANGED <<workVars, tagVars, bridge, alive, mishap>>

RestoreCopied_Early ==
    /\ At({"restore"}, "copy")
    /\ Step("clear")
    /\ UNCHANGED <<workVars, copy, tagVars, bridge, alive, mishap>>
RestoreCopied ==
    /\ At({"restore"}, "copy")
    /\ copy' = tags[op.tag]
    /\ Step("clear")
    /\ UNCHANGED <<workVars, tagVars, bridge, alive, mishap>>

FetchBegins ==
    /\ alive /\ op = Idle /\ ~fetching /\ work # "none"
    /\ fetching' = TRUE
    /\ UNCHANGED <<durable, workVars, copy, tagVars, op, alive, mishap>>

(* restore_tree returned, with a checkpoint of this workspace or of another  *)
(* one of the actor, and the swap follows at once.                          *)
Fetched(c) ==
    /\ fetching /\ op = Idle /\ c \in Contents \cup {durable}
    /\ fetching' = FALSE
    /\ copy' = c
    /\ op' = [kind |-> "checkpoint", tag |-> NoTag, at |-> "clear"]
    /\ UNCHANGED <<durable, workVars, tagVars, alive, mishap>>

FetchFailed ==
    /\ fetching /\ op = Idle
    /\ fetching' = FALSE
    /\ UNCHANGED <<durable, workVars, copy, tagVars, op, alive, mishap>>

(* An ".aside" left over from earlier is removed; the bridge ignores the    *)
(* errors of that.                                                          *)
ClearBegins ==
    /\ At(Swap, "clear")
    /\ IF aside = "none" THEN Step("out") /\ aside' = aside
                         ELSE Step("clearing") /\ aside' = "torn"
    /\ UNCHANGED <<work, data, copy, tagVars, bridge, alive, mishap>>

ClearEnds ==
    /\ At(Swap, "clearing")
    /\ aside' \in IF op.kind = "checkpoint" THEN {"none", "torn"} ELSE {"none"}
    /\ Step("out")
    /\ UNCHANGED <<work, data, copy, tagVars, bridge, alive, mishap>>

MovedOut ==
    /\ At(Swap, "out") /\ work # "none" /\ aside = "none"
    /\ aside' = work /\ work' = "none"
    /\ Step("in")
    /\ UNCHANGED <<data, copy, tagVars, bridge, alive, mishap>>

(* The bridge goes on when there is no working directory to move; it then   *)
(* has nothing to move back, and no ".aside" to drop.                       *)
NothingToMove ==
    /\ At({"checkpoint"}, "out") /\ work = "none"
    /\ Step("inAlone")
    /\ UNCHANGED <<workVars, copy, tagVars, bridge, alive, mishap>>

MovedIn ==
    /\ op.at \in {"in", "inAlone"}
    /\ work' = copy /\ data' = copy
    /\ copy' = "none"
    /\ IF op.at = "in" THEN Step("drop") ELSE op' = Idle
    /\ UNCHANGED <<aside, tagVars, bridge, alive, mishap>>

(* rmtree(aside, ignore_errors=True). *)
Dropped ==
    /\ At(Swap, "drop")
    /\ aside' \in {"none"} \cup ({aside, "torn"} \ {"none"})
    /\ op' = Idle
    /\ UNCHANGED <<work, data, copy, tagVars, bridge, alive, mishap>>

(* Something raised before the working directory moved. *)
SwapFailed ==
    /\ op.kind \in Swap /\ op.at \in {"copy", "clear", "clearing", "out"}
    /\ copy' = "none"
    /\ op' = Idle
    /\ UNCHANGED <<workVars, tagVars, bridge, alive, mishap>>

(* The second rename raised: the working directory is moved back, unless    *)
(* that raises too or there is nothing to move back.                        *)
RolledBack_Dropped ==
    /\ op.at = "in"
    /\ aside' = "none"
    /\ copy' = "none" /\ op' = Idle
    /\ UNCHANGED <<work, data, tagVars, bridge, alive, mishap>>
RolledBack ==
    /\ op.at = "in"
    /\ work' = aside /\ aside' = "none"
    /\ copy' = "none" /\ op' = Idle
    /\ UNCHANGED <<data, tagVars, bridge, alive, mishap>>

NotRolledBack ==
    /\ op.at \in {"in", "inAlone"}
    /\ copy' = "none" /\ op' = Idle
    /\ mishap' = mishap \cup {"stranded"}
    /\ UNCHANGED <<workVars, tagVars, bridge, alive>>

-----------------------------------------------------------------------------
(* The process dies (or the workspace is closed while nothing runs): the    *)
(* directories stay as they are, the copy under a name nobody uses again.   *)
Crash ==
    /\ alive
    /\ alive' = FALSE /\ fetching' = FALSE /\ op' = Idle /\ copy' = "none"
    /\ mishap' = CutShort
    /\ UNCHANGED <<durable, workVars, tagVars>>

(* A new workspace on the same directories: the backend's constructor makes *)
(* a missing working directory.                                             *)
Restart ==
    /\ ~alive /\ alive' = TRUE
    /\ work' = IF work = "none" THEN "empty" ELSE work
    /\ mishap' = IF work = "none" THEN mishap \cup {"stranded"} ELSE mishap
    /\ UNCHANGED <<aside, data, copy, tagVars, op, bridge>>

-----------------------------------------------------------------------------
Snapshot ==
    \/ \E t \in Tags : SnapshotBegins(t)
    \/ SnapshotCopied \/ RemovalBegins \/ RemovalEnds \/ Published \/ SnapshotFailed

Restore ==
    \/ \E t \in Tags : RestoreBegins(t)
    \/ RestoreCopied \/ FetchBegins \/ FetchFailed \/ \E c \in Trees : Fetched(c)
    \/ ClearBegins \/ ClearEnds \/ MovedOut \/ NothingToMove \/ MovedIn \/ Dropped
    \/ SwapFailed \/ RolledBack \/ NotRolledBack

Checkpoint == CheckpointBegins \/ FullCopied \/ Degraded \/ Stored \/ StoreFailed

Next == Snapshot \/ Checkpoint \/ Restore \/ Crash \/ Restart \/ \E c \in Contents : Write(c)

Spec == Init /\ [][Next]_vars

-----------------------------------------------------------------------------
(* Properties                                                              *)

(* Every variable has its type (VFSWorkspaceBase.__init__). *)
TypeOK ==
    /\ work \in Places /\ aside \in Places /\ copy \in Places
    /\ tags \in [Tags -> Places] /\ tmp \in [Tags -> Places]
    /\ op \in [kind : Kinds, tag : Tags \cup {NoTag}, at : Points]
    /\ fetching \in BOOLEAN /\ alive \in BOOLEAN /\ durable \in Places
    /\ data \in Trees /\ saved \in [Tags -> Places]
    /\ broken \subseteq Tags /\ mishap \subseteq {"torn", "stranded"}

(* What snapshot(tag) returned for stays under the tag, through crashes and *)
(* failures, until a later snapshot begins to remove it: restore never      *)
(* finds a half-written tree or another tag's (snapshot, restore).          *)
TagKeepsSnapshot == \A t \in Tags \ broken : tags[t] = saved[t]

(* A half tree gets into the working directory, into the durable store, or   *)
(* under a tag while no removal runs, only after a removal of a tag was cut  *)
(* short: copies are published whole (snapshot, restore, checkpoint,         *)
(* _swap_workdir).                                                          *)
HalfTreesStayHidden ==
    "torn" \notin mishap =>
      /\ work # "torn" /\ durable # "torn"
      /\ \A t \in Tags : tags[t] = "torn" => op.at = "removing" /\ op.tag = t

(* The user's tree is whole in the working directory or beside it at every  *)
(* point of restore and of the bridge's swap, crashes included; it can get  *)
(* lost only once the workspace has gone on without its working directory.  *)
LiveTreeRecoverable == data \in {work, aside} \/ "stranded" \in mishap

(* A completed restore leaves exactly what the tag's snapshot held, and a    *)
(* checkpoint of either scope stores exactly what the user last wrote or     *)
(* restored, unless the workspace went on without its working directory.    *)
RestoreExact ==
    [][ /\ At({"restore"}, "in") /\ op'.at = "drop"
             => work' = saved[op.tag] \/ op.tag \in broken
        /\ durable' # durable => durable' = data \/ "stranded" \in mishap ]_vars
=============================================================================
