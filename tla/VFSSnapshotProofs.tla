--------------------------- MODULE VFSSnapshotProofs ---------------------------
(* Proofs about VFSSnapshot, for every set of tags and contents and every   *)
(* nesting of tag names.                                                   *)
EXTENDS VFSSnapshot, TLAPS

(***************************************************************************)
(* The inductive invariant.  The four properties are about the directories *)
(* at rest; what makes them inductive is where the operation under way is.  *)
(***************************************************************************)

(* Where each kind of operation can be, and that a dead process runs none.  *)
OpShape ==
    /\ ~alive => op = Idle /\ ~fetching
    /\ op.kind = "none" => op = Idle
    /\ op.kind = "snapshot" =>
          op.tag \in Tags /\ op.at \in {"copy", "remove", "removing", "publish"}
    /\ op.kind = "restore" =>
          op.tag \in Tags /\ op.at \in {"copy", "clear", "clearing", "out", "in", "drop"}
    /\ op.kind = "checkpoint" =>
          op.at \in {"clear", "clearing", "out", "in", "inAlone", "drop"}
    /\ op.kind = "archive" => op.at \in {"copy", "store", "storeLive"}

Filled == op.kind \in Swap /\ op.at \in {"clear", "clearing", "out", "in", "inAlone"}

(* The copy a swap moves in is there, and what the tag holds; the copy the   *)
(* bridge archives is the working directory.  A tag under removal is broken. *)
CopyExact ==
    /\ op.kind = "restore" /\ op.at = "copy" => tags[op.tag] # "none"
    /\ Filled => copy # "none"
    /\ Filled /\ op.kind = "restore" => copy = saved[op.tag] \/ op.tag \in broken
    /\ op.at = "store" => copy = work
    /\ op.at = "removing" => op.tag \in broken

(* While no removal was cut short, nothing that is about to be published, to *)
(* be stored or to be moved back is half a tree.                            *)
CopyWhole ==
    "torn" \notin mishap =>
      /\ op.at = "in" => aside # "torn"
      /\ Filled \/ op.at = "store" => copy # "torn"
      /\ op.kind = "snapshot" /\ op.at # "copy" => tmp[op.tag] # "torn"

(* Where the user's tree is.  Only between the two renames is it aside.      *)
TreePlaced ==
    "stranded" \notin mishap =>
      /\ alive /\ op.at # "in" => data = work
      /\ op.at = "in" => data = aside /\ work = "none"
      /\ ~alive => data = work \/ (work = "none" /\ data = aside)

IInv ==
    /\ TypeOK /\ OpShape /\ CopyExact /\ TagKeepsSnapshot
    /\ HalfTreesStayHidden /\ CopyWhole /\ TreePlaced

LEMMA InitIInv == Init => IInv
<1> SUFFICES ASSUME Init PROVE IInv
  OBVIOUS
<1>1. fetching \in BOOLEAN /\ alive \in BOOLEAN
  BY Zenon DEF Init
<1>2. TypeOK
  BY <1>1, VFSAssumption DEF Init, TypeOK, Idle, Kinds, Points, Places, Trees
<1> QED
  BY <1>2
     DEF Init, IInv, OpShape, CopyExact, TagKeepsSnapshot, HalfTreesStayHidden,
         CopyWhole, TreePlaced, Filled, Swap, Idle

(***************************************************************************)
(* One lemma per part of the invariant, one step per action.               *)
(***************************************************************************)

(* What a swap moves in is a tree, so the user's tree always is one.        *)
LEMMA ShapeStep ==
    ASSUME TypeOK, OpShape, CopyExact, Next
    PROVE  TypeOK' /\ OpShape'
<1> USE VFSAssumption DEF TypeOK, OpShape, CopyExact, Filled, Swap, Kinds,
     Points, Places, Trees, At, Step, Idle, workVars, tagVars, bridge
<1>1. ASSUME NEW t \in Tags, SnapshotBegins(t) PROVE TypeOK' /\ OpShape'
  BY <1>1 DEF SnapshotBegins, Cleaned
<1>2. CASE SnapshotCopied
  BY <1>2 DEF SnapshotCopied
<1>3. CASE RemovalBegins
  BY <1>3 DEF RemovalBegins
<1>4. CASE RemovalEnds
  BY <1>4 DEF RemovalEnds
<1>5. CASE Published
  BY <1>5 DEF Published
<1>6. CASE SnapshotFailed
  BY <1>6 DEF SnapshotFailed, CutShort
<1>7. CASE CheckpointBegins
  BY <1>7 DEF CheckpointBegins
<1>8. CASE FullCopied
  BY <1>8 DEF FullCopied
<1>9. CASE Degraded
  BY <1>9 DEF Degraded
<1>10. CASE Stored
  BY <1>10 DEF Stored
<1>11. CASE StoreFailed
  BY <1>11 DEF StoreFailed
<1>12. ASSUME NEW t \in Tags, RestoreBegins(t) PROVE TypeOK' /\ OpShape'
  BY <1>12 DEF RestoreBegins
<1>13. CASE RestoreCopied
  BY <1>13 DEF RestoreCopied
<1>14. CASE FetchBegins
  BY <1>14 DEF FetchBegins
<1>15. CASE FetchFailed
  <2>1. fetching' \in BOOLEAN /\ alive' \in BOOLEAN
    BY <1>15, Zenon DEF FetchFailed, bridge
  <2> QED
    BY <1>15, <2>1 DEF FetchFailed
<1>16. ASSUME NEW c \in Trees, Fetched(c) PROVE TypeOK' /\ OpShape'
  <2>1. fetching' \in BOOLEAN /\ alive' \in BOOLEAN
    BY <1>16, Zenon DEF Fetched, bridge
  <2> QED
    BY <1>16, <2>1 DEF Fetched
<1>17. CASE ClearBegins
  BY <1>17 DEF ClearBegins
<1>18. CASE ClearEnds
  BY <1>18 DEF ClearEnds
<1>19. CASE MovedOut
  BY <1>19 DEF MovedOut
<1>20. CASE NothingToMove
  BY <1>20 DEF NothingToMove
<1>21. CASE MovedIn
  BY <1>21 DEF MovedIn
<1>22. CASE Dropped
  BY <1>22 DEF Dropped
<1>23. CASE SwapFailed
  BY <1>23 DEF SwapFailed
<1>24. CASE RolledBack
  BY <1>24 DEF RolledBack
<1>25. CASE NotRolledBack
  BY <1>25 DEF NotRolledBack
<1>26. CASE Crash
  BY <1>26 DEF Crash, CutShort
<1>27. CASE Restart
  BY <1>27 DEF Restart
<1>28. ASSUME NEW c \in Contents, Write(c) PROVE TypeOK' /\ OpShape'
  BY <1>28 DEF Write
<1> QED
  BY <1>1, <1>2, <1>3, <1>4, <1>5, <1>6, <1>7, <1>8, <1>9, <1>10, <1>11,
     <1>12, <1>13, <1>14, <1>15, <1>16, <1>17, <1>18, <1>19, <1>20, <1>21,
     <1>22, <1>23, <1>24, <1>25, <1>26, <1>27, <1>28
     DEF Next, Snapshot, Checkpoint, Restore

(* While an operation runs no other touches the tags, so a copy stays exact.  *)
LEMMA CopyStep ==
    ASSUME TypeOK, OpShape, CopyExact, TagKeepsSnapshot, Next
    PROVE  CopyExact'
<1> USE VFSAssumption DEF TypeOK, OpShape, CopyExact, TagKeepsSnapshot,
     Filled, Swap, Trees, At, Step, Idle, workVars, tagVars, bridge
<1>1. ASSUME NEW t \in Tags, SnapshotBegins(t) PROVE CopyExact'
  BY <1>1 DEF SnapshotBegins, Cleaned
<1>2. CASE SnapshotCopied
  BY <1>2 DEF SnapshotCopied
<1>3. CASE RemovalBegins
  BY <1>3 DEF RemovalBegins
<1>4. CASE RemovalEnds
  BY <1>4 DEF RemovalEnds
<1>5. CASE Published
  BY <1>5 DEF Published
<1>6. CASE SnapshotFailed
  BY <1>6 DEF SnapshotFailed, CutShort
<1>7. CASE CheckpointBegins
  BY <1>7 DEF CheckpointBegins
<1>8. CASE FullCopied
  BY <1>8 DEF FullCopied
<1>9. CASE Degraded
  BY <1>9 DEF Degraded
<1>10. CASE Stored
  BY <1>10 DEF Stored
<1>11. CASE StoreFailed
  BY <1>11 DEF StoreFailed
<1>12. ASSUME NEW t \in Tags, RestoreBegins(t) PROVE CopyExact'
  BY <1>12 DEF RestoreBegins
<1>13. CASE RestoreCopied
  BY <1>13 DEF RestoreCopied
<1>14. CASE FetchBegins
  BY <1>14 DEF FetchBegins
<1>15. CASE FetchFailed
  BY <1>15 DEF FetchFailed
<1>16. ASSUME NEW c \in Trees, Fetched(c) PROVE CopyExact'
  BY <1>16 DEF Fetched
<1>17. CASE ClearBegins
  BY <1>17 DEF ClearBegins
<1>18. CASE ClearEnds
  BY <1>18 DEF ClearEnds
<1>19. CASE MovedOut
  BY <1>19 DEF MovedOut
<1>20. CASE NothingToMove
  BY <1>20 DEF NothingToMove
<1>21. CASE MovedIn
  BY <1>21 DEF MovedIn
<1>22. CASE Dropped
  BY <1>22 DEF Dropped
<1>23. CASE SwapFailed
  BY <1>23 DEF SwapFailed
<1>24. CASE RolledBack
  BY <1>24 DEF RolledBack
<1>25. CASE NotRolledBack
  BY <1>25 DEF NotRolledBack
<1>26. CASE Crash
  BY <1>26 DEF Crash, CutShort
<1>27. CASE Restart
  BY <1>27 DEF Restart
<1>28. ASSUME NEW c \in Contents, Write(c) PROVE CopyExact'
  BY <1>28 DEF Write
<1> QED
  BY <1>1, <1>2, <1>3, <1>4, <1>5, <1>6, <1>7, <1>8, <1>9, <1>10, <1>11,
     <1>12, <1>13, <1>14, <1>15, <1>16, <1>17, <1>18, <1>19, <1>20, <1>21,
     <1>22, <1>23, <1>24, <1>25, <1>26, <1>27, <1>28
     DEF Next, Snapshot, Checkpoint, Restore

(* Only the steps of snapshot touch the tags.                               *)
LEMMA TagStep ==
    ASSUME TypeOK, OpShape, CopyExact, TagKeepsSnapshot, Next
    PROVE  TagKeepsSnapshot'
<1> USE VFSAssumption DEF TypeOK, OpShape, CopyExact, TagKeepsSnapshot, At,
     Step, Idle, workVars, tagVars, bridge
<1>1. ASSUME NEW t \in Tags, SnapshotBegins(t) PROVE TagKeepsSnapshot'
  BY <1>1 DEF SnapshotBegins, Cleaned
<1>2. CASE SnapshotCopied
  BY <1>2 DEF SnapshotCopied
<1>3. CASE RemovalBegins
  BY <1>3 DEF RemovalBegins
<1>4. CASE RemovalEnds
  BY <1>4 DEF RemovalEnds
<1>5. CASE Published
  BY <1>5 DEF Published
<1>6. CASE UNCHANGED <<tags, saved, broken>>
  BY <1>6
<1> QED
  BY <1>1, <1>2, <1>3, <1>4, <1>5, <1>6
     DEF Next, Snapshot, Checkpoint,
     Restore, SnapshotFailed, CheckpointBegins, FullCopied, Degraded, Stored,
     StoreFailed, RestoreBegins, RestoreCopied, FetchBegins, FetchFailed,
     Fetched, ClearBegins, ClearEnds, MovedOut, NothingToMove, MovedIn,
     Dropped, SwapFailed, RolledBack, NotRolledBack, Crash, Restart, Write

(* A tree is torn while it is filled or removed; what is published, stored  *)
(* or moved has been through neither, or mishap says so.                    *)
LEMMA WholeStep ==
    ASSUME TypeOK, OpShape, HalfTreesStayHidden, CopyWhole, Next
    PROVE  HalfTreesStayHidden' /\ CopyWhole'
<1> USE VFSAssumption DEF TypeOK, OpShape, HalfTreesStayHidden, CopyWhole,
     Filled, Swap, Kinds, At, Step, Idle, workVars, tagVars, bridge
<1>1. ASSUME NEW t \in Tags, SnapshotBegins(t) PROVE HalfTreesStayHidden' /\ CopyWhole'
  BY <1>1 DEF SnapshotBegins, Cleaned
<1>2. CASE SnapshotCopied
  BY <1>2 DEF SnapshotCopied
<1>3. CASE RemovalBegins
  BY <1>3 DEF RemovalBegins
<1>4. CASE RemovalEnds
  BY <1>4 DEF RemovalEnds
<1>5. CASE Published
  BY <1>5 DEF Published
<1>6. CASE SnapshotFailed
  BY <1>6 DEF SnapshotFailed, CutShort
<1>7. CASE CheckpointBegins
  BY <1>7 DEF CheckpointBegins
<1>8. CASE FullCopied
  BY <1>8 DEF FullCopied
<1>9. CASE Degraded
  BY <1>9 DEF Degraded
<1>10. CASE Stored
  BY <1>10 DEF Stored
<1>11. CASE StoreFailed
  BY <1>11 DEF StoreFailed
<1>12. ASSUME NEW t \in Tags, RestoreBegins(t) PROVE HalfTreesStayHidden' /\ CopyWhole'
  BY <1>12 DEF RestoreBegins
<1>13. CASE RestoreCopied
  BY <1>13 DEF RestoreCopied
<1>14. CASE FetchBegins
  BY <1>14 DEF FetchBegins
<1>15. CASE FetchFailed
  BY <1>15 DEF FetchFailed
<1>16. ASSUME NEW c \in Trees, Fetched(c) PROVE HalfTreesStayHidden' /\ CopyWhole'
  BY <1>16 DEF Fetched
<1>17. CASE ClearBegins
  BY <1>17 DEF ClearBegins
<1>18. CASE ClearEnds
  BY <1>18 DEF ClearEnds
<1>19. CASE MovedOut
  BY <1>19 DEF MovedOut
<1>20. CASE NothingToMove
  BY <1>20 DEF NothingToMove
<1>21. CASE MovedIn
  BY <1>21 DEF MovedIn
<1>22. CASE Dropped
  BY <1>22 DEF Dropped
<1>23. CASE SwapFailed
  BY <1>23 DEF SwapFailed
<1>24. CASE RolledBack
  BY <1>24 DEF RolledBack
<1>25. CASE NotRolledBack
  BY <1>25 DEF NotRolledBack
<1>26. CASE Crash
  BY <1>26 DEF Crash, CutShort
<1>27. CASE Restart
  BY <1>27 DEF Restart
<1>28. ASSUME NEW c \in Contents, Write(c) PROVE HalfTreesStayHidden' /\ CopyWhole'
  BY <1>28 DEF Write
<1> QED
  BY <1>1, <1>2, <1>3, <1>4, <1>5, <1>6, <1>7, <1>8, <1>9, <1>10, <1>11,
     <1>12, <1>13, <1>14, <1>15, <1>16, <1>17, <1>18, <1>19, <1>20, <1>21,
     <1>22, <1>23, <1>24, <1>25, <1>26, <1>27, <1>28
     DEF Next, Snapshot, Checkpoint, Restore

(* The tree leaves the working directory by one rename and comes back, or is *)
(* replaced, by the next.                                                  *)
LEMMA TreeStep ==
    ASSUME TypeOK, OpShape, CopyExact, TreePlaced, Next
    PROVE  TreePlaced'
<1> USE VFSAssumption DEF TypeOK, OpShape, CopyExact, TreePlaced, Filled,
     Swap, Places, Trees, At, Step, Idle, workVars, tagVars, bridge
<1>1. ASSUME NEW t \in Tags, SnapshotBegins(t) PROVE TreePlaced'
  BY <1>1 DEF SnapshotBegins, Cleaned
<1>2. CASE SnapshotCopied
  BY <1>2 DEF SnapshotCopied
<1>3. CASE RemovalBegins
  BY <1>3 DEF RemovalBegins
<1>4. CASE RemovalEnds
  BY <1>4 DEF RemovalEnds
<1>5. CASE Published
  BY <1>5 DEF Published
<1>6. CASE SnapshotFailed
  BY <1>6 DEF SnapshotFailed, CutShort
<1>7. CASE CheckpointBegins
  BY <1>7 DEF CheckpointBegins
<1>8. CASE FullCopied
  BY <1>8 DEF FullCopied
<1>9. CASE Degraded
  BY <1>9 DEF Degraded
<1>10. CASE Stored
  BY <1>10 DEF Stored
<1>11. CASE StoreFailed
  BY <1>11 DEF StoreFailed
<1>12. ASSUME NEW t \in Tags, RestoreBegins(t) PROVE TreePlaced'
  BY <1>12 DEF RestoreBegins
<1>13. CASE RestoreCopied
  BY <1>13 DEF RestoreCopied
<1>14. CASE FetchBegins
  BY <1>14 DEF FetchBegins
<1>15. CASE FetchFailed
  BY <1>15 DEF FetchFailed
<1>16. ASSUME NEW c \in Trees, Fetched(c) PROVE TreePlaced'
  BY <1>16 DEF Fetched
<1>17. CASE ClearBegins
  BY <1>17 DEF ClearBegins
<1>18. CASE ClearEnds
  BY <1>18 DEF ClearEnds
<1>19. CASE MovedOut
  BY <1>19 DEF MovedOut
<1>20. CASE NothingToMove
  BY <1>20 DEF NothingToMove
<1>21. CASE MovedIn
  BY <1>21 DEF MovedIn
<1>22. CASE Dropped
  BY <1>22 DEF Dropped
<1>23. CASE SwapFailed
  BY <1>23 DEF SwapFailed
<1>24. CASE RolledBack
  BY <1>24 DEF RolledBack
<1>25. CASE NotRolledBack
  BY <1>25 DEF NotRolledBack
<1>26. CASE Crash
  BY <1>26 DEF Crash, CutShort
<1>27. CASE Restart
  BY <1>27 DEF Restart
<1>28. ASSUME NEW c \in Contents, Write(c) PROVE TreePlaced'
  BY <1>28 DEF Write
<1> QED
  BY <1>1, <1>2, <1>3, <1>4, <1>5, <1>6, <1>7, <1>8, <1>9, <1>10, <1>11,
     <1>12, <1>13, <1>14, <1>15, <1>16, <1>17, <1>18, <1>19, <1>20, <1>21,
     <1>22, <1>23, <1>24, <1>25, <1>26, <1>27, <1>28
     DEF Next, Snapshot, Checkpoint, Restore

(***************************************************************************)
(* The theorems.                                                           *)
(***************************************************************************)

(* Everything above holds always.                                          *)
THEOREM Invariant == Spec => []IInv
<1>1. Init => IInv
  BY InitIInv
<1>2. IInv /\ [Next]_vars => IInv'
  <2>1. ASSUME IInv, Next
        PROVE  IInv'
    BY <2>1, ShapeStep, CopyStep, TagStep, WholeStep, TreeStep DEF IInv
  <2>2. ASSUME IInv, UNCHANGED vars
        PROVE  IInv'
    BY <2>2 DEF IInv, TypeOK, OpShape, CopyExact, TagKeepsSnapshot, HalfTreesStayHidden,
                CopyWhole, TreePlaced, Filled, vars
  <2> QED
    BY <2>1, <2>2
<1> QED
  BY <1>1, <1>2, PTL DEF Spec

(* Every variable of the directories and of the operation keeps its type.    *)
THEOREM TypesHold == Spec => []TypeOK
<1>1. IInv => TypeOK
  BY DEF IInv
<1> QED
  BY <1>1, Invariant, PTL

(* What snapshot(tag) returned for stays under the tag until a later snapshot *)
(* begins to remove it, through crashes and failures of every operation.     *)
THEOREM TagsKeepSnapshots == Spec => []TagKeepsSnapshot
<1>1. IInv => TagKeepsSnapshot
  BY DEF IInv
<1> QED
  BY <1>1, Invariant, PTL

(* A half tree reaches the working directory, the durable store or a tag at   *)
(* rest only after a removal of a tag was cut short.                         *)
THEOREM HalfTreesHidden == Spec => []HalfTreesStayHidden
<1>1. IInv => HalfTreesStayHidden
  BY DEF IInv
<1> QED
  BY <1>1, Invariant, PTL

(* The user's tree is in the working directory or beside it at every point of *)
(* restore and of the bridge's swap.                                        *)
THEOREM LiveTreeIsRecoverable == Spec => []LiveTreeRecoverable
<1>1. IInv => LiveTreeRecoverable
  BY DEF IInv, TreePlaced, LiveTreeRecoverable, OpShape, Idle
<1> QED
  BY <1>1, Invariant, PTL

(* A completed restore leaves exactly what the tag's snapshot held, and a     *)
(* checkpoint stores exactly what the user last wrote or restored.           *)
THEOREM RestoresAreExact == Spec => RestoreExact
<1> DEFINE Exact ==
           /\ At({"restore"}, "in") /\ op'.at = "drop"
              => work' = saved[op.tag] \/ op.tag \in broken
           /\ durable' # durable => durable' = data \/ "stranded" \in mishap
<1>1. ASSUME IInv, Next
      PROVE  Exact
  <2> USE <1>1 DEF IInv, TypeOK, OpShape, CopyExact, TreePlaced, Filled, Swap,
       Kinds, At, Step, Idle, workVars, tagVars, bridge
  <2>1. CASE Stored
    BY <2>1 DEF Stored
  <2>2. CASE MovedIn
    BY <2>2 DEF MovedIn
  <2>3. CASE UNCHANGED durable /\ ~(At({"restore"}, "in") /\ op'.at = "drop")
    BY <2>3
  <2> QED
    BY <2>1, <2>2, <2>3
       DEF Next, Snapshot, Checkpoint, Restore,
           SnapshotBegins, SnapshotCopied, RemovalBegins, RemovalEnds,
           Published, SnapshotFailed, CheckpointBegins, FullCopied, Degraded,
           StoreFailed, RestoreBegins, RestoreCopied, FetchBegins,
           FetchFailed, Fetched, ClearBegins, ClearEnds, MovedOut,
           NothingToMove, Dropped, SwapFailed, RolledBack, NotRolledBack,
           Crash, Restart, Write
<1>2. ASSUME UNCHANGED vars
      PROVE  Exact
  BY <1>2 DEF vars, At
<1>3. IInv /\ [Next]_vars => Exact
  BY <1>1, <1>2
<1> QED
  BY <1>3, Invariant, PTL DEF Spec, RestoreExact
================================================================================
