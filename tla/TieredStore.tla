----------------------------- MODULE TieredStore -----------------------------
(***************************************************************************)
(* TieredSnapshotStore (_runtime/tiered_store.py) over its backends.       *)
(*                                                                         *)
(* Only calls to Postgres suspend.  LocalSnapshotStore awaits nothing but  *)
(* an uncontended lock and MinioSnapshotStore blocks the event loop, so a  *)
(* task that is at such a tier holds the loop until it gets further.       *)
(***************************************************************************)
EXTENDS SnapshotBackends, Naturals, Sequences, FiniteSets, SequencesExt

CONSTANTS
    N,             \* number of tiers; tier 1 has the highest priority
    Kind,          \* the backend of each tier
    WriteThrough,  \* tiers with write_through
    LRU, TTL,      \* tiers with that eviction policy
    Limit,         \* max_objects of each tier; 0 for none
    Jobs,          \* client calls that may be under way at once
    Refs,          \* unified references; a put never reuses one
    Sweeper, NoRef

Tiers == 1..N
Agents == Jobs \cup {Sweeper}

ASSUME TieredAssumption ==
    /\ N \in Nat \ {0} /\ Kind \in [Tiers -> {"local", "postgres", "minio"}]
    /\ WriteThrough \subseteq Tiers /\ LRU \subseteq Tiers /\ TTL \subseteq Tiers \ LRU
    /\ Limit \in [Tiers -> Nat]
    /\ Sweeper \notin Jobs /\ NoRef \notin Refs

VARIABLES
    stored,     \* what each tier's store holds under each reference; durable
    tracked,    \* _tier_refs
    meta,       \* the keys of _meta_cache
    access,     \* the keys of _access_times, oldest first
    op,         \* what each agent does and where it is suspended
    writes,     \* the gathered writes of a put, by tier
    agenda,     \* references _evict_tier still goes through
    issued,     \* history: references made so far
    known,      \* history: those whose put returned
    trees,      \* history: references put_tree returned
    condemned,  \* history: references some delete began on
    deleted,    \* history: references a delete returned for
    excused,    \* history: deleted references a promotion or a fault kept
    forgotten,  \* history: objects a crash or a failed or cancelled put left
    missed      \* history: references get did not find

vars == <<stored, tracked, meta, access, op, writes, agenda, issued, known, trees,
          condemned, deleted, excused, forgotten, missed>>

memory == <<tracked, meta, access>>
history == <<issued, known, trees, condemned, deleted, excused, forgotten, missed>>

Idle == [kind |-> "none", ref |-> NoRef, tier |-> 1, at |-> "idle",
         answer |-> "ok", data |-> "none", errors |-> 0]

Init ==
    /\ stored = [t \in Tiers |-> [r \in Refs |-> "none"]]
    /\ tracked = [t \in Tiers |-> {}] /\ meta = {} /\ access = <<>>
    /\ op = [a \in Agents |-> Idle]
    /\ writes = [j \in Jobs |-> [t \in Tiers |-> "no"]]
    /\ agenda = <<>>
    /\ issued = {} /\ known = {} /\ trees = {} /\ condemned = {} /\ deleted = {}
    /\ excused = {} /\ forgotten = {} /\ missed = {}

Touched(r) == Append(SelectSeq(access, LAMBDA s : s # r), r)

(* Who holds the event loop, and where a call to a tier leaves its caller.   *)
Holds(a) == op[a].at \in {"run", "ran", "pick"}
Turn(a) == \A b \in Agents \ {a} : ~Holds(b)
Calls(t) == IF Kind[t] = "postgres" THEN "sent" ELSE "run"

Ready(a, kind) == op[a].kind = kind /\ op[a].at \in {"ran", "answered"} /\ Turn(a)
Goes(a, kind, t) ==
    op' = [op EXCEPT ![a].kind = kind, ![a].tier = t, ![a].at = Calls(t), ![a].answer = "ok"]
Ends(a) == op' = [op EXCEPT ![a] = Idle]

(* A write of a reference whose delete began may outlive it.                 *)
Excuses(R) == excused \cup (R \cap condemned)

(* Objects nothing in memory may refer to, as long as they are there.        *)
Forgets(P) ==
    forgotten' = {p \in forgotten \cup P : stored'[p[1]][p[2]] # "none"}

-----------------------------------------------------------------------------
(* A store carries out the call an agent waits for.                         *)

Effects(a) ==
    LET was == stored[op[a].tier][op[a].ref]
        kind == Kind[op[a].tier]
    IN  CASE op[a].kind = "get"     -> Gets(kind, was)
          [] op[a].kind = "promote" -> Puts(kind, was, op[a].data)
          [] OTHER                  -> Deletes(kind, was)

Serve(a) ==
    /\ op[a].at \in {"run", "sent"}
    /\ \E o \in Effects(a) :
          /\ stored' = [stored EXCEPT ![op[a].tier][op[a].ref] = o.object]
          /\ op' = [op EXCEPT ![a].answer = o.answer,
                              ![a].at = IF @ = "run" THEN "ran" ELSE "answered"]
          /\ Forgets(IF op[a].kind = "promote" /\ o.answer = "error"
                     THEN {<<op[a].tier, op[a].ref>>} ELSE {})
    /\ excused' = IF op[a].kind = "promote" THEN Excuses({op[a].ref}) ELSE excused
    /\ UNCHANGED <<memory, writes, agenda, issued, known, trees, condemned, deleted,
                   missed>>

-----------------------------------------------------------------------------
(* put.  A definition X_Y is X with one fault Y; no specification uses it.   *)

PutBegins(j, r) ==
    /\ op[j] = Idle /\ Turn(j) /\ r \notin issued
    /\ WriteThrough # {}
    /\ op' = [op EXCEPT ![j] = [Idle EXCEPT !.kind = "put", !.ref = r, !.at = "gather"]]
    /\ writes' = [writes EXCEPT ![j] = [t \in Tiers |->
                     IF t \in WriteThrough THEN "start" ELSE "no"]]
    /\ issued' = issued \cup {r}
    /\ UNCHANGED <<stored, memory, agenda, known, trees, condemned, deleted, excused,
                   forgotten, missed>>

WriteGoes(j, t, state) == writes' = [writes EXCEPT ![j][t] = state]

(* The tier's object is written; a store that does not suspend answers at    *)
(* once.                                                                    *)
Write(j, t) ==
    LET r == op[j].ref IN
    /\ writes[j][t] = "start"
    /\ Kind[t] # "postgres" => Turn(j)
    /\ \E o \in Puts(Kind[t], stored[t][r], "whole") :
          /\ stored' = [stored EXCEPT ![t][r] = o.object]
          /\ Forgets(IF o.answer = "error" THEN {<<t, r>>} ELSE {})
          /\ IF Kind[t] = "postgres"
             THEN /\ WriteGoes(j, t, IF o.answer = "ok" THEN "stored" ELSE "refused")
                  /\ tracked' = tracked
             ELSE /\ WriteGoes(j, t, IF o.answer = "ok" THEN "ok" ELSE "failed")
                  /\ tracked' = IF o.answer = "ok" THEN [tracked EXCEPT ![t] = @ \cup {r}]
                                ELSE tracked
    /\ UNCHANGED <<meta, access, op, agenda, issued, known, trees, condemned, deleted,
                   excused, missed>>

Written(j, t) ==
    /\ writes[j][t] \in {"stored", "refused"} /\ Turn(j)
    /\ IF writes[j][t] = "stored"
       THEN WriteGoes(j, t, "ok") /\ tracked' = [tracked EXCEPT ![t] = @ \cup {op[j].ref}]
       ELSE WriteGoes(j, t, "failed") /\ tracked' = tracked
    /\ UNCHANGED <<stored, meta, access, op, agenda, history>>

Over(j) == \A t \in Tiers : writes[j][t] \in {"no", "ok", "failed"}
PutOver(j) ==
    /\ op[j].kind = "put" /\ Over(j) /\ Turn(j)
    /\ Ends(j)
    /\ writes' = [writes EXCEPT ![j] = [t \in Tiers |-> "no"]]

PutReturns_AnyTier(j) ==
    /\ PutOver(j) /\ \E t \in Tiers : writes[j][t] = "ok"
    /\ meta' = meta \cup {op[j].ref} /\ access' = Touched(op[j].ref)
    /\ known' = known \cup {op[j].ref}
    /\ UNCHANGED <<stored, tracked, agenda, issued, trees, condemned, deleted, excused,
                   forgotten, missed>>
PutReturns(j) ==
    /\ PutOver(j) /\ \A t \in Tiers : writes[j][t] # "failed"
    /\ meta' = meta \cup {op[j].ref} /\ access' = Touched(op[j].ref)
    /\ known' = known \cup {op[j].ref}
    /\ UNCHANGED <<stored, tracked, agenda, issued, trees, condemned, deleted, excused,
                   forgotten, missed>>

(* One tier failed: the exception reaches the caller, the other tiers keep   *)
(* what they have.                                                          *)
PutRaises(j) ==
    /\ PutOver(j) /\ \E t \in Tiers : writes[j][t] = "failed"
    /\ UNCHANGED <<stored, memory, agenda, history>>

(* The gathered writes are cancelled; what Postgres committed stays.         *)
PutCancelled(j) ==
    /\ op[j].kind = "put" /\ ~Over(j) /\ Turn(j)
    /\ forgotten' = forgotten \cup {<<t, op[j].ref>> : t \in {s \in Tiers : writes[j][s] = "stored"}}
    /\ Ends(j)
    /\ writes' = [writes EXCEPT ![j] = [t \in Tiers |-> "no"]]
    /\ UNCHANGED <<stored, memory, agenda, issued, known, trees, condemned, deleted, excused, missed>>

(* put_tree goes to tier 1 alone, under that store's own reference, and only *)
(* the local store takes a stream; it renames the finished archive in place. *)
PutTree(j, r) ==
    /\ op[j] = Idle /\ Turn(j) /\ r \notin issued
    /\ Kind[1] = "local"
    /\ stored' = [stored EXCEPT ![1][r] = "whole"]
    /\ trees' = trees \cup {r} /\ issued' = issued \cup {r}
    /\ UNCHANGED <<memory, op, writes, agenda, known, condemned, deleted, excused,
                   forgotten, missed>>

-----------------------------------------------------------------------------
(* get, restore_tree, and the first half of copy                            *)

GetBegins(j, r) ==
    /\ op[j] = Idle /\ Turn(j) /\ r \in known \cup trees
    /\ access' = Touched(r)
    /\ op' = [op EXCEPT ![j] = [Idle EXCEPT !.kind = "get", !.ref = r, !.at = Calls(1)]]
    /\ UNCHANGED <<stored, tracked, meta, writes, agenda, history>>

GetMisses(j) ==
    /\ Ready(j, "get") /\ op[j].answer = "missing"
    /\ IF op[j].tier < N
       THEN Goes(j, "get", op[j].tier + 1) /\ missed' = missed
       ELSE Ends(j) /\ missed' = missed \cup {op[j].ref}
    /\ UNCHANGED <<stored, memory, writes, agenda, issued, known, trees, condemned,
                   deleted, excused, forgotten>>

GetRaises(j) ==
    /\ Ready(j, "get") /\ op[j].answer = "error"
    /\ Ends(j)
    /\ UNCHANGED <<stored, memory, writes, agenda, history>>

(* The write-through tiers from i on that lie above the tier it was found in. *)
Above(i, found) == {t \in WriteThrough : i <= t /\ t < found}
Highest(S) == CHOOSE t \in S : \A u \in S : t <= u

GetFound(j) ==
    LET up == Above(1, op[j].tier) IN
    /\ Ready(j, "get") /\ op[j].answer \in {"whole", "torn"}
    /\ IF op[j].ref \in meta /\ up # {}
       THEN op' = [op EXCEPT ![j].kind = "promote", ![j].data = op[j].answer,
                             ![j].errors = op[j].tier,
                             ![j].tier = Highest(up), ![j].at = Calls(Highest(up)),
                             ![j].answer = "ok"]
       ELSE Ends(j)
    /\ UNCHANGED <<stored, memory, writes, agenda, history>>

(* A promotion that failed is logged; the data is returned either way.       *)
Promoted_Untracked(j) ==
    LET up == Above(op[j].tier + 1, op[j].errors) IN
    /\ Ready(j, "promote")
    /\ IF up # {} THEN Goes(j, "promote", Highest(up)) ELSE Ends(j)
    /\ UNCHANGED <<stored, memory, writes, agenda, history>>
Promoted(j) ==
    LET up == Above(op[j].tier + 1, op[j].errors) IN
    /\ Ready(j, "promote")
    /\ tracked' = IF op[j].answer = "ok"
                  THEN [tracked EXCEPT ![op[j].tier] = @ \cup {op[j].ref}] ELSE tracked
    /\ IF up # {} THEN Goes(j, "promote", Highest(up)) ELSE Ends(j)
    /\ UNCHANGED <<stored, meta, access, writes, agenda, history>>

-----------------------------------------------------------------------------
DeleteBegins(j, r) ==
    /\ op[j] = Idle /\ Turn(j) /\ r \in known \cup trees
    /\ condemned' = condemned \cup {r}
    /\ op' = [op EXCEPT ![j] = [Idle EXCEPT !.kind = "delete", !.ref = r, !.at = Calls(1)]]
    /\ UNCHANGED <<stored, memory, writes, agenda, issued, known, trees, deleted, excused,
                   forgotten, missed>>

(* The tier is done with: a KeyError is ignored, another failure is counted, *)
(* and the reference is no longer tracked either way.                       *)
Errors(j) == op[j].errors + IF op[j].answer = "error" THEN 1 ELSE 0
Discards(j) == tracked' = [tracked EXCEPT ![op[j].tier] = @ \ {op[j].ref}]
Fault(j) == op[j].answer = "error" \/ (op[j].answer = "missing" /\ Kind[op[j].tier] = "minio")

DeleteGoesOn(j) ==
    /\ Ready(j, "delete") /\ op[j].tier < N
    /\ Discards(j)
    /\ op' = [op EXCEPT ![j].tier = @ + 1, ![j].at = Calls(op[j].tier + 1),
                        ![j].errors = Errors(j), ![j].answer = "ok"]
    /\ excused' = IF Fault(j) THEN excused \cup {op[j].ref} ELSE excused
    /\ UNCHANGED <<stored, meta, access, writes, agenda, issued, known, trees, condemned,
                   deleted, forgotten, missed>>

DeleteEnds_AtFirst(j) ==
    /\ Ready(j, "delete")
    /\ Discards(j)
    /\ meta' = meta \ {op[j].ref}
    /\ access' = SelectSeq(access, LAMBDA s : s # op[j].ref)
    /\ deleted' = deleted \cup {op[j].ref} /\ excused' = excused
    /\ Ends(j)
    /\ UNCHANGED <<stored, writes, agenda, issued, known, trees, condemned, forgotten, missed>>
DeleteEnds(j) ==
    /\ Ready(j, "delete") /\ op[j].tier = N
    /\ Discards(j)
    /\ meta' = meta \ {op[j].ref}
    /\ access' = SelectSeq(access, LAMBDA s : s # op[j].ref)
    /\ deleted' = IF Errors(j) = N THEN deleted ELSE deleted \cup {op[j].ref}
    /\ excused' = IF Fault(j) THEN excused \cup {op[j].ref} ELSE excused
    /\ Ends(j)
    /\ UNCHANGED <<stored, writes, agenda, issued, known, trees, condemned, forgotten, missed>>

(* A caller is cancelled while it waits for Postgres, which may have done what *)
(* it was asked to.                                                         *)
CallCancelled(j) ==
    /\ op[j].kind \in {"get", "promote", "delete"} /\ op[j].at \in {"sent", "answered"}
    /\ Turn(j)
    /\ Ends(j)
    /\ forgotten' = IF op[j].kind = "promote" /\ stored[op[j].tier][op[j].ref] # "none"
                    THEN forgotten \cup {<<op[j].tier, op[j].ref>>} ELSE forgotten
    /\ UNCHANGED <<stored, memory, writes, agenda, issued, known, trees, condemned, deleted,
                   excused, missed>>

-----------------------------------------------------------------------------
(* _sweep_once and _evict_tier                                              *)

WithinLimits(t) == Limit[t] > 0 => Cardinality(tracked[t]) <= Limit[t]

(* Oldest access first; those without one count as the oldest.               *)
Rank(r) == IF \E i \in DOMAIN access : access[i] = r
           THEN CHOOSE i \in DOMAIN access : access[i] = r ELSE 0
Oldest(t) ==
    {s \in SetToSeqs(tracked[t]) :
        \A i, j \in DOMAIN s : i < j => Rank(s[i]) <= Rank(s[j])}

(* What _evict_tier goes through: all a TTL finds expired, whichever they are. *)
Agendas(t) ==
    CASE t \in LRU -> Oldest(t)
      [] t \in TTL -> UNION {SetToSeqs(S) : S \in SUBSET tracked[t]}
      [] OTHER     -> {<<>>}

SweepGoesTo(t) ==
    IF t > N THEN Ends(Sweeper) /\ agenda' = <<>>
    ELSE /\ agenda' \in Agendas(t)
         /\ op' = [op EXCEPT ![Sweeper] = [Idle EXCEPT !.kind = "evict", !.tier = t, !.at = "pick"]]

SweepBegins ==
    /\ op[Sweeper] = Idle /\ Turn(Sweeper)
    /\ \E t \in LRU \cup TTL : tracked[t] # {}
    /\ SweepGoesTo(1)
    /\ UNCHANGED <<stored, memory, writes, history>>

Done(t) == agenda = <<>> \/ (t \in LRU /\ WithinLimits(t))

SweepNextTier ==
    /\ op[Sweeper].at = "pick" /\ Done(op[Sweeper].tier)
    /\ SweepGoesTo(op[Sweeper].tier + 1)
    /\ UNCHANGED <<stored, memory, writes, history>>

Evict ==
    /\ op[Sweeper].at = "pick" /\ ~Done(op[Sweeper].tier)
    /\ op' = [op EXCEPT ![Sweeper].ref = Head(agenda), ![Sweeper].at = Calls(op[Sweeper].tier)]
    /\ agenda' = Tail(agenda)
    /\ UNCHANGED <<stored, memory, writes, history>>

Evicted ==
    /\ Ready(Sweeper, "evict") /\ op[Sweeper].answer \in {"ok", "missing"}
    /\ Discards(Sweeper)
    /\ op' = [op EXCEPT ![Sweeper].at = "pick", ![Sweeper].ref = NoRef, ![Sweeper].answer = "ok"]
    /\ UNCHANGED <<stored, meta, access, writes, agenda, history>>

(* Any other exception ends the tick, for the tiers that follow too.         *)
SweepRaises ==
    /\ Ready(Sweeper, "evict") /\ op[Sweeper].answer = "error"
    /\ Ends(Sweeper) /\ agenda' = <<>>
    /\ UNCHANGED <<stored, memory, writes, history>>

-----------------------------------------------------------------------------
(* The process dies and starts again: only the stores keep what they have, a *)
(* local archive that was being written a part of it.                        *)
BeingWritten ==
    {p \in Tiers \X Refs : \E j \in Jobs :
        /\ op[j].ref = p[2]
        /\ \/ writes[j][p[1]] = "start"
           \/ op[j].kind = "promote" /\ op[j].at = "run" /\ op[j].tier = p[1]}

Crash ==
    /\ \E T \in SUBSET {p \in BeingWritten : Kind[p[1]] = "local"} :
          /\ Cardinality(T) <= 1
          /\ stored' = [t \in Tiers |-> [r \in Refs |->
                           IF <<t, r>> \in T THEN "torn" ELSE stored[t][r]]]
          /\ excused' = Excuses({p[2] : p \in T})
    /\ Forgets(Tiers \X Refs)
    /\ tracked' = [t \in Tiers |-> {}] /\ meta' = {} /\ access' = <<>>
    /\ op' = [a \in Agents |-> Idle]
    /\ writes' = [j \in Jobs |-> [t \in Tiers |-> "no"]]
    /\ agenda' = <<>>
    /\ UNCHANGED <<issued, known, trees, condemned, deleted, missed>>

-----------------------------------------------------------------------------
Job(j) ==
    \/ \E r \in Refs : PutBegins(j, r) \/ PutTree(j, r) \/ GetBegins(j, r) \/ DeleteBegins(j, r)
    \/ \E t \in Tiers : Write(j, t) \/ Written(j, t)
    \/ PutReturns(j) \/ PutRaises(j) \/ PutCancelled(j)
    \/ GetMisses(j) \/ GetRaises(j) \/ GetFound(j) \/ Promoted(j)
    \/ DeleteGoesOn(j) \/ DeleteEnds(j) \/ CallCancelled(j)

Sweeps == SweepBegins \/ SweepNextTier \/ Evict \/ Evicted \/ SweepRaises

Next ==
    \/ \E a \in Agents : Serve(a)
    \/ \E j \in Jobs : Job(j)
    \/ Sweeps
    \/ Crash

Spec == Init /\ [][Next]_vars

-----------------------------------------------------------------------------
(* A reference whose put returned is found by get as long as no delete was   *)
(* asked for it, if some write-through tier evicts nothing, whatever was     *)
(* promoted to and evicted from the tiers above while get went through them. *)
FoundWhileKept ==
    (\E t \in WriteThrough \ (LRU \cup TTL) : Kind[t] # "minio" \/ ~Faults) =>
        missed \subseteq condemned

Busy(t, r) ==
    \/ \E a \in Agents : op[a].ref = r /\ op[a].tier = t /\ op[a].at # "idle"
    \/ \E j \in Jobs : op[j].ref = r /\ writes[j][t] # "no"

(* An eviction there holds the event loop, and its answer is the truth.      *)
Certain(t) == Kind[t] = "local" \/ (Kind[t] = "minio" /\ ~Faults)

(* What a tier's store holds is in _tier_refs, so that eviction can reach    *)
(* it, but for trees and for what crashes, cancelled and failed puts left,   *)
(* if only such tiers evict: in Postgres a promotion may put an object back  *)
(* before the eviction that removed it drops the reference.                 *)
StoredIsTracked ==
    (\A t \in LRU \cup TTL : Certain(t)) =>
        \A t \in Tiers, r \in Refs :
            stored[t][r] # "none" /\ ~Busy(t, r) =>
                r \in tracked[t] \cup trees \cup excused \/ <<t, r>> \in forgotten

(* A reference delete returned for is in no tier, unless a tier failed or a   *)
(* get that had read it before promoted it again.                           *)
DeletedIsGone ==
    \A r \in deleted \ excused : \A t \in Tiers : stored[t][r] = "none"
=============================================================================
