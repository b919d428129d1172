--------------------------- MODULE OrchestratorProofs ---------------------------
(* Proofs about Orchestrator, for any actors, workers, sandboxes and calls,  *)
(* any reuse of ids, any warm limit and any bound on the versions.          *)
EXTENDS Orchestrator, FiniteSetTheorems, TLAPS

(***************************************************************************)
(* The inductive invariant.                                                *)
(***************************************************************************)

Boots == {"restore", "golden", "capture"}
OnDuty == {"running", "suspending", "pausing"}
Pending(k) == call[k].pc # "idle"

(* What a record names, depending on where it is.                           *)
Shapes ==
    /\ \A a \in Actors :
          /\ flight[a].worker # None <=> flight[a].pc \in Boots
          /\ actor[a].worker # None => actor[a].status \in OnDuty
          /\ actor[a].status = "running" => actor[a].worker # None
    /\ \A k \in Calls : Pending(k) => call[k].actor \in Actors /\ call[k].worker \in Workers

(* A worker that a record names is claimed for it, as long as it has a        *)
(* record itself: nobody names an idle worker.                              *)
Claimed(a, w) == Registered(w) => worker[w].host = a
Claims ==
    /\ \A a \in Actors :
          /\ actor[a].worker # None => Claimed(a, actor[a].worker)
          /\ flight[a].worker # None => Claimed(a, flight[a].worker)
    /\ \A k \in Calls :
          /\ call[k].pc = "checkpoint" =>
                /\ Claimed(call[k].actor, call[k].worker)
                /\ Registered(call[k].worker) => worker[call[k].worker].ver = call[k].wver
          /\ call[k].pc = "flip" => ~Registered(call[k].worker)

(* No two name the same worker, but for a call and the actor it suspends.    *)
Apart ==
    /\ \A a, b \in Actors :
          /\ actor[a].worker # None /\ actor[a].worker = actor[b].worker => a = b
          /\ flight[a].worker # None /\ flight[a].worker = flight[b].worker => a = b
          /\ flight[a].worker # None => flight[a].worker # actor[b].worker
    /\ \A a \in Actors, k \in Calls : Pending(k) =>
          /\ flight[a].worker # call[k].worker
          /\ actor[a].worker = call[k].worker =>
                /\ a = call[k].actor /\ actor[a].ver = call[k].ver
                /\ actor[a].status \in {"suspending", "pausing"}
    /\ \A j, k \in Calls :
          Pending(j) /\ Pending(k) /\ call[j].worker = call[k].worker => j = k

(* A worker in use has a record unless a sweep has retired it.               *)
Present ==
    /\ \A w \in stolen : ~Registered(w)
    /\ \A a \in Actors :
          /\ actor[a].status = "running" =>
                Registered(actor[a].worker) \/ actor[a].worker \in stolen
          /\ flight[a].worker # None =>
                Registered(flight[a].worker) \/ flight[a].worker \in stolen

(* The versions of an actor whose id is not reused only grow: what a call or  *)
(* a flight expects is the current one or an old one.                       *)
Fresh ==
    /\ \A a \in Actors :
          /\ Exists(a) => born[a] >= 1
          /\ flight[a].pc # "idle" => born[a] >= 1
          /\ a \notin Reused => born[a] <= 1
    /\ \A k \in Calls : Pending(k) => born[call[k].actor] >= 1
Versions ==
    /\ \A a \in Actors \ Reused :
          Exists(a) /\ flight[a].pc \notin {"idle", "start"} =>
             /\ actor[a].ver >= flight[a].ver
             /\ actor[a].ver = flight[a].ver => actor[a].status = "resuming"
    /\ \A k \in Calls : Pending(k) /\ call[k].actor \notin Reused /\ Exists(call[k].actor) =>
          /\ actor[call[k].actor].ver >= call[k].ver
          /\ actor[call[k].actor].ver = call[k].ver =>
                /\ actor[call[k].actor].status \in {"suspending", "pausing"}
                /\ call[k].pc = "flip" => route[call[k].actor] = None

(* A claimed worker is with a RUNNING actor, a flight or a call, or leaked:   *)
(* ClaimIsAccounted counts SUSPENDING actors too, whose worker a late write  *)
(* to a reused id may overwrite.                                           *)
InHands(w) ==
    \/ \E a \in Actors : actor[a].status = "running" /\ actor[a].worker = w
    \/ \E a \in Actors : flight[a].worker = w
    \/ \E k \in Calls : call[k].pc = "checkpoint" /\ call[k].worker = w
Accounted ==
    \A w \in Workers : Registered(w) /\ ~Idle(w) => w \in leaked \/ InHands(w)

(* A binding is of an actor with a worker to name, and names it, where the id *)
(* is not reused ...                                                       *)
BoundOnDuty ==
    \A a \in Actors \ Reused : route[a] # None =>
        actor[a].status \in OnDuty /\ route[a] = actor[a].worker

(* ... and what any binding names is claimed for its actor, or stolen: reuse  *)
(* may part the binding from the record, not from the worker.               *)
BoundAboard ==
    \A a \in Actors : route[a] # None => OnWorker(a, route[a]) \/ route[a] \in stolen

IInv ==
    /\ TypeOK /\ Shapes /\ Claims /\ Apart /\ Present /\ Fresh /\ Versions
    /\ SandboxAccounting /\ WarmIsIdle /\ BoundOnDuty /\ BoundAboard /\ IdleIsWarm
    /\ Accounted


(***************************************************************************)
(* What the operations do when the invariant holds.                        *)
(***************************************************************************)

(* The two outcomes of a checkpoint that does not retire its worker.         *)
Checkpointed(k) ==
    /\ call[k].pc = "checkpoint"
    /\ Flip(k)
    /\ route' = [route EXCEPT ![call[k].actor] = None]
    /\ call' = [call EXCEPT ![k] = NoCall]
    /\ UNCHANGED <<born, pooled, golden, flight, retiring, closed, stolen>>
Kept(k) ==
    LET w == call[k].worker IN
    /\ Registered(w) /\ WarmRoom
    /\ worker' = [worker EXCEPT ![w].host = None, ![w].ver = @ + 1]
    /\ warm' = warm \cup {w}
Gone(k) ==
    /\ ~Registered(call[k].worker)
    /\ UNCHANGED <<worker, warm>>

(* The record a checkpoint comes back to is the one it left, or none: the     *)
(* conflict release_worker would raise never happens.                      *)
LEMMA CheckpointFindsItsWorker ==
    ASSUME Claims, NEW k \in Calls, CheckpointedKeepsWarm(k)
    PROVE  Checkpointed(k) /\ (Kept(k) \/ Gone(k))
BY DEF Claims, CheckpointedKeepsWarm, Checkpointed, Kept, Gone

(* The last write of a suspend changes the record it expects, or none.       *)
ActorRecord == [status : Status, ver : Nat, worker : Workers \cup {None}, snap : BOOLEAN]
WorkerRecord == [sandbox : Sandboxes \cup {None}, ver : Nat, host : Actors \cup {None}]
CallRecord == [op : {"suspend", "pause"}, pc : CallPc, actor : Actors \cup {None},
               ver : Nat, worker : Workers \cup {None}, wver : Nat]

Flipped(k) ==
    LET a == call[k].actor
        hit == Accepts(a, call[k].ver) IN
    /\ actor' \in [Actors -> ActorRecord] /\ leaked' \subseteq Workers
    /\ \A b \in Actors : b # a \/ ~hit => actor'[b] = actor[b]
    /\ hit => /\ actor'[a].status \in {"suspended", "paused"}
              /\ actor'[a].worker = None
              /\ actor'[a].ver = actor[a].ver + 1
    /\ \A w \in Workers \ {call[k].worker} :
          w \in leaked \/ (hit /\ actor[a].worker = w) => w \in leaked'

LEMMA FlipMoves ==
    ASSUME TypeOK, NEW k \in Calls, Flip(k), call[k].actor \in Actors, call[k].worker \in Workers
    PROVE  Flipped(k)
<1> DEFINE a == call[k].actor
           new == [status |-> FlipStatus(call[k].op), ver |-> actor[a].ver + 1,
                   worker |-> None, snap |-> TRUE]
<1>1. new \in ActorRecord /\ new.status \in {"suspended", "paused"}
  BY DEF TypeOK, ActorRecord, FlipStatus, Status
<1>2. actor \in [Actors -> ActorRecord]
  BY DEF TypeOK, ActorRecord
<1>3. CASE Accepts(a, call[k].ver)
  <2>1. actor' = [actor EXCEPT ![a] = new]
    BY <1>3 DEF Flip
  <2>2. leaked' = (leaked \cup ({actor[a].worker} \ {None})) \ {call[k].worker}
    BY <1>3 DEF Flip
  <2>3. actor[a].worker \in Workers \cup {None} /\ leaked \subseteq Workers
    BY DEF TypeOK
  <2> HIDE DEF new
  <2>4. actor' \in [Actors -> ActorRecord] /\ actor'[a] = new
        /\ \A b \in Actors : b # a => actor'[b] = actor[b]
    BY <1>1, <1>2, <2>1
  <2> QED
    BY <1>1, <1>3, <2>2, <2>3, <2>4, OrchestratorAssumption DEF new, Flipped
<1>4. CASE ~Accepts(a, call[k].ver)
  BY <1>2, <1>4 DEF Flip, TypeOK, Flipped
<1> QED
  BY <1>3, <1>4

(* The last write of a resume likewise; it wins the worker or leaks it.      *)
Finalized(a) ==
    LET hit == Accepts(a, flight[a].ver) /\ actor[a].status # "running"
        w == flight[a].worker IN
    /\ actor' \in [Actors -> ActorRecord]
    /\ \A b \in Actors : b # a \/ ~hit => actor'[b] = actor[b]
    /\ hit => /\ actor'[a].status = "running" /\ actor'[a].worker = w
              /\ actor'[a].ver = actor[a].ver + 1
              /\ leaked' = leaked /\ route' = [route EXCEPT ![a] = w]
    /\ ~hit => leaked' = leaked \cup {w} /\ route' = route
    /\ flight' = [flight EXCEPT ![a] = NoFlight]

LEMMA FinalizeMoves ==
    ASSUME TypeOK, NEW a \in Actors, flight[a].worker \in Workers, FinalizeRunning(a)
    PROVE  Finalized(a)
<1> DEFINE hit == Accepts(a, flight[a].ver) /\ actor[a].status # "running"
           new == [status |-> "running", ver |-> actor[a].ver + 1,
                   worker |-> flight[a].worker, snap |-> flight[a].snap]
<1>1. new \in ActorRecord /\ new.status = "running"
      /\ new.worker = flight[a].worker /\ new.ver = actor[a].ver + 1
  BY DEF TypeOK, ActorRecord, Status
<1>2. actor \in [Actors -> ActorRecord]
  BY DEF TypeOK, ActorRecord
<1>3. CASE hit
  <2>1. actor' = [actor EXCEPT ![a] = new] /\ leaked' = leaked
        /\ route' = [route EXCEPT ![a] = flight[a].worker]
        /\ flight' = [flight EXCEPT ![a] = NoFlight]
    BY <1>3 DEF FinalizeRunning
  <2> HIDE DEF new
  <2> QED
    BY <1>1, <1>2, <1>3, <2>1 DEF Finalized
<1>4. CASE ~hit
  BY <1>2, <1>4 DEF FinalizeRunning, Finalized
<1> QED
  BY <1>3, <1>4

LEMMA CallToFlip ==
    ASSUME NEW k \in Calls, NEW c \in [Calls -> CallRecord]
    PROVE  [c EXCEPT ![k].pc = "flip"] \in [Calls -> CallRecord]
BY DEF CallRecord, CallPc

(***************************************************************************)
(* The operations that change several records, seen from one record each.   *)
(***************************************************************************)

LEMMA Fields ==
    ASSUME TypeOK
    PROVE  /\ \A a \in Actors :
                 /\ actor[a].status \in Status /\ actor[a].ver \in Nat
                 /\ actor[a].worker \in Workers \cup {None}
                 /\ flight[a].ver \in Nat /\ flight[a].worker \in Workers \cup {None}
           /\ \A w \in Workers :
                 worker[w].ver \in Nat /\ worker[w].host \in Actors \cup {None}
           /\ \A k \in Calls :
                 /\ call[k].actor \in Actors \cup {None} /\ call[k].ver \in Nat
                 /\ call[k].worker \in Workers \cup {None} /\ call[k].wver \in Nat
<1>1. /\ actor \in [Actors -> ActorRecord] /\ worker \in [Workers -> WorkerRecord]
      /\ call \in [Calls -> CallRecord]
  BY DEF TypeOK, ActorRecord, WorkerRecord, CallRecord
<1>2. \A a \in Actors : flight[a] \in [pc : FlightPc, ver : Nat, snap : BOOLEAN,
                                       worker : Workers \cup {None}]
  BY DEF TypeOK
<1>3. ASSUME NEW r \in ActorRecord
      PROVE  r.status \in Status /\ r.ver \in Nat /\ r.worker \in Workers \cup {None}
  BY DEF ActorRecord
<1>4. ASSUME NEW r \in WorkerRecord
      PROVE  r.ver \in Nat /\ r.host \in Actors \cup {None}
  BY DEF WorkerRecord
<1>5. ASSUME NEW r \in CallRecord
      PROVE  /\ r.actor \in Actors \cup {None} /\ r.ver \in Nat
             /\ r.worker \in Workers \cup {None} /\ r.wver \in Nat
  BY DEF CallRecord
<1> QED
  BY <1>1, <1>2, <1>3, <1>4, <1>5

CallEnds(k) == call'[k] = NoCall /\ \A j \in Calls \ {k} : call'[j] = call[j]
Unbound(a) == route'[a] = None /\ \A b \in Actors \ {a} : route'[b] = route[b]

(* A checkpoint came back and its worker stays warm, or is gone.             *)
Returned(k) ==
    LET w == call[k].worker IN
    /\ call[k].pc = "checkpoint" /\ call[k].actor \in Actors /\ w \in Workers
    /\ Flipped(k) /\ CallEnds(k) /\ Unbound(call[k].actor)
    /\ \A v \in Workers \ {w} : worker'[v] = worker[v]
    /\ worker'[w].sandbox = worker[w].sandbox
    /\ Registered(w) => worker'[w].host = None /\ WarmRoom
    /\ warm' = IF Registered(w) THEN warm \cup {w} ELSE warm
    /\ UNCHANGED <<born, pooled, golden, flight, retiring, closed, stolen>>

LEMMA CheckpointReturns ==
    ASSUME TypeOK, Shapes, Claims, NEW k \in Calls, CheckpointedKeepsWarm(k)
    PROVE  Returned(k)
<1>1. Checkpointed(k) /\ (Kept(k) \/ Gone(k))
  BY CheckpointFindsItsWorker
<1>2. call[k].actor \in Actors /\ call[k].worker \in Workers /\ Flip(k)
  BY <1>1 DEF Checkpointed, Shapes, Pending
<1>3. Flipped(k)
  BY <1>2, FlipMoves
<1>4. call' = [call EXCEPT ![k] = NoCall] /\ route' = [route EXCEPT ![call[k].actor] = None]
  BY <1>1 DEF Checkpointed
<1>5. DOMAIN call = Calls /\ DOMAIN route = Actors
  BY DEF TypeOK
<1>6. CallEnds(k) /\ Unbound(call[k].actor)
  BY <1>2, <1>4, <1>5 DEF CallEnds, Unbound
<1>7. worker \in [Workers -> WorkerRecord]
  BY DEF TypeOK, WorkerRecord
<1>8. ASSUME NEW r \in WorkerRecord, NEW v
      PROVE  /\ [r EXCEPT !.host = None, !.ver = v].host = None
             /\ [r EXCEPT !.host = None, !.ver = v].sandbox = r.sandbox
  BY DEF WorkerRecord
<1>9. ASSUME Kept(k)
      PROVE  /\ worker'[call[k].worker].sandbox = worker[call[k].worker].sandbox
             /\ worker'[call[k].worker].host = None
             /\ \A v \in Workers \ {call[k].worker} : worker'[v] = worker[v]
  <2> DEFINE w == call[k].worker
             r == [worker[w] EXCEPT !.host = None, !.ver = @ + 1]
  <2>1. worker' = [worker EXCEPT ![w] = r]
    BY <1>9 DEF Kept
  <2>2. r.host = None /\ r.sandbox = worker[w].sandbox
    BY <1>2, <1>7, <1>8
  <2> HIDE DEF r
  <2> QED
    BY <1>2, <1>7, <2>1, <2>2
<1> QED
  BY <1>1, <1>2, <1>3, <1>6, <1>9 DEF Checkpointed, Kept, Gone, Returned

(* The last write after a retired worker's sandbox is back in the pool.      *)
FlipEnds(k) ==
    /\ call[k].pc = "flip" /\ call[k].actor \in Actors /\ call[k].worker \in Workers
    /\ Flipped(k) /\ CallEnds(k)
    /\ UNCHANGED <<born, worker, warm, pooled, route, golden, flight, retiring, closed, stolen>>

LEMMA RetireReturns ==
    ASSUME TypeOK, Shapes, NEW k \in Calls, FlipAfterRetire(k)
    PROVE  FlipEnds(k)
<1>1. call[k].pc = "flip" /\ call[k].actor \in Actors /\ call[k].worker \in Workers
  BY DEF FlipAfterRetire, Shapes, Pending
<1>2. Flipped(k)
  BY <1>1, FlipMoves DEF FlipAfterRetire
<1>3. call' = [call EXCEPT ![k] = NoCall] /\ DOMAIN call = Calls
  BY DEF FlipAfterRetire, TypeOK
<1>4. CallEnds(k)
  BY <1>3 DEF CallEnds
<1> QED
  BY <1>1, <1>2, <1>4 DEF FlipAfterRetire, FlipEnds

(* A worker is retired by the call that drained it.                          *)
Retired(k) ==
    LET w == call[k].worker IN
    /\ call[k].pc = "checkpoint" /\ call[k].actor \in Actors /\ w \in Workers
    /\ Registered(w) /\ worker'[w] = NoRecord
    /\ \A v \in Workers \ {w} : worker'[v] = worker[v]
    /\ Unbound(call[k].actor)
    /\ call'[k].pc = "flip" /\ call'[k].actor = call[k].actor
    /\ call'[k].worker = w /\ call'[k].ver = call[k].ver
    /\ \A j \in Calls \ {k} : call'[j] = call[j]
    /\ leaked' = leaked \ {w}
    /\ UNCHANGED <<born, actor, warm, golden, flight, retiring, closed, stolen>>

LEMMA CheckpointRetires ==
    ASSUME TypeOK, Shapes, NEW k \in Calls, CheckpointedRetires(k)
    PROVE  Retired(k)
<1>1. call[k].pc = "checkpoint" /\ call[k].actor \in Actors /\ call[k].worker \in Workers
  BY DEF CheckpointedRetires, Shapes, Pending
<1>2. call \in [Calls -> CallRecord]
  BY DEF TypeOK, CallRecord
<1>3. DOMAIN worker = Workers /\ DOMAIN route = Actors
  BY DEF TypeOK
<1>4. \A r \in CallRecord : LET n == [r EXCEPT !.pc = "flip"] IN
         n.pc = "flip" /\ n.actor = r.actor /\ n.worker = r.worker /\ n.ver = r.ver
  BY DEF CallRecord
<1> DEFINE n == [call[k] EXCEPT !.pc = "flip"]
<1>5. call' = [call EXCEPT ![k] = n]
  BY DEF CheckpointedRetires
<1>6. n.pc = "flip" /\ n.actor = call[k].actor /\ n.worker = call[k].worker
      /\ n.ver = call[k].ver
  BY <1>2, <1>4
<1> HIDE DEF n
<1>7. call'[k] = n /\ \A j \in Calls \ {k} : call'[j] = call[j]
  BY <1>2, <1>5
<1> QED
  BY <1>1, <1>3, <1>6, <1>7 DEF CheckpointedRetires, RetireInto, Unbound, Retired

(* A suspend or a pause takes a running actor, and keeps what it read.        *)
Drains(k, a) ==
    LET w == actor[a].worker IN
    /\ call[k].pc = "idle" /\ actor[a].status = "running"
    /\ actor'[a].status \in {"suspending", "pausing"}
    /\ actor'[a].ver = actor[a].ver + 1 /\ actor'[a].worker = w
    /\ \A b \in Actors \ {a} : actor'[b] = actor[b]
    /\ \A j \in Calls \ {k} : call'[j] = call[j]
    /\ \/ ~Registered(w) /\ call'[k] = call[k]
       \/ /\ Registered(w) /\ call'[k].pc = "checkpoint" /\ call'[k].actor = a
          /\ call'[k].ver = actor[a].ver + 1
          /\ call'[k].worker = w /\ call'[k].wver = worker[w].ver
    /\ UNCHANGED <<born, worker, warm, pooled, route, golden, flight, retiring,
                   closed, leaked, stolen>>

LEMMA SuspendDrains ==
    ASSUME TypeOK, NEW k \in Calls, NEW a \in Actors, NEW op \in {"suspend", "pause"},
           SuspendBegins(k, a, op)
    PROVE  Drains(k, a)
<1>1. actor \in [Actors -> ActorRecord] /\ DOMAIN call = Calls
  BY DEF TypeOK, ActorRecord
<1>2. \A r \in ActorRecord : \A x, v :
         /\ [r EXCEPT !.status = x, !.ver = v].status = x
         /\ [r EXCEPT !.status = x, !.ver = v].ver = v
         /\ [r EXCEPT !.status = x, !.ver = v].worker = r.worker
  BY DEF ActorRecord
<1> DEFINE s == IF op = "suspend" THEN "suspending" ELSE "pausing"
           n == [actor[a] EXCEPT !.status = s, !.ver = @ + 1]
<1>3. actor' = [actor EXCEPT ![a] = n]
  BY DEF SuspendBegins
<1> HIDE DEF s
<1>4. n.status = s /\ n.ver = actor[a].ver + 1 /\ n.worker = actor[a].worker
  BY <1>1, <1>2
<1>5. s \in {"suspending", "pausing"}
  BY DEF s
<1> HIDE DEF n
<1>6. actor'[a] = n /\ \A b \in Actors \ {a} : actor'[b] = actor[b]
  BY <1>1, <1>3
<1>7. /\ \A j \in Calls \ {k} : call'[j] = call[j]
      /\ \/ ~Registered(actor[a].worker) /\ call'[k] = call[k]
         \/ /\ Registered(actor[a].worker)
            /\ call'[k].pc = "checkpoint" /\ call'[k].actor = a
            /\ call'[k].ver = actor[a].ver + 1 /\ call'[k].worker = actor[a].worker
            /\ call'[k].wver = worker[actor[a].worker].ver
  BY <1>1 DEF SuspendBegins
<1> QED
  BY <1>4, <1>5, <1>6, <1>7 DEF SuspendBegins, Drains

(* A flight claims a worker: one that idles, or a fresh one nobody names.     *)
Boards(a, w) ==
    /\ flight[a].worker = None \/ flight[a].pc \notin Boots
    /\ flight'[a].pc \in Boots /\ flight'[a].worker = w
    /\ \A b \in Actors \ {a} : flight'[b] = flight[b]
    /\ worker'[w].sandbox # None /\ worker'[w].host = a
    /\ \A v \in Workers \ {w} : worker'[v] = worker[v]
    /\ \A b \in Actors : /\ actor'[b].worker = actor[b].worker
                         /\ b # a => actor'[b] = actor[b]
    /\ \/ /\ Idle(w) /\ actor'[a].status = "resuming" /\ actor'[a].ver = actor[a].ver + 1
          /\ actor[a].status \notin OnDuty
          /\ warm' = warm \ {w} /\ UNCHANGED <<pooled, leaked, stolen>>
       \/ /\ w \in FreshIds /\ actor' = actor /\ warm' = warm
          /\ leaked' = leaked \ {w} /\ stolen' = stolen \ {w}
    /\ UNCHANGED <<born, route, golden, call, retiring, closed>>

LEMMA ClaimBoards ==
    ASSUME TypeOK, Shapes, NEW a \in Actors, NEW w \in Workers,
           ClaimIdle(a, w) \/ \E s \in Sandboxes : ClaimFresh(a, s, w)
    PROVE  Boards(a, w)
<1>1. /\ actor \in [Actors -> ActorRecord] /\ worker \in [Workers -> WorkerRecord]
      /\ DOMAIN flight = Actors
      /\ \A b \in Actors : flight[b] \in [pc : FlightPc, ver : Nat, snap : BOOLEAN,
                                          worker : Workers \cup {None}]
  BY DEF TypeOK, ActorRecord, WorkerRecord
<1>2. \A x : BootPc(x) \in Boots
  BY DEF BootPc, Boots
<1>3. flight[a].pc \notin Boots
  BY DEF ClaimIdle, ClaimFresh, Resumable, Boots
<1>4. CASE ClaimIdle(a, w)
  <2> DEFINE n == [actor[a] EXCEPT !.status = "resuming", !.ver = @ + 1]
             r == [worker[w] EXCEPT !.ver = @ + 1, !.host = a]
  <2>1. actor' = [actor EXCEPT ![a] = n] /\ worker' = [worker EXCEPT ![w] = r]
    BY <1>4 DEF ClaimIdle, Resuming
  <2>2. n.status = "resuming" /\ n.ver = actor[a].ver + 1 /\ n.worker = actor[a].worker
    BY <1>1 DEF ActorRecord
  <2>3. r.host = a /\ r.sandbox = worker[w].sandbox
    BY <1>1 DEF WorkerRecord
  <2> HIDE DEF n, r
  <2>4. /\ actor'[a] = n /\ \A b \in Actors \ {a} : actor'[b] = actor[b]
        /\ worker'[w] = r /\ \A v \in Workers \ {w} : worker'[v] = worker[v]
    BY <1>1, <2>1
  <2>5. /\ flight'[a].pc \in Boots /\ flight'[a].worker = w
        /\ \A b \in Actors \ {a} : flight'[b] = flight[b]
    BY <1>1, <1>2, <1>4 DEF ClaimIdle
  <2>6. Idle(w) /\ actor[a].status \notin OnDuty
    BY <1>4 DEF ClaimIdle, Resumable, Eligible, OnDuty
  <2> QED
    BY <1>3, <1>4, <2>2, <2>3, <2>4, <2>5, <2>6 DEF ClaimIdle, Boards, Idle, Registered
<1>5. CASE \E s \in Sandboxes : ClaimFresh(a, s, w)
  <2>1. PICK s \in Sandboxes : ClaimFresh(a, s, w)
    BY <1>5
  <2>2. /\ worker'[w].sandbox = s /\ worker'[w].host = a
        /\ \A v \in Workers \ {w} : worker'[v] = worker[v]
    BY <1>1, <2>1 DEF ClaimFresh
  <2> DEFINE n == [flight[a] EXCEPT !.pc = BootPc(flight[a].snap), !.worker = w]
  <2>3. flight' = [flight EXCEPT ![a] = n]
    BY <2>1 DEF ClaimFresh
  <2>4. n.pc \in Boots /\ n.worker = w
    BY <1>1, <1>2
  <2> HIDE DEF n
  <2>5. flight'[a] = n /\ \A b \in Actors \ {a} : flight'[b] = flight[b]
    BY <1>1, <2>3
  <2> QED
    BY <1>3, <2>1, <2>2, <2>4, <2>5, OrchestratorAssumption DEF ClaimFresh, Boards
<1> QED
  BY <1>4, <1>5

(* A sandbox goes from a record to the pool.                                 *)
LEMMA RetireAccounts ==
    ASSUME TypeOK, SandboxAccounting, NEW w \in Workers, RetireInto(w)
    PROVE  SandboxAccounting'
BY OrchestratorAssumption DEF TypeOK, SandboxAccounting, RetireInto, NoRecord, Registered

(***************************************************************************)
(* The steps.                                                              *)
(***************************************************************************)

(* Every operation leaves records of the right form.                         *)
LEMMA TypeStep ==
    ASSUME TypeOK, Shapes, Claims, Next
    PROVE  TypeOK'
<1> USE OrchestratorAssumption DEF TypeOK, Shapes, Status, FlightPc, CallPc,
     Boots, OnDuty, Pending
<1>1. ASSUME NEW a \in Actors, CreateActor(a)
     PROVE  TypeOK'
  <2> DEFINE r == [status |-> "suspended", ver |-> 1, worker |-> None, snap |-> FALSE]
  <2>1. r \in ActorRecord
    BY DEF ActorRecord
  <2>2. actor' = [actor EXCEPT ![a] = r] /\ actor \in [Actors -> ActorRecord]
    BY <1>1 DEF CreateActor, ActorRecord
  <2> HIDE DEF r
  <2>3. actor' \in [Actors -> ActorRecord]
    BY <2>1, <2>2
  <2>4. born[a] + 1 \in 0..2 /\ born' = [born EXCEPT ![a] = born[a] + 1]
    BY <1>1 DEF CreateActor
  <2>5. born' \in [Actors -> 0..2]
    BY <2>4
  <2> QED
    BY <1>1, <2>3, <2>5 DEF CreateActor, ActorRecord
<1>2. ASSUME NEW a \in Actors, DeleteActor(a)
     PROVE  TypeOK'
  BY <1>2 DEF DeleteActor, Exists, Absent
<1>3. ASSUME NEW a \in Actors, MarkCrashed(a)
     PROVE  TypeOK'
  BY <1>3 DEF MarkCrashed, Exists
<1>4. ASSUME NEW a \in Actors, Resume(a)
     PROVE  TypeOK'
  BY <1>4 DEF Resume, Exists, NoFlight, records
<1>5. ASSUME NEW a \in Actors, ResumeRefused(a)
     PROVE  TypeOK'
  BY <1>5 DEF ResumeRefused, Exists, NoFlight, records
<1>6. ASSUME NEW a \in Actors, NeedSandbox(a)
     PROVE  TypeOK'
  BY <1>6 DEF NeedSandbox, Resumable, Resuming
<1>7. ASSUME NEW a \in Actors, NEW w \in Workers, ClaimIdle(a, w)
     PROVE  TypeOK'
  BY <1>7 DEF ClaimIdle, Resumable, Resuming, Eligible, Idle, BootPc
<1>8. ASSUME NEW a \in Actors, NEW s \in Sandboxes, NEW w \in Workers, ClaimFresh(a, s, w)
     PROVE  TypeOK'
  BY <1>8 DEF ClaimFresh, FreshIds, BootPc
<1>9. ASSUME NEW a \in Actors, AcquireFailed(a)
     PROVE  TypeOK'
  BY <1>9 DEF AcquireFailed, NoFlight, records
<1>10. ASSUME NEW a \in Actors, BootFailed(a)
     PROVE  TypeOK'
  BY <1>10 DEF BootFailed, NoFlight, records
<1>11. ASSUME NEW a \in Actors, Booted(a)
     PROVE  TypeOK'
  <2>1. flight[a].worker \in Workers /\ FinalizeRunning(a)
    BY <1>11 DEF Booted
  <2>2. Finalized(a)
    BY <2>1, FinalizeMoves
  <2>3. actor' \in [Actors -> ActorRecord] /\ leaked' \subseteq Workers
    BY <2>1, <2>2 DEF Finalized
  <2>4. route' \in [Actors -> Workers \cup {None}]
    BY <2>1, <2>2 DEF Finalized
  <2>5. flight' = [flight EXCEPT ![a] = NoFlight]
    BY <2>2 DEF Finalized
  <2> QED
    BY <1>11, <2>3, <2>4, <2>5 DEF Booted, NoFlight, ActorRecord
<1>12. ASSUME NEW a \in Actors, Captured(a)
     PROVE  TypeOK'
  <2>1. flight[a].worker \in Workers /\ FinalizeRunning(a)
    BY <1>12 DEF Captured
  <2>2. Finalized(a)
    BY <2>1, FinalizeMoves
  <2>3. actor' \in [Actors -> ActorRecord] /\ leaked' \subseteq Workers
    BY <2>1, <2>2 DEF Finalized
  <2>4. route' \in [Actors -> Workers \cup {None}]
    BY <2>1, <2>2 DEF Finalized
  <2>5. flight' = [flight EXCEPT ![a] = NoFlight]
    BY <2>2 DEF Finalized
  <2> QED
    BY <1>12, <2>3, <2>4, <2>5 DEF Captured, NoFlight, ActorRecord
<1>13. ASSUME NEW k \in Calls, NEW a \in Actors, NEW op \in {"suspend", "pause"},
              SuspendBegins(k, a, op)
     PROVE  TypeOK'
  BY <1>13 DEF SuspendBegins
<1>14. ASSUME NEW k \in Calls, CheckpointFailed(k)
     PROVE  TypeOK'
  BY <1>14 DEF CheckpointFailed, NoCall, records
<1>15. ASSUME NEW k \in Calls, CheckpointedKeepsWarm(k)
     PROVE  TypeOK'
  <2>1. Checkpointed(k) /\ (Kept(k) \/ Gone(k))
    BY <1>15, CheckpointFindsItsWorker
  <2>2. call[k].actor \in Actors /\ call[k].worker \in Workers /\ Flip(k)
    BY <2>1 DEF Checkpointed
  <2>3. Flipped(k)
    BY <2>2, FlipMoves
  <2>4. call' \in [Calls -> CallRecord]
    BY <2>1 DEF Checkpointed, NoCall, CallRecord
  <2>5. worker' \in [Workers -> WorkerRecord]
    <3>1. worker \in [Workers -> WorkerRecord]
      BY DEF WorkerRecord
    <3>2. ASSUME NEW c \in WorkerRecord, NEW v \in Nat
          PROVE  [c EXCEPT !.host = None, !.ver = v] \in WorkerRecord
      BY DEF WorkerRecord
    <3> DEFINE w == call[k].worker
               r == [worker[w] EXCEPT !.host = None, !.ver = @ + 1]
    <3>3. CASE Kept(k)
      <4>1. worker' = [worker EXCEPT ![w] = r]
        BY <3>3 DEF Kept
      <4>2. worker[w] \in WorkerRecord /\ worker[w].ver + 1 \in Nat
        BY <2>2, <3>1 DEF WorkerRecord
      <4>3. r \in WorkerRecord
        BY <3>2, <4>2
      <4> HIDE DEF r, TypeOK
      <4> QED
        BY <3>1, <4>1, <4>3
    <3>4. CASE Gone(k)
      BY <3>1, <3>4 DEF Gone
    <3> QED
      BY <2>1, <3>3, <3>4
  <2>6. warm' \subseteq Workers /\ route' \in [Actors -> Workers \cup {None}]
    BY <2>1, <2>2 DEF Checkpointed, Kept, Gone
  <2> QED
    BY <2>1, <2>3, <2>4, <2>5, <2>6
       DEF Checkpointed, Flipped, ActorRecord, WorkerRecord, CallRecord
<1>16. ASSUME NEW k \in Calls, CheckpointedRetires(k)
     PROVE  TypeOK'
  <2>1. call[k].worker \in Workers
    BY <1>16 DEF CheckpointedRetires
  <2>2. worker' \in [Workers -> WorkerRecord]
    BY <1>16, <2>1 DEF CheckpointedRetires, RetireInto, NoRecord, WorkerRecord
  <2>3. call' \in [Calls -> CallRecord]
    <3>1. call \in [Calls -> CallRecord]
      BY DEF CallRecord
    <3>2. call' = [call EXCEPT ![k].pc = "flip"]
      BY <1>16 DEF CheckpointedRetires
    <3> QED
      BY <3>1, <3>2, CallToFlip
  <2>4. route' \in [Actors -> Workers \cup {None}]
    BY <1>16 DEF CheckpointedRetires
  <2>5. pooled' \subseteq Sandboxes
    BY <1>16, <2>1 DEF CheckpointedRetires, RetireInto
  <2> QED
    BY <1>16, <2>2, <2>3, <2>4, <2>5 DEF CheckpointedRetires, WorkerRecord, CallRecord
<1>17. ASSUME NEW k \in Calls, FlipAfterRetire(k)
     PROVE  TypeOK'
  BY <1>17 DEF FlipAfterRetire, Flip, FlipStatus, Accepts, Exists, NoCall
<1>18. ASSUME NEW k \in Calls, FlipCancelled(k)
     PROVE  TypeOK'
  BY <1>18 DEF FlipCancelled, NoCall, records
<1>19. ASSUME NEW E \in SUBSET warm, NEW w \in E, SweepTick(E, w)
     PROVE  TypeOK'
  BY <1>19 DEF SweepTick, RetireInto, NoRecord
<1>20. ASSUME NEW w \in Workers, RetireNext(w)
     PROVE  TypeOK'
  BY <1>20 DEF RetireNext, RetireInto, NoRecord
<1>21. ASSUME NEW w \in Workers, CloseWarmPool(w)
     PROVE  TypeOK'
  BY <1>21 DEF CloseWarmPool, RetireInto, NoRecord
<1>22. ASSUME ClosePool PROVE TypeOK'
  BY <1>22 DEF ClosePool, records
<1> HIDE DEF TypeOK, Shapes, Status, FlightPc, CallPc, Boots, OnDuty, Pending
<1> QED
  BY <1>1, <1>2, <1>3, <1>4, <1>5, <1>6, <1>7, <1>8, <1>9, <1>10, <1>11,
     <1>12, <1>13, <1>14, <1>15, <1>16, <1>17, <1>18, <1>19, <1>20, <1>21,
     <1>22
     DEF Next, Lifecycle, ResumeSteps, CallSteps, PoolSteps

(* ... and sets or clears the worker a record names with its status; only what *)
(* exists is resumed or suspended, and an id that is not reused created once. *)
LEMMA RecordStep ==
    ASSUME TypeOK, Shapes, Claims, Fresh, Next
    PROVE  Shapes' /\ Fresh'
<1> USE OrchestratorAssumption DEF TypeOK, Shapes, Fresh, Exists, Boots,
     OnDuty, Pending
<1>1. ASSUME NEW a \in Actors, CreateActor(a)
     PROVE  Shapes' /\ Fresh'
  <2>1. /\ \A b \in Actors \ {a} : actor'[b] = actor[b] /\ born'[b] = born[b]
        /\ actor'[a].worker = None /\ actor'[a].status = "suspended"
        /\ born'[a] = born[a] + 1 /\ born[a] \in Nat
        /\ a \in Reused \/ born[a] = 0
        /\ flight' = flight /\ call' = call
    BY <1>1 DEF CreateActor
  <2> HIDE DEF TypeOK
  <2>2. Shapes'
    BY <2>1
  <2>3. Fresh'
    BY <2>1
  <2> QED
    BY <2>2, <2>3
<1>2. ASSUME NEW a \in Actors, DeleteActor(a)
     PROVE  Shapes' /\ Fresh'
  BY <1>2 DEF DeleteActor, Absent
<1>3. ASSUME NEW a \in Actors, MarkCrashed(a)
     PROVE  Shapes' /\ Fresh'
  BY <1>3 DEF MarkCrashed
<1>4. ASSUME NEW a \in Actors, Resume(a)
     PROVE  Shapes' /\ Fresh'
  BY <1>4 DEF Resume, NoFlight, records
<1>5. ASSUME NEW a \in Actors, ResumeRefused(a)
     PROVE  Shapes' /\ Fresh'
  BY <1>5 DEF ResumeRefused, NoFlight, records
<1>6. ASSUME NEW a \in Actors, NeedSandbox(a)
     PROVE  Shapes' /\ Fresh'
  BY <1>6 DEF NeedSandbox, Resumable, Resuming
<1>7. ASSUME NEW a \in Actors, NEW w \in Workers, ClaimIdle(a, w)
     PROVE  Shapes' /\ Fresh'
  BY <1>7 DEF ClaimIdle, Resumable, Resuming, Eligible, Idle, BootPc
<1>8. ASSUME NEW a \in Actors, NEW s \in Sandboxes, NEW w \in Workers, ClaimFresh(a, s, w)
     PROVE  Shapes' /\ Fresh'
  BY <1>8 DEF ClaimFresh, FreshIds, BootPc
<1>9. ASSUME NEW a \in Actors, AcquireFailed(a)
     PROVE  Shapes' /\ Fresh'
  BY <1>9 DEF AcquireFailed, NoFlight, records
<1>10. ASSUME NEW a \in Actors, BootFailed(a)
     PROVE  Shapes' /\ Fresh'
  BY <1>10 DEF BootFailed, NoFlight, records
<1>11. ASSUME NEW a \in Actors, Booted(a)
     PROVE  Shapes' /\ Fresh'
  BY <1>11 DEF Booted, FinalizeRunning, Accepts, NoFlight
<1>12. ASSUME NEW a \in Actors, Captured(a)
     PROVE  Shapes' /\ Fresh'
  BY <1>12 DEF Captured, FinalizeRunning, Accepts, NoFlight
<1>13. ASSUME NEW k \in Calls, NEW a \in Actors, NEW op \in {"suspend", "pause"},
              SuspendBegins(k, a, op)
     PROVE  Shapes' /\ Fresh'
  BY <1>13 DEF SuspendBegins
<1>14. ASSUME NEW k \in Calls, CheckpointFailed(k)
     PROVE  Shapes' /\ Fresh'
  BY <1>14 DEF CheckpointFailed, NoCall, records
<1>15. ASSUME NEW k \in Calls, CheckpointedKeepsWarm(k)
     PROVE  Shapes' /\ Fresh'
  <2>1. Returned(k)
    BY <1>15, CheckpointReturns
  <2> HIDE DEF TypeOK
  <2> QED
    BY <2>1, Fields DEF Returned, Flipped, CallEnds, NoCall
<1>16. ASSUME NEW k \in Calls, CheckpointedRetires(k)
     PROVE  Shapes' /\ Fresh'
  BY <1>16 DEF CheckpointedRetires, RetireInto, NoRecord
<1>17. ASSUME NEW k \in Calls, FlipAfterRetire(k)
     PROVE  Shapes' /\ Fresh'
  <2>1. FlipEnds(k)
    BY <1>17, RetireReturns
  <2> HIDE DEF TypeOK
  <2> QED
    BY <2>1, Fields DEF FlipEnds, Flipped, CallEnds, NoCall
<1>18. ASSUME NEW k \in Calls, FlipCancelled(k)
     PROVE  Shapes' /\ Fresh'
  BY <1>18 DEF FlipCancelled, NoCall, records
<1>19. ASSUME NEW E \in SUBSET warm, NEW w \in E, SweepTick(E, w)
     PROVE  Shapes' /\ Fresh'
  BY <1>19 DEF SweepTick, RetireInto, NoRecord
<1>20. ASSUME NEW w \in Workers, RetireNext(w)
     PROVE  Shapes' /\ Fresh'
  BY <1>20 DEF RetireNext, RetireInto, NoRecord
<1>21. ASSUME NEW w \in Workers, CloseWarmPool(w)
     PROVE  Shapes' /\ Fresh'
  BY <1>21 DEF CloseWarmPool, RetireInto, NoRecord
<1>22. ASSUME ClosePool PROVE Shapes' /\ Fresh'
  BY <1>22 DEF ClosePool, records
<1> HIDE DEF TypeOK, Shapes, Fresh, Exists, Boots, OnDuty, Pending
<1> QED
  BY <1>1, <1>2, <1>3, <1>4, <1>5, <1>6, <1>7, <1>8, <1>9, <1>10, <1>11,
     <1>12, <1>13, <1>14, <1>15, <1>16, <1>17, <1>18, <1>19, <1>20, <1>21,
     <1>22
     DEF Next, Lifecycle, ResumeSteps, CallSteps, PoolSteps

(* A worker is claimed for one actor only while it is idle, and released only  *)
(* by the call that drains it.                                             *)
LEMMA ClaimStep ==
    ASSUME TypeOK, Shapes, Claims, Apart, Next
    PROVE  Claims'
<1> DEFINE ByActors == \A a \in Actors : actor[a].worker # None => Claimed(a, actor[a].worker)
           ByFlights == \A a \in Actors : flight[a].worker # None => Claimed(a, flight[a].worker)
           ByCalls == \A k \in Calls : call[k].pc = "checkpoint" =>
                          /\ Claimed(call[k].actor, call[k].worker)
                          /\ Registered(call[k].worker) => worker[call[k].worker].ver = call[k].wver
           ByNobody == \A k \in Calls : call[k].pc = "flip" => ~Registered(call[k].worker)
<1> USE OrchestratorAssumption DEF TypeOK, Shapes, Claims, Apart, Claimed,
     Registered, Boots, OnDuty, Pending
<1>1. ASSUME NEW a \in Actors, CreateActor(a)
     PROVE  Claims'
  BY <1>1 DEF CreateActor, Exists
<1>2. ASSUME NEW a \in Actors, DeleteActor(a)
     PROVE  Claims'
  BY <1>2 DEF DeleteActor, Exists, Absent
<1>3. ASSUME NEW a \in Actors, MarkCrashed(a)
     PROVE  Claims'
  BY <1>3 DEF MarkCrashed, Exists
<1>4. ASSUME NEW a \in Actors, Resume(a)
     PROVE  Claims'
  BY <1>4 DEF Resume, Exists, NoFlight, records
<1>5. ASSUME NEW a \in Actors, ResumeRefused(a)
     PROVE  Claims'
  BY <1>5 DEF ResumeRefused, Exists, NoFlight, records
<1>6. ASSUME NEW a \in Actors, NeedSandbox(a)
     PROVE  Claims'
  BY <1>6 DEF NeedSandbox, Resumable, Resuming
<1>7. ASSUME NEW a \in Actors, NEW w \in Workers, ClaimIdle(a, w)
     PROVE  Claims'
  <2>1. Boards(a, w)
    BY <1>7, ClaimBoards
  <2> HIDE DEF TypeOK
  <2> QED
    BY <2>1, Fields DEF Boards, Idle, FreshIds
<1>8. ASSUME NEW a \in Actors, NEW s \in Sandboxes, NEW w \in Workers, ClaimFresh(a, s, w)
     PROVE  Claims'
  <2>1. Boards(a, w)
    BY <1>8, ClaimBoards
  <2> HIDE DEF TypeOK
  <2> QED
    BY <2>1, Fields DEF Boards, Idle, FreshIds
<1>9. ASSUME NEW a \in Actors, AcquireFailed(a)
     PROVE  Claims'
  BY <1>9 DEF AcquireFailed, NoFlight, records
<1>10. ASSUME NEW a \in Actors, BootFailed(a)
     PROVE  Claims'
  BY <1>10 DEF BootFailed, NoFlight, records
<1>11. ASSUME NEW a \in Actors, Booted(a)
     PROVE  Claims'
  BY <1>11 DEF Booted, FinalizeRunning, Accepts, Exists, NoFlight
<1>12. ASSUME NEW a \in Actors, Captured(a)
     PROVE  Claims'
  BY <1>12 DEF Captured, FinalizeRunning, Accepts, Exists, NoFlight
<1>13. ASSUME NEW k \in Calls, NEW a \in Actors, NEW op \in {"suspend", "pause"},
              SuspendBegins(k, a, op)
     PROVE  Claims'
  <2>1. Drains(k, a)
    BY <1>13, SuspendDrains
  <2> HIDE DEF TypeOK
  <2>2. ByActors'
    BY <2>1, Fields DEF Drains
  <2>3. ByFlights'
    BY <2>1, Fields DEF Drains
  <2>4. ByCalls'
    BY <2>1, Fields DEF Drains
  <2>5. ByNobody'
    BY <2>1, Fields DEF Drains
  <2> QED
    BY <2>2, <2>3, <2>4, <2>5
<1>14. ASSUME NEW k \in Calls, CheckpointFailed(k)
     PROVE  Claims'
  BY <1>14 DEF CheckpointFailed, NoCall, records
<1>15. ASSUME NEW k \in Calls, CheckpointedKeepsWarm(k)
     PROVE  Claims'
  <2>1. Returned(k)
    BY <1>15, CheckpointReturns
  <2> HIDE DEF TypeOK
  <2>2. ByActors'
    BY <2>1, Fields DEF Returned, Flipped, CallEnds, NoCall, Accepts, Exists
  <2>3. ByFlights'
    BY <2>1, Fields DEF Returned, Flipped, CallEnds, NoCall, Accepts, Exists
  <2>4. ByCalls'
    BY <2>1, Fields DEF Returned, Flipped, CallEnds, NoCall, Accepts, Exists
  <2>5. ByNobody'
    BY <2>1, Fields DEF Returned, Flipped, CallEnds, NoCall, Accepts, Exists
  <2> QED
    BY <2>2, <2>3, <2>4, <2>5
<1>16. ASSUME NEW k \in Calls, CheckpointedRetires(k)
     PROVE  Claims'
  <2>1. Retired(k)
    BY <1>16, CheckpointRetires
  <2> HIDE DEF TypeOK
  <2> QED
    BY <2>1, Fields DEF Retired, NoRecord
<1>17. ASSUME NEW k \in Calls, FlipAfterRetire(k)
     PROVE  Claims'
  <2>1. FlipEnds(k)
    BY <1>17, RetireReturns
  <2> HIDE DEF TypeOK
  <2> QED
    BY <2>1, Fields DEF FlipEnds, Flipped, CallEnds, NoCall
<1>18. ASSUME NEW k \in Calls, FlipCancelled(k)
     PROVE  Claims'
  BY <1>18 DEF FlipCancelled, NoCall, records
<1>19. ASSUME NEW E \in SUBSET warm, NEW w \in E, SweepTick(E, w)
     PROVE  Claims'
  BY <1>19 DEF SweepTick, RetireInto, NoRecord
<1>20. ASSUME NEW w \in Workers, RetireNext(w)
     PROVE  Claims'
  BY <1>20 DEF RetireNext, RetireInto, NoRecord
<1>21. ASSUME NEW w \in Workers, CloseWarmPool(w)
     PROVE  Claims'
  BY <1>21 DEF CloseWarmPool, RetireInto, NoRecord
<1>22. ASSUME ClosePool PROVE Claims'
  BY <1>22 DEF ClosePool, records
<1> HIDE DEF TypeOK, Shapes, Claims, Apart, Claimed, Registered, Boots,
     OnDuty, Pending
<1> QED
  BY <1>1, <1>2, <1>3, <1>4, <1>5, <1>6, <1>7, <1>8, <1>9, <1>10, <1>11,
     <1>12, <1>13, <1>14, <1>15, <1>16, <1>17, <1>18, <1>19, <1>20, <1>21,
     <1>22
     DEF Next, Lifecycle, ResumeSteps, CallSteps, PoolSteps

(* ... and only an idle or a new worker, which nobody names, is claimed.       *)
LEMMA ApartStep ==
    ASSUME TypeOK, Shapes, Claims, Apart, Next
    PROVE  Apart'
<1> DEFINE InRecords == \A a, b \in Actors :
               actor[a].worker # None /\ actor[a].worker = actor[b].worker => a = b
           InFlights == \A a, b \in Actors :
               /\ flight[a].worker # None /\ flight[a].worker = flight[b].worker => a = b
               /\ flight[a].worker # None => flight[a].worker # actor[b].worker
           InCalls == \A j, k \in Calls :
               Pending(j) /\ Pending(k) /\ call[j].worker = call[k].worker => j = k
           FlightOrCall == \A a \in Actors, k \in Calls :
               Pending(k) => flight[a].worker # call[k].worker
           RecordOrCall == \A a \in Actors, k \in Calls :
               Pending(k) /\ actor[a].worker = call[k].worker =>
                   /\ a = call[k].actor /\ actor[a].ver = call[k].ver
                   /\ actor[a].status \in {"suspending", "pausing"}
<1> USE OrchestratorAssumption DEF TypeOK, Shapes, Claims, Apart, Claimed,
     Registered, Boots, OnDuty, Pending
<1>1. ASSUME NEW a \in Actors, CreateActor(a)
     PROVE  Apart'
  BY <1>1 DEF CreateActor, Exists
<1>2. ASSUME NEW a \in Actors, DeleteActor(a)
     PROVE  Apart'
  BY <1>2 DEF DeleteActor, Exists, Absent
<1>3. ASSUME NEW a \in Actors, MarkCrashed(a)
     PROVE  Apart'
  BY <1>3 DEF MarkCrashed, Exists
<1>4. ASSUME NEW a \in Actors, Resume(a)
     PROVE  Apart'
  BY <1>4 DEF Resume, Exists, NoFlight, records
<1>5. ASSUME NEW a \in Actors, ResumeRefused(a)
     PROVE  Apart'
  BY <1>5 DEF ResumeRefused, Exists, NoFlight, records
<1>6. ASSUME NEW a \in Actors, NeedSandbox(a)
     PROVE  Apart'
  BY <1>6 DEF NeedSandbox, Resumable, Resuming
<1>7. ASSUME NEW a \in Actors, NEW w \in Workers, ClaimIdle(a, w)
     PROVE  Apart'
  BY <1>7 DEF ClaimIdle, Resumable, Resuming, Eligible, Idle, BootPc
<1>8. ASSUME NEW a \in Actors, NEW s \in Sandboxes, NEW w \in Workers, ClaimFresh(a, s, w)
     PROVE  Apart'
  BY <1>8 DEF ClaimFresh, FreshIds, BootPc
<1>9. ASSUME NEW a \in Actors, AcquireFailed(a)
     PROVE  Apart'
  BY <1>9 DEF AcquireFailed, NoFlight, records
<1>10. ASSUME NEW a \in Actors, BootFailed(a)
     PROVE  Apart'
  BY <1>10 DEF BootFailed, NoFlight, records
<1>11. ASSUME NEW a \in Actors, Booted(a)
     PROVE  Apart'
  BY <1>11 DEF Booted, FinalizeRunning, Accepts, Exists, NoFlight
<1>12. ASSUME NEW a \in Actors, Captured(a)
     PROVE  Apart'
  BY <1>12 DEF Captured, FinalizeRunning, Accepts, Exists, NoFlight
<1>13. ASSUME NEW k \in Calls, NEW a \in Actors, NEW op \in {"suspend", "pause"},
              SuspendBegins(k, a, op)
     PROVE  Apart'
  <2>1. Drains(k, a)
    BY <1>13, SuspendDrains
  <2> HIDE DEF TypeOK
  <2> QED
    BY <2>1, Fields DEF Drains
<1>14. ASSUME NEW k \in Calls, CheckpointFailed(k)
     PROVE  Apart'
  BY <1>14 DEF CheckpointFailed, NoCall, records
<1>15. ASSUME NEW k \in Calls, CheckpointedKeepsWarm(k)
     PROVE  Apart'
  <2>1. Returned(k)
    BY <1>15, CheckpointReturns
  <2> HIDE DEF TypeOK
  <2>2. InRecords'
    BY <2>1, Fields DEF Returned, Flipped, CallEnds, NoCall, Accepts, Exists
  <2>3. InFlights'
    BY <2>1, Fields DEF Returned, Flipped, CallEnds, NoCall, Accepts, Exists
  <2>4. InCalls'
    BY <2>1, Fields DEF Returned, Flipped, CallEnds, NoCall, Accepts, Exists
  <2>5. FlightOrCall'
    BY <2>1, Fields DEF Returned, Flipped, CallEnds, NoCall, Accepts, Exists
  <2>6. RecordOrCall'
    BY <2>1, Fields DEF Returned, Flipped, CallEnds, NoCall, Accepts, Exists
  <2> QED
    BY <2>2, <2>3, <2>4, <2>5, <2>6
<1>16. ASSUME NEW k \in Calls, CheckpointedRetires(k)
     PROVE  Apart'
  <2>1. Retired(k)
    BY <1>16, CheckpointRetires
  <2> HIDE DEF TypeOK
  <2> QED
    BY <2>1, Fields DEF Retired, NoRecord
<1>17. ASSUME NEW k \in Calls, FlipAfterRetire(k)
     PROVE  Apart'
  <2>1. FlipEnds(k)
    BY <1>17, RetireReturns
  <2> HIDE DEF TypeOK
  <2> QED
    BY <2>1, Fields DEF FlipEnds, Flipped, CallEnds, NoCall
<1>18. ASSUME NEW k \in Calls, FlipCancelled(k)
     PROVE  Apart'
  BY <1>18 DEF FlipCancelled, NoCall, records
<1>19. ASSUME NEW E \in SUBSET warm, NEW w \in E, SweepTick(E, w)
     PROVE  Apart'
  BY <1>19 DEF SweepTick, RetireInto, NoRecord
<1>20. ASSUME NEW w \in Workers, RetireNext(w)
     PROVE  Apart'
  BY <1>20 DEF RetireNext, RetireInto, NoRecord
<1>21. ASSUME NEW w \in Workers, CloseWarmPool(w)
     PROVE  Apart'
  BY <1>21 DEF CloseWarmPool, RetireInto, NoRecord
<1>22. ASSUME ClosePool PROVE Apart'
  BY <1>22 DEF ClosePool, records
<1> HIDE DEF TypeOK, Shapes, Claims, Apart, Claimed, Registered, Boots,
     OnDuty, Pending
<1> QED
  BY <1>1, <1>2, <1>3, <1>4, <1>5, <1>6, <1>7, <1>8, <1>9, <1>10, <1>11,
     <1>12, <1>13, <1>14, <1>15, <1>16, <1>17, <1>18, <1>19, <1>20, <1>21,
     <1>22
     DEF Next, Lifecycle, ResumeSteps, CallSteps, PoolSteps

(* Only a sweep deletes the record of a worker in use: warm workers are idle.  *)
LEMMA PresentStep ==
    ASSUME TypeOK, Shapes, Claims, Apart, Present, WarmIsIdle, Next
    PROVE  Present'
<1> DEFINE StolenIsGone == \A w \in stolen : ~Registered(w)
           OfActors == \A a \in Actors : actor[a].status = "running" =>
               Registered(actor[a].worker) \/ actor[a].worker \in stolen
           OfFlights == \A a \in Actors : flight[a].worker # None =>
               Registered(flight[a].worker) \/ flight[a].worker \in stolen
<1> USE OrchestratorAssumption DEF TypeOK, Shapes, Claims, Apart, Claimed,
     Registered, Boots, OnDuty, Pending, Present, Idle
<1> \A w \in warm : Idle(w)
  BY DEF WarmIsIdle
<1>1. ASSUME NEW a \in Actors, CreateActor(a)
     PROVE  Present'
  BY <1>1 DEF CreateActor, Exists
<1>2. ASSUME NEW a \in Actors, DeleteActor(a)
     PROVE  Present'
  BY <1>2 DEF DeleteActor, Exists, Absent
<1>3. ASSUME NEW a \in Actors, MarkCrashed(a)
     PROVE  Present'
  BY <1>3 DEF MarkCrashed, Exists
<1>4. ASSUME NEW a \in Actors, Resume(a)
     PROVE  Present'
  BY <1>4 DEF Resume, Exists, NoFlight, records
<1>5. ASSUME NEW a \in Actors, ResumeRefused(a)
     PROVE  Present'
  BY <1>5 DEF ResumeRefused, Exists, NoFlight, records
<1>6. ASSUME NEW a \in Actors, NeedSandbox(a)
     PROVE  Present'
  BY <1>6 DEF NeedSandbox, Resumable, Resuming
<1>7. ASSUME NEW a \in Actors, NEW w \in Workers, ClaimIdle(a, w)
     PROVE  Present'
  BY <1>7 DEF ClaimIdle, Resumable, Resuming, Eligible, BootPc
<1>8. ASSUME NEW a \in Actors, NEW s \in Sandboxes, NEW w \in Workers, ClaimFresh(a, s, w)
     PROVE  Present'
  BY <1>8 DEF ClaimFresh, FreshIds, BootPc
<1>9. ASSUME NEW a \in Actors, AcquireFailed(a)
     PROVE  Present'
  BY <1>9 DEF AcquireFailed, NoFlight, records
<1>10. ASSUME NEW a \in Actors, BootFailed(a)
     PROVE  Present'
  BY <1>10 DEF BootFailed, NoFlight, records
<1>11. ASSUME NEW a \in Actors, Booted(a)
     PROVE  Present'
  BY <1>11 DEF Booted, FinalizeRunning, Accepts, Exists, NoFlight
<1>12. ASSUME NEW a \in Actors, Captured(a)
     PROVE  Present'
  BY <1>12 DEF Captured, FinalizeRunning, Accepts, Exists, NoFlight
<1>13. ASSUME NEW k \in Calls, NEW a \in Actors, NEW op \in {"suspend", "pause"},
              SuspendBegins(k, a, op)
     PROVE  Present'
  <2>1. Drains(k, a)
    BY <1>13, SuspendDrains
  <2> HIDE DEF TypeOK
  <2> QED
    BY <2>1, Fields DEF Drains
<1>14. ASSUME NEW k \in Calls, CheckpointFailed(k)
     PROVE  Present'
  BY <1>14 DEF CheckpointFailed, NoCall, records
<1>15. ASSUME NEW k \in Calls, CheckpointedKeepsWarm(k)
     PROVE  Present'
  <2>1. Returned(k)
    BY <1>15, CheckpointReturns
  <2>0. stolen \subseteq Workers
    BY DEF TypeOK
  <2> HIDE DEF TypeOK
  <2>2. \A w \in Workers : Registered(w)' <=> Registered(w)
    BY <2>1 DEF Returned
  <2>3. StolenIsGone'
    BY <2>0, <2>1, <2>2 DEF Returned
  <2>4. OfActors'
    BY <2>1, Fields DEF Returned, Flipped, Accepts, Exists
  <2>5. OfFlights'
    BY <2>1, Fields DEF Returned
  <2> QED
    BY <2>3, <2>4, <2>5
<1>16. ASSUME NEW k \in Calls, CheckpointedRetires(k)
     PROVE  Present'
  <2>1. Retired(k)
    BY <1>16, CheckpointRetires
  <2>0. stolen \subseteq Workers
    BY DEF TypeOK
  <2> HIDE DEF TypeOK
  <2>2. StolenIsGone'
    BY <2>0, <2>1 DEF Retired, NoRecord
  <2>3. OfActors'
    BY <2>1, Fields DEF Retired
  <2>4. OfFlights'
    BY <2>1, Fields DEF Retired
  <2> QED
    BY <2>2, <2>3, <2>4
<1>17. ASSUME NEW k \in Calls, FlipAfterRetire(k)
     PROVE  Present'
  <2>1. FlipEnds(k)
    BY <1>17, RetireReturns
  <2> HIDE DEF TypeOK
  <2> QED
    BY <2>1, Fields DEF FlipEnds, Flipped, CallEnds, NoCall
<1>18. ASSUME NEW k \in Calls, FlipCancelled(k)
     PROVE  Present'
  BY <1>18 DEF FlipCancelled, NoCall, records
<1>19. ASSUME NEW E \in SUBSET warm, NEW w \in E, SweepTick(E, w)
     PROVE  Present'
  BY <1>19 DEF SweepTick, RetireInto, NoRecord
<1>20. ASSUME NEW w \in Workers, RetireNext(w)
     PROVE  Present'
  BY <1>20 DEF RetireNext, RetireInto, NoRecord
<1>21. ASSUME NEW w \in Workers, CloseWarmPool(w)
     PROVE  Present'
  BY <1>21 DEF CloseWarmPool, RetireInto, NoRecord
<1>22. ASSUME ClosePool PROVE Present'
  BY <1>22 DEF ClosePool, records
<1> HIDE DEF TypeOK, Shapes, Claims, Apart, Claimed, Registered, Boots,
     OnDuty, Pending, Present, Idle
<1> QED
  BY <1>1, <1>2, <1>3, <1>4, <1>5, <1>6, <1>7, <1>8, <1>9, <1>10, <1>11,
     <1>12, <1>13, <1>14, <1>15, <1>16, <1>17, <1>18, <1>19, <1>20, <1>21,
     <1>22
     DEF Next, Lifecycle, ResumeSteps, CallSteps, PoolSteps

(* Every write to an actor's record raises its version.                      *)
LEMMA VersionStep ==
    ASSUME TypeOK, Shapes, Claims, Fresh, Versions, BoundOnDuty, Next
    PROVE  Versions'
<1> DEFINE OfFlights == \A a \in Actors \ Reused :
               Exists(a) /\ flight[a].pc \notin {"idle", "start"} =>
                   /\ actor[a].ver >= flight[a].ver
                   /\ actor[a].ver = flight[a].ver => actor[a].status = "resuming"
           OfCalls == \A k \in Calls :
               Pending(k) /\ call[k].actor \notin Reused /\ Exists(call[k].actor) =>
                   /\ actor[call[k].actor].ver >= call[k].ver
                   /\ actor[call[k].actor].ver = call[k].ver =>
                         /\ actor[call[k].actor].status \in {"suspending", "pausing"}
                         /\ call[k].pc = "flip" => route[call[k].actor] = None
<1> USE OrchestratorAssumption DEF TypeOK, Shapes, Fresh, Versions, Exists,
     Boots, OnDuty, Pending, BoundOnDuty
<1>0. ASSUME NEW a \in Actors, flight[a].pc \in Boots, FinalizeRunning(a),
             UNCHANGED <<born, call>>
     PROVE  Versions'
  <2>1. Finalized(a)
    BY <1>0, FinalizeMoves
  <2>2. ASSUME NEW b \in Actors \ Reused,
               Exists(b)', flight'[b].pc \notin {"idle", "start"}
        PROVE  /\ actor'[b].ver >= flight'[b].ver
               /\ actor'[b].ver = flight'[b].ver => actor'[b].status = "resuming"
    <3>1. b # a /\ flight'[b] = flight[b] /\ actor'[b] = actor[b]
      BY <2>1, <2>2 DEF Finalized, NoFlight
    <3> QED
      BY <2>2, <3>1
  <2>3. ASSUME NEW k \in Calls, Pending(k)', call'[k].actor \notin Reused,
               Exists(call[k].actor)'
        PROVE  /\ actor'[call'[k].actor].ver >= call'[k].ver
               /\ actor'[call'[k].actor].ver = call'[k].ver =>
                     /\ actor'[call'[k].actor].status \in {"suspending", "pausing"}
                     /\ call'[k].pc = "flip" => route'[call'[k].actor] = None
    <3> DEFINE b == call[k].actor
    <3>1. call'[k] = call[k] /\ b \in Actors /\ Pending(k)
      BY <1>0, <2>3
    <3>2. CASE actor'[b] = actor[b] /\ route'[b] = route[b]
      <4> HIDE DEF TypeOK, Shapes, Fresh, BoundOnDuty
      <4>1. b \notin Reused /\ Exists(b)
        BY <2>3, <3>1, <3>2
      <4> QED
        BY <3>1, <3>2, <4>1
    <3>3. CASE b = a /\ Accepts(a, flight[a].ver) /\ actor[a].status # "running"
      <4>1. actor'[a].ver = actor[a].ver + 1
        BY <2>1, <3>3 DEF Finalized
      <4>2. actor[a].ver >= call[k].ver /\ actor[a].ver \in Nat /\ call[k].ver \in Nat
        BY <2>3, <3>1, <3>3 DEF Accepts
      <4> QED
        BY <3>1, <3>3, <4>1, <4>2
    <3> QED
      BY <2>1, <3>1, <3>2, <3>3 DEF Finalized
  <2> HIDE DEF TypeOK, Shapes, Fresh, BoundOnDuty
  <2> QED
    BY <2>2, <2>3
<1>1. ASSUME NEW a \in Actors, CreateActor(a)
     PROVE  Versions'
  <2>1. /\ \A b \in Actors \ {a} : actor'[b] = actor[b]
        /\ flight' = flight /\ call' = call /\ route' = route
    BY <1>1 DEF CreateActor
  <2>2. a \in Reused \/ born[a] = 0
    BY <1>1 DEF CreateActor
  <2>3. a \in Reused \/ flight[a].pc = "idle"
    BY <2>2
  <2>4. a \in Reused \/ \A k \in Calls : Pending(k) => call[k].actor # a
    BY <2>2
  <2> HIDE DEF TypeOK, Fresh, BoundOnDuty
  <2> QED
    BY <2>1, <2>3, <2>4
<1>2. ASSUME NEW a \in Actors, DeleteActor(a)
     PROVE  Versions'
  BY <1>2 DEF DeleteActor, Absent
<1>3. ASSUME NEW a \in Actors, MarkCrashed(a)
     PROVE  Versions'
  BY <1>3 DEF MarkCrashed
<1>4. ASSUME NEW a \in Actors, Resume(a)
     PROVE  Versions'
  BY <1>4 DEF Resume, NoFlight, records
<1>5. ASSUME NEW a \in Actors, ResumeRefused(a)
     PROVE  Versions'
  BY <1>5 DEF ResumeRefused, NoFlight, records
<1>6. ASSUME NEW a \in Actors, NeedSandbox(a)
     PROVE  Versions'
  BY <1>6 DEF NeedSandbox, Resumable, Resuming
<1>7. ASSUME NEW a \in Actors, NEW w \in Workers, ClaimIdle(a, w)
     PROVE  Versions'
  BY <1>7 DEF ClaimIdle, Resumable, Resuming, Eligible, Idle, BootPc
<1>8. ASSUME NEW a \in Actors, NEW s \in Sandboxes, NEW w \in Workers, ClaimFresh(a, s, w)
     PROVE  Versions'
  BY <1>8 DEF ClaimFresh, FreshIds, BootPc
<1>9. ASSUME NEW a \in Actors, AcquireFailed(a)
     PROVE  Versions'
  BY <1>9 DEF AcquireFailed, NoFlight, records
<1>10. ASSUME NEW a \in Actors, BootFailed(a)
     PROVE  Versions'
  BY <1>10 DEF BootFailed, NoFlight, records
<1>11. ASSUME NEW a \in Actors, Booted(a)
     PROVE  Versions'
  BY <1>0, <1>11 DEF Booted
<1>12. ASSUME NEW a \in Actors, Captured(a)
     PROVE  Versions'
  BY <1>0, <1>12 DEF Captured
<1>13. ASSUME NEW k \in Calls, NEW a \in Actors, NEW op \in {"suspend", "pause"},
              SuspendBegins(k, a, op)
     PROVE  Versions'
  BY <1>13 DEF SuspendBegins
<1>14. ASSUME NEW k \in Calls, CheckpointFailed(k)
     PROVE  Versions'
  BY <1>14 DEF CheckpointFailed, NoCall, records
<1>15. ASSUME NEW k \in Calls, CheckpointedKeepsWarm(k)
     PROVE  Versions'
  <2>1. Returned(k)
    BY <1>15, CheckpointReturns
  <2> HIDE DEF TypeOK
  <2>2. OfFlights'
    BY <2>1, Fields DEF Returned, Flipped, CallEnds, NoCall, Accepts, Unbound
  <2>3. OfCalls'
    BY <2>1, Fields DEF Returned, Flipped, CallEnds, NoCall, Accepts, Unbound
  <2> QED
    BY <2>2, <2>3
<1>16. ASSUME NEW k \in Calls, CheckpointedRetires(k)
     PROVE  Versions'
  BY <1>16 DEF CheckpointedRetires, RetireInto, NoRecord
<1>17. ASSUME NEW k \in Calls, FlipAfterRetire(k)
     PROVE  Versions'
  <2>1. FlipEnds(k)
    BY <1>17, RetireReturns
  <2> HIDE DEF TypeOK
  <2>2. OfFlights'
    BY <2>1, Fields DEF FlipEnds, Flipped, CallEnds, NoCall, Accepts
  <2>3. OfCalls'
    BY <2>1, Fields DEF FlipEnds, Flipped, CallEnds, NoCall, Accepts
  <2> QED
    BY <2>2, <2>3
<1>18. ASSUME NEW k \in Calls, FlipCancelled(k)
     PROVE  Versions'
  BY <1>18 DEF FlipCancelled, NoCall, records
<1>19. ASSUME NEW E \in SUBSET warm, NEW w \in E, SweepTick(E, w)
     PROVE  Versions'
  BY <1>19 DEF SweepTick, RetireInto, NoRecord
<1>20. ASSUME NEW w \in Workers, RetireNext(w)
     PROVE  Versions'
  BY <1>20 DEF RetireNext, RetireInto, NoRecord
<1>21. ASSUME NEW w \in Workers, CloseWarmPool(w)
     PROVE  Versions'
  BY <1>21 DEF CloseWarmPool, RetireInto, NoRecord
<1>22. ASSUME ClosePool PROVE Versions'
  BY <1>22 DEF ClosePool, records
<1> HIDE DEF TypeOK, Shapes, Fresh, Versions, Exists, Boots, OnDuty, Pending,
     BoundOnDuty
<1> QED
  BY <1>1, <1>2, <1>3, <1>4, <1>5, <1>6, <1>7, <1>8, <1>9, <1>10, <1>11,
     <1>12, <1>13, <1>14, <1>15, <1>16, <1>17, <1>18, <1>19, <1>20, <1>21,
     <1>22
     DEF Next, Lifecycle, ResumeSteps, CallSteps, PoolSteps

(* A binding is set with the record and dropped before the worker goes.       *)
LEMMA RouteStep ==
    ASSUME TypeOK, Shapes, Fresh, Versions, BoundOnDuty, Next
    PROVE  BoundOnDuty'
<1> USE OrchestratorAssumption DEF TypeOK, Shapes, Fresh, Versions, Exists,
     Boots, OnDuty, Pending, BoundOnDuty
<1>0. ASSUME NEW a \in Actors, flight[a].worker \in Workers, FinalizeRunning(a)
      PROVE  BoundOnDuty'
  <2> DEFINE hit == Accepts(a, flight[a].ver) /\ actor[a].status # "running"
  <2>1. Finalized(a)
    BY <1>0, FinalizeMoves
  <2>2. CASE hit
    <3>1. /\ actor'[a].status = "running" /\ actor'[a].worker = flight[a].worker
          /\ route'[a] = flight[a].worker
          /\ \A b \in Actors \ {a} : actor'[b] = actor[b] /\ route'[b] = route[b]
      BY <2>1, <2>2 DEF Finalized
    <3> QED
      BY <3>1
  <2>3. CASE ~hit
    <3>1. \A b \in Actors : actor'[b] = actor[b] /\ route'[b] = route[b]
      BY <2>1, <2>3 DEF Finalized
    <3> QED
      BY <3>1
  <2> QED
    BY <2>2, <2>3
<1>1. ASSUME NEW a \in Actors, CreateActor(a)
     PROVE  BoundOnDuty'
  BY <1>1 DEF CreateActor
<1>2. ASSUME NEW a \in Actors, DeleteActor(a)
     PROVE  BoundOnDuty'
  BY <1>2 DEF DeleteActor, Absent
<1>3. ASSUME NEW a \in Actors, MarkCrashed(a)
     PROVE  BoundOnDuty'
  BY <1>3 DEF MarkCrashed
<1>4. ASSUME NEW a \in Actors, Resume(a)
     PROVE  BoundOnDuty'
  BY <1>4 DEF Resume, NoFlight, records
<1>5. ASSUME NEW a \in Actors, ResumeRefused(a)
     PROVE  BoundOnDuty'
  BY <1>5 DEF ResumeRefused, NoFlight, records
<1>6. ASSUME NEW a \in Actors, NeedSandbox(a)
     PROVE  BoundOnDuty'
  BY <1>6 DEF NeedSandbox, Resumable, Resuming
<1>7. ASSUME NEW a \in Actors, NEW w \in Workers, ClaimIdle(a, w)
     PROVE  BoundOnDuty'
  BY <1>7 DEF ClaimIdle, Resumable, Resuming, Eligible, Idle, BootPc
<1>8. ASSUME NEW a \in Actors, NEW s \in Sandboxes, NEW w \in Workers, ClaimFresh(a, s, w)
     PROVE  BoundOnDuty'
  BY <1>8 DEF ClaimFresh, FreshIds, BootPc
<1>9. ASSUME NEW a \in Actors, AcquireFailed(a)
     PROVE  BoundOnDuty'
  BY <1>9 DEF AcquireFailed, NoFlight, records
<1>10. ASSUME NEW a \in Actors, BootFailed(a)
     PROVE  BoundOnDuty'
  BY <1>10 DEF BootFailed, NoFlight, records
<1>11. ASSUME NEW a \in Actors, Booted(a)
     PROVE  BoundOnDuty'
  BY <1>11, <1>0 DEF Booted
<1>12. ASSUME NEW a \in Actors, Captured(a)
     PROVE  BoundOnDuty'
  BY <1>12, <1>0 DEF Captured
<1>13. ASSUME NEW k \in Calls, NEW a \in Actors, NEW op \in {"suspend", "pause"},
              SuspendBegins(k, a, op)
     PROVE  BoundOnDuty'
  BY <1>13 DEF SuspendBegins
<1>14. ASSUME NEW k \in Calls, CheckpointFailed(k)
     PROVE  BoundOnDuty'
  BY <1>14 DEF CheckpointFailed, NoCall, records
<1>15. ASSUME NEW k \in Calls, CheckpointedKeepsWarm(k)
     PROVE  BoundOnDuty'
  BY <1>15 DEF CheckpointedKeepsWarm, Flip, FlipStatus, Accepts, WarmRoom,
     NoCall
<1>16. ASSUME NEW k \in Calls, CheckpointedRetires(k)
     PROVE  BoundOnDuty'
  BY <1>16 DEF CheckpointedRetires, RetireInto, NoRecord
<1>17. ASSUME NEW k \in Calls, FlipAfterRetire(k)
     PROVE  BoundOnDuty'
  BY <1>17 DEF FlipAfterRetire, Flip, FlipStatus, Accepts, NoCall
<1>18. ASSUME NEW k \in Calls, FlipCancelled(k)
     PROVE  BoundOnDuty'
  BY <1>18 DEF FlipCancelled, NoCall, records
<1>19. ASSUME NEW E \in SUBSET warm, NEW w \in E, SweepTick(E, w)
     PROVE  BoundOnDuty'
  BY <1>19 DEF SweepTick, RetireInto, NoRecord
<1>20. ASSUME NEW w \in Workers, RetireNext(w)
     PROVE  BoundOnDuty'
  BY <1>20 DEF RetireNext, RetireInto, NoRecord
<1>21. ASSUME NEW w \in Workers, CloseWarmPool(w)
     PROVE  BoundOnDuty'
  BY <1>21 DEF CloseWarmPool, RetireInto, NoRecord
<1>22. ASSUME ClosePool PROVE BoundOnDuty'
  BY <1>22 DEF ClosePool, records
<1> HIDE DEF TypeOK, Shapes, Fresh, Versions, Exists, Boots, OnDuty, Pending,
     BoundOnDuty
<1> QED
  BY <1>1, <1>2, <1>3, <1>4, <1>5, <1>6, <1>7, <1>8, <1>9, <1>10, <1>11,
     <1>12, <1>13, <1>14, <1>15, <1>16, <1>17, <1>18, <1>19, <1>20, <1>21,
     <1>22
     DEF Next, Lifecycle, ResumeSteps, CallSteps, PoolSteps

(* A sandbox changes hands together with the record that holds it.           *)
LEMMA SandboxStep ==
    ASSUME TypeOK, Shapes, SandboxAccounting, Next
    PROVE  SandboxAccounting'
<1> USE OrchestratorAssumption DEF TypeOK, Shapes, SandboxAccounting,
     Registered, Boots, OnDuty, Pending
<1>1. ASSUME NEW a \in Actors, CreateActor(a)
     PROVE  SandboxAccounting'
  BY <1>1 DEF CreateActor, Exists
<1>2. ASSUME NEW a \in Actors, DeleteActor(a)
     PROVE  SandboxAccounting'
  BY <1>2 DEF DeleteActor, Exists, Absent
<1>3. ASSUME NEW a \in Actors, MarkCrashed(a)
     PROVE  SandboxAccounting'
  BY <1>3 DEF MarkCrashed, Exists
<1>4. ASSUME NEW a \in Actors, Resume(a)
     PROVE  SandboxAccounting'
  BY <1>4 DEF Resume, Exists, NoFlight, records
<1>5. ASSUME NEW a \in Actors, ResumeRefused(a)
     PROVE  SandboxAccounting'
  BY <1>5 DEF ResumeRefused, Exists, NoFlight, records
<1>6. ASSUME NEW a \in Actors, NeedSandbox(a)
     PROVE  SandboxAccounting'
  BY <1>6 DEF NeedSandbox, Resumable, Resuming
<1>7. ASSUME NEW a \in Actors, NEW w \in Workers, ClaimIdle(a, w)
     PROVE  SandboxAccounting'
  BY <1>7 DEF ClaimIdle, Resumable, Resuming, Eligible, Idle, BootPc
<1>8. ASSUME NEW a \in Actors, NEW s \in Sandboxes, NEW w \in Workers, ClaimFresh(a, s, w)
     PROVE  SandboxAccounting'
  BY <1>8 DEF ClaimFresh, FreshIds, BootPc
<1>9. ASSUME NEW a \in Actors, AcquireFailed(a)
     PROVE  SandboxAccounting'
  BY <1>9 DEF AcquireFailed, NoFlight, records
<1>10. ASSUME NEW a \in Actors, BootFailed(a)
     PROVE  SandboxAccounting'
  BY <1>10 DEF BootFailed, NoFlight, records
<1>11. ASSUME NEW a \in Actors, Booted(a)
     PROVE  SandboxAccounting'
  BY <1>11 DEF Booted, FinalizeRunning, Accepts, Exists, NoFlight
<1>12. ASSUME NEW a \in Actors, Captured(a)
     PROVE  SandboxAccounting'
  BY <1>12 DEF Captured, FinalizeRunning, Accepts, Exists, NoFlight
<1>13. ASSUME NEW k \in Calls, NEW a \in Actors, NEW op \in {"suspend", "pause"},
              SuspendBegins(k, a, op)
     PROVE  SandboxAccounting'
  BY <1>13 DEF SuspendBegins
<1>14. ASSUME NEW k \in Calls, CheckpointFailed(k)
     PROVE  SandboxAccounting'
  BY <1>14 DEF CheckpointFailed, NoCall, records
<1>15. ASSUME NEW k \in Calls, CheckpointedKeepsWarm(k)
     PROVE  SandboxAccounting'
  BY <1>15 DEF CheckpointedKeepsWarm, Flip, FlipStatus, Accepts, Exists,
     WarmRoom, NoCall
<1>16. ASSUME NEW k \in Calls, CheckpointedRetires(k)
     PROVE  SandboxAccounting'
  <2>1. call[k].worker \in Workers /\ RetireInto(call[k].worker)
    BY <1>16 DEF CheckpointedRetires
  <2> QED
    BY <2>1, RetireAccounts
<1>17. ASSUME NEW k \in Calls, FlipAfterRetire(k)
     PROVE  SandboxAccounting'
  BY <1>17 DEF FlipAfterRetire, Flip, FlipStatus, Accepts, Exists, NoCall
<1>18. ASSUME NEW k \in Calls, FlipCancelled(k)
     PROVE  SandboxAccounting'
  BY <1>18 DEF FlipCancelled, NoCall, records
<1>19. ASSUME NEW E \in SUBSET warm, NEW w \in E, SweepTick(E, w)
     PROVE  SandboxAccounting'
  BY <1>19 DEF SweepTick, RetireInto, NoRecord
<1>20. ASSUME NEW w \in Workers, RetireNext(w)
     PROVE  SandboxAccounting'
  BY <1>20 DEF RetireNext, RetireInto, NoRecord
<1>21. ASSUME NEW w \in Workers, CloseWarmPool(w)
     PROVE  SandboxAccounting'
  BY <1>21 DEF CloseWarmPool, RetireInto, NoRecord
<1>22. ASSUME ClosePool PROVE SandboxAccounting'
  BY <1>22 DEF ClosePool, records
<1> HIDE DEF TypeOK, Shapes, SandboxAccounting, Registered, Boots, OnDuty,
     Pending
<1> QED
  BY <1>1, <1>2, <1>3, <1>4, <1>5, <1>6, <1>7, <1>8, <1>9, <1>10, <1>11,
     <1>12, <1>13, <1>14, <1>15, <1>16, <1>17, <1>18, <1>19, <1>20, <1>21,
     <1>22
     DEF Next, Lifecycle, ResumeSteps, CallSteps, PoolSteps

(* A worker is listed when it goes idle and unlisted when it is claimed; only   *)
(* a sweep unlists an idle one, and it keeps it on its own list.            *)
LEMMA IdleStep ==
    ASSUME TypeOK, Shapes, Claims, WarmIsIdle, IdleIsWarm, Next
    PROVE  (\A u \in warm' : Idle(u)') /\ IdleIsWarm'
<1> USE OrchestratorAssumption DEF TypeOK, Shapes, Claims, Claimed,
     IdleIsWarm, Registered, Idle, Boots, OnDuty, Pending
<1> \A w \in warm : Idle(w)
  BY DEF WarmIsIdle
<1>1. ASSUME NEW a \in Actors, CreateActor(a)
     PROVE  (\A u \in warm' : Idle(u)') /\ IdleIsWarm'
  BY <1>1 DEF CreateActor, Exists
<1>2. ASSUME NEW a \in Actors, DeleteActor(a)
     PROVE  (\A u \in warm' : Idle(u)') /\ IdleIsWarm'
  BY <1>2 DEF DeleteActor, Exists, Absent
<1>3. ASSUME NEW a \in Actors, MarkCrashed(a)
     PROVE  (\A u \in warm' : Idle(u)') /\ IdleIsWarm'
  BY <1>3 DEF MarkCrashed, Exists
<1>4. ASSUME NEW a \in Actors, Resume(a)
     PROVE  (\A u \in warm' : Idle(u)') /\ IdleIsWarm'
  BY <1>4 DEF Resume, Exists, NoFlight, records
<1>5. ASSUME NEW a \in Actors, ResumeRefused(a)
     PROVE  (\A u \in warm' : Idle(u)') /\ IdleIsWarm'
  BY <1>5 DEF ResumeRefused, Exists, NoFlight, records
<1>6. ASSUME NEW a \in Actors, NeedSandbox(a)
     PROVE  (\A u \in warm' : Idle(u)') /\ IdleIsWarm'
  BY <1>6 DEF NeedSandbox, Resumable, Resuming
<1>7. ASSUME NEW a \in Actors, NEW w \in Workers, ClaimIdle(a, w)
     PROVE  (\A u \in warm' : Idle(u)') /\ IdleIsWarm'
  BY <1>7 DEF ClaimIdle, Resumable, Resuming, Eligible, BootPc
<1>8. ASSUME NEW a \in Actors, NEW s \in Sandboxes, NEW w \in Workers, ClaimFresh(a, s, w)
     PROVE  (\A u \in warm' : Idle(u)') /\ IdleIsWarm'
  BY <1>8 DEF ClaimFresh, FreshIds, BootPc
<1>9. ASSUME NEW a \in Actors, AcquireFailed(a)
     PROVE  (\A u \in warm' : Idle(u)') /\ IdleIsWarm'
  BY <1>9 DEF AcquireFailed, NoFlight, records
<1>10. ASSUME NEW a \in Actors, BootFailed(a)
     PROVE  (\A u \in warm' : Idle(u)') /\ IdleIsWarm'
  BY <1>10 DEF BootFailed, NoFlight, records
<1>11. ASSUME NEW a \in Actors, Booted(a)
     PROVE  (\A u \in warm' : Idle(u)') /\ IdleIsWarm'
  BY <1>11 DEF Booted, FinalizeRunning, Accepts, Exists, NoFlight
<1>12. ASSUME NEW a \in Actors, Captured(a)
     PROVE  (\A u \in warm' : Idle(u)') /\ IdleIsWarm'
  BY <1>12 DEF Captured, FinalizeRunning, Accepts, Exists, NoFlight
<1>13. ASSUME NEW k \in Calls, NEW a \in Actors, NEW op \in {"suspend", "pause"},
              SuspendBegins(k, a, op)
     PROVE  (\A u \in warm' : Idle(u)') /\ IdleIsWarm'
  BY <1>13 DEF SuspendBegins
<1>14. ASSUME NEW k \in Calls, CheckpointFailed(k)
     PROVE  (\A u \in warm' : Idle(u)') /\ IdleIsWarm'
  BY <1>14 DEF CheckpointFailed, NoCall, records
<1>15. ASSUME NEW k \in Calls, CheckpointedKeepsWarm(k)
     PROVE  (\A u \in warm' : Idle(u)') /\ IdleIsWarm'
  <2>1. Returned(k)
    BY <1>15, CheckpointReturns
  <2> HIDE DEF TypeOK
  <2>2. \A w \in Workers :
           Idle(w)' <=> Idle(w) \/ (w = call[k].worker /\ Registered(w))
    BY <2>1 DEF Returned
  <2>3. warm \subseteq Workers /\ warm' \subseteq warm \cup {call[k].worker}
        /\ (call[k].worker \in warm' \ warm => Registered(call[k].worker))
    BY <2>1 DEF Returned, TypeOK
  <2>4. \A u \in warm' : Idle(u)'
    BY <2>1, <2>2, <2>3 DEF Returned
  <2>5. IdleIsWarm'
    BY <2>1, <2>2 DEF Returned
  <2> QED
    BY <2>4, <2>5
<1>16. ASSUME NEW k \in Calls, CheckpointedRetires(k)
     PROVE  (\A u \in warm' : Idle(u)') /\ IdleIsWarm'
  <2>1. call[k].worker \in Workers
    BY <1>16 DEF CheckpointedRetires
  <2> QED
    BY <1>16, <2>1 DEF CheckpointedRetires, RetireInto, NoRecord
<1>17. ASSUME NEW k \in Calls, FlipAfterRetire(k)
     PROVE  (\A u \in warm' : Idle(u)') /\ IdleIsWarm'
  BY <1>17 DEF FlipAfterRetire, Flip, FlipStatus, Accepts, Exists, NoCall
<1>18. ASSUME NEW k \in Calls, FlipCancelled(k)
     PROVE  (\A u \in warm' : Idle(u)') /\ IdleIsWarm'
  BY <1>18 DEF FlipCancelled, NoCall, records
<1>19. ASSUME NEW E \in SUBSET warm, NEW w \in E, SweepTick(E, w)
     PROVE  (\A u \in warm' : Idle(u)') /\ IdleIsWarm'
  BY <1>19 DEF SweepTick, RetireInto, NoRecord
<1>20. ASSUME NEW w \in Workers, RetireNext(w)
     PROVE  (\A u \in warm' : Idle(u)') /\ IdleIsWarm'
  BY <1>20 DEF RetireNext, RetireInto, NoRecord
<1>21. ASSUME NEW w \in Workers, CloseWarmPool(w)
     PROVE  (\A u \in warm' : Idle(u)') /\ IdleIsWarm'
  BY <1>21 DEF CloseWarmPool, RetireInto, NoRecord
<1>22. ASSUME ClosePool PROVE (\A u \in warm' : Idle(u)') /\ IdleIsWarm'
  BY <1>22 DEF ClosePool, records
<1> HIDE DEF TypeOK, Shapes, Claims, Claimed, IdleIsWarm, Registered, Idle,
     Boots, OnDuty, Pending
<1> QED
  BY <1>1, <1>2, <1>3, <1>4, <1>5, <1>6, <1>7, <1>8, <1>9, <1>10, <1>11,
     <1>12, <1>13, <1>14, <1>15, <1>16, <1>17, <1>18, <1>19, <1>20, <1>21,
     <1>22
     DEF Next, Lifecycle, ResumeSteps, CallSteps, PoolSteps

(* Workers are listed one at a time, while there is room.                      *)
LEMMA WarmGrows ==
    ASSUME Claims, Next
    PROVE  warm' \subseteq warm \/ (WarmRoom /\ \E u : warm' = warm \cup {u})
<1> USE OrchestratorAssumption DEF records
<1>1. ASSUME NEW a \in Actors, CreateActor(a)
     PROVE  warm' \subseteq warm \/ (WarmRoom /\ \E u : warm' = warm \cup {u})
  BY <1>1 DEF CreateActor, Exists
<1>2. ASSUME NEW a \in Actors, DeleteActor(a)
     PROVE  warm' \subseteq warm \/ (WarmRoom /\ \E u : warm' = warm \cup {u})
  BY <1>2 DEF DeleteActor, Exists
<1>3. ASSUME NEW a \in Actors, MarkCrashed(a)
     PROVE  warm' \subseteq warm \/ (WarmRoom /\ \E u : warm' = warm \cup {u})
  BY <1>3 DEF MarkCrashed, Exists
<1>4. ASSUME NEW a \in Actors, Resume(a)
     PROVE  warm' \subseteq warm \/ (WarmRoom /\ \E u : warm' = warm \cup {u})
  BY <1>4 DEF Resume, Exists, NoFlight
<1>5. ASSUME NEW a \in Actors, ResumeRefused(a)
     PROVE  warm' \subseteq warm \/ (WarmRoom /\ \E u : warm' = warm \cup {u})
  BY <1>5 DEF ResumeRefused, Exists, NoFlight
<1>6. ASSUME NEW a \in Actors, NeedSandbox(a)
     PROVE  warm' \subseteq warm \/ (WarmRoom /\ \E u : warm' = warm \cup {u})
  BY <1>6 DEF NeedSandbox, Resumable, Resuming
<1>7. ASSUME NEW a \in Actors, NEW w \in Workers, ClaimIdle(a, w)
     PROVE  warm' \subseteq warm \/ (WarmRoom /\ \E u : warm' = warm \cup {u})
  BY <1>7 DEF ClaimIdle, Resumable, Resuming, Eligible, Idle, BootPc
<1>8. ASSUME NEW a \in Actors, NEW s \in Sandboxes, NEW w \in Workers, ClaimFresh(a, s, w)
     PROVE  warm' \subseteq warm \/ (WarmRoom /\ \E u : warm' = warm \cup {u})
  BY <1>8 DEF ClaimFresh, FreshIds, BootPc
<1>9. ASSUME NEW a \in Actors, AcquireFailed(a)
     PROVE  warm' \subseteq warm \/ (WarmRoom /\ \E u : warm' = warm \cup {u})
  BY <1>9 DEF AcquireFailed, NoFlight
<1>10. ASSUME NEW a \in Actors, BootFailed(a)
     PROVE  warm' \subseteq warm \/ (WarmRoom /\ \E u : warm' = warm \cup {u})
  BY <1>10 DEF BootFailed, NoFlight
<1>11. ASSUME NEW a \in Actors, Booted(a)
     PROVE  warm' \subseteq warm \/ (WarmRoom /\ \E u : warm' = warm \cup {u})
  BY <1>11 DEF Booted, FinalizeRunning, Accepts, Exists, NoFlight
<1>12. ASSUME NEW a \in Actors, Captured(a)
     PROVE  warm' \subseteq warm \/ (WarmRoom /\ \E u : warm' = warm \cup {u})
  BY <1>12 DEF Captured, FinalizeRunning, Accepts, Exists, NoFlight
<1>13. ASSUME NEW k \in Calls, NEW a \in Actors, NEW op \in {"suspend", "pause"},
              SuspendBegins(k, a, op)
     PROVE  warm' \subseteq warm \/ (WarmRoom /\ \E u : warm' = warm \cup {u})
  BY <1>13 DEF SuspendBegins
<1>14. ASSUME NEW k \in Calls, CheckpointFailed(k)
     PROVE  warm' \subseteq warm \/ (WarmRoom /\ \E u : warm' = warm \cup {u})
  BY <1>14 DEF CheckpointFailed, NoCall
<1>15. ASSUME NEW k \in Calls, CheckpointedKeepsWarm(k)
     PROVE  warm' \subseteq warm \/ (WarmRoom /\ \E u : warm' = warm \cup {u})
  <2>1. Checkpointed(k) /\ (Kept(k) \/ Gone(k))
    BY <1>15, CheckpointFindsItsWorker
  <2>2. CASE Kept(k)
    BY <2>1, <2>2 DEF Checkpointed, Kept, NoCall
  <2>3. CASE Gone(k)
    BY <2>1, <2>3 DEF Checkpointed, Gone, NoCall
  <2> QED
    BY <2>1, <2>2, <2>3
<1>16. ASSUME NEW k \in Calls, CheckpointedRetires(k)
     PROVE  warm' \subseteq warm \/ (WarmRoom /\ \E u : warm' = warm \cup {u})
  BY <1>16 DEF CheckpointedRetires, RetireInto, NoRecord
<1>17. ASSUME NEW k \in Calls, FlipAfterRetire(k)
     PROVE  warm' \subseteq warm \/ (WarmRoom /\ \E u : warm' = warm \cup {u})
  BY <1>17 DEF FlipAfterRetire, Flip, FlipStatus, Accepts, Exists, NoCall
<1>18. ASSUME NEW k \in Calls, FlipCancelled(k)
     PROVE  warm' \subseteq warm \/ (WarmRoom /\ \E u : warm' = warm \cup {u})
  BY <1>18 DEF FlipCancelled, NoCall
<1>19. ASSUME NEW E \in SUBSET warm, NEW w \in E, SweepTick(E, w)
     PROVE  warm' \subseteq warm \/ (WarmRoom /\ \E u : warm' = warm \cup {u})
  BY <1>19 DEF SweepTick, RetireInto, NoRecord
<1>20. ASSUME NEW w \in Workers, RetireNext(w)
     PROVE  warm' \subseteq warm \/ (WarmRoom /\ \E u : warm' = warm \cup {u})
  BY <1>20 DEF RetireNext, RetireInto, NoRecord
<1>21. ASSUME NEW w \in Workers, CloseWarmPool(w)
     PROVE  warm' \subseteq warm \/ (WarmRoom /\ \E u : warm' = warm \cup {u})
  BY <1>21 DEF CloseWarmPool, RetireInto, NoRecord
<1>22. ASSUME ClosePool PROVE warm' \subseteq warm \/ (WarmRoom /\ \E u : warm' = warm \cup {u})
  BY <1>22 DEF ClosePool
<1> HIDE DEF records
<1> QED
  BY <1>1, <1>2, <1>3, <1>4, <1>5, <1>6, <1>7, <1>8, <1>9, <1>10, <1>11,
     <1>12, <1>13, <1>14, <1>15, <1>16, <1>17, <1>18, <1>19, <1>20, <1>21,
     <1>22
     DEF Next, Lifecycle, ResumeSteps, CallSteps, PoolSteps

LEMMA WarmIsIdleStep ==
    ASSUME TypeOK, TypeOK', Shapes, Claims, WarmIsIdle, IdleIsWarm, Next
    PROVE  WarmIsIdle'
<1>1. \A u \in warm' : Idle(u)'
  BY IdleStep
<1>2. IsFiniteSet(warm) /\ Cardinality(warm) \in Nat /\ Cardinality(warm) <= MaxWarmIdle
  BY OrchestratorAssumption, FS_Subset, FS_CardinalityType DEF TypeOK, WarmIsIdle
<1>3. CASE warm' \subseteq warm
  BY <1>1, <1>2, <1>3, FS_Subset, FS_CardinalityType, OrchestratorAssumption DEF WarmIsIdle
<1>4. ASSUME WarmRoom, NEW w, warm' = warm \cup {w}
      PROVE  WarmIsIdle'
  <2>1. Cardinality(warm') \in Nat /\ Cardinality(warm') <= Cardinality(warm) + 1
    BY <1>2, <1>4, FS_AddElement
  <2> QED
    BY <1>1, <1>2, <1>4, <2>1, OrchestratorAssumption DEF WarmRoom, WarmIsIdle
<1> QED
  BY <1>3, <1>4, WarmGrows

(* Each step that forgets a worker leaks it, retires it or lets it go idle.    *)
LEMMA AccountStep ==
    ASSUME TypeOK, Shapes, Claims, Accounted, Next
    PROVE  Accounted'
<1> USE OrchestratorAssumption DEF TypeOK, Shapes, Claims, Claimed, Accounted,
     InHands, Registered, Idle, Boots, OnDuty, Pending
<1>0. ASSUME NEW a \in Actors, flight[a].worker \in Workers, FinalizeRunning(a),
             worker' = worker, call' = call
      PROVE  Accounted'
  <2> DEFINE hit == Accepts(a, flight[a].ver) /\ actor[a].status # "running"
  <2>1. Finalized(a)
    BY <1>0, FinalizeMoves
  <2>2. \A b \in Actors \ {a} : flight'[b] = flight[b]
    BY <2>1 DEF Finalized
  <2> HIDE DEF TypeOK, Shapes, Claims
  <2> SUFFICES ASSUME NEW w \in Workers, Registered(w), ~Idle(w), w \notin leaked'
               PROVE  InHands(w)'
    BY <1>0
  <2>3. InHands(w)
    BY <2>1 DEF Finalized
  <2>4. ASSUME NEW b \in Actors, actor[b].status = "running", actor[b].worker = w
        PROVE  InHands(w)'
    <3>1. actor'[b] = actor[b]
      BY <2>1, <2>4 DEF Finalized
    <3> QED
      BY <2>4, <3>1
  <2>5. CASE flight[a].worker = w
    <3>1. hit
      BY <2>1, <2>5 DEF Finalized
    <3>2. actor'[a].status = "running" /\ actor'[a].worker = w
      BY <2>1, <2>5, <3>1 DEF Finalized
    <3> QED
      BY <3>2
  <2>6. ASSUME NEW b \in Actors \ {a}, flight[b].worker = w
        PROVE  InHands(w)'
    BY <2>2, <2>6
  <2>7. ASSUME NEW k \in Calls, call[k].pc = "checkpoint", call[k].worker = w
        PROVE  InHands(w)'
    BY <1>0, <2>7
  <2> QED
    BY <2>3, <2>4, <2>5, <2>6, <2>7
<1>1. ASSUME NEW a \in Actors, CreateActor(a)
     PROVE  Accounted'
  BY <1>1 DEF CreateActor, Exists
<1>2. ASSUME NEW a \in Actors, DeleteActor(a)
     PROVE  Accounted'
  BY <1>2 DEF DeleteActor, Exists, Absent
<1>3. ASSUME NEW a \in Actors, MarkCrashed(a)
     PROVE  Accounted'
  BY <1>3 DEF MarkCrashed, Exists
<1>4. ASSUME NEW a \in Actors, Resume(a)
     PROVE  Accounted'
  <2>1. flight'[a].worker = flight[a].worker
    BY <1>4 DEF Resume, NoFlight
  <2>0. \A b \in Actors \ {a} : flight'[b] = flight[b]
    BY <1>4 DEF Resume
  <2>2. \A b \in Actors : flight'[b].worker = flight[b].worker
    BY <2>0, <2>1
  <2>3. worker' = worker /\ actor' = actor /\ call' = call /\ leaked' = leaked
    BY <1>4 DEF Resume, records
  <2> HIDE DEF TypeOK, Shapes, Claims
  <2> QED
    BY <2>2, <2>3
<1>5. ASSUME NEW a \in Actors, ResumeRefused(a)
     PROVE  Accounted'
  <2>1. flight'[a].worker = flight[a].worker
    BY <1>5 DEF ResumeRefused, NoFlight
  <2>0. \A b \in Actors \ {a} : flight'[b] = flight[b]
    BY <1>5 DEF ResumeRefused
  <2>2. \A b \in Actors : flight'[b].worker = flight[b].worker
    BY <2>0, <2>1
  <2>3. worker' = worker /\ actor' = actor /\ call' = call /\ leaked' = leaked
    BY <1>5 DEF ResumeRefused, records
  <2> HIDE DEF TypeOK, Shapes, Claims
  <2> QED
    BY <2>2, <2>3
<1>6. ASSUME NEW a \in Actors, NeedSandbox(a)
     PROVE  Accounted'
  <2>1. flight[a].worker = None /\ flight'[a].worker = None
    BY <1>6 DEF NeedSandbox, Resumable
  <2>2. \A b \in Actors \ {a} : flight'[b] = flight[b] /\ actor'[b] = actor[b]
    BY <1>6 DEF NeedSandbox, Resuming
  <2>3. actor[a].status # "running"
    BY <1>6 DEF NeedSandbox, Resumable
  <2>4. worker' = worker /\ call' = call /\ leaked' = leaked
    BY <1>6 DEF NeedSandbox
  <2> HIDE DEF TypeOK, Shapes, Claims
  <2> QED
    BY <2>1, <2>2, <2>3, <2>4
<1>7. ASSUME NEW a \in Actors, NEW w \in Workers, ClaimIdle(a, w)
     PROVE  Accounted'
  BY <1>7 DEF ClaimIdle, Resumable, Resuming, Eligible, BootPc
<1>8. ASSUME NEW a \in Actors, NEW s \in Sandboxes, NEW w \in Workers, ClaimFresh(a, s, w)
     PROVE  Accounted'
  BY <1>8 DEF ClaimFresh, FreshIds, BootPc
<1>9. ASSUME NEW a \in Actors, AcquireFailed(a)
     PROVE  Accounted'
  <2>1. flight[a].worker = None
    BY <1>9 DEF AcquireFailed
  <2>0. flight'[a].worker = None
    BY <1>9 DEF AcquireFailed, NoFlight
  <2>2. \A b \in Actors : flight'[b].worker = flight[b].worker
    BY <1>9, <2>0, <2>1 DEF AcquireFailed
  <2>3. worker' = worker /\ actor' = actor /\ call' = call /\ leaked' = leaked
    BY <1>9 DEF AcquireFailed, records
  <2> HIDE DEF TypeOK, Shapes, Claims
  <2> QED
    BY <2>2, <2>3
<1>10. ASSUME NEW a \in Actors, BootFailed(a)
     PROVE  Accounted'
  <2>1. leaked' = leaked \cup {flight[a].worker}
    BY <1>10 DEF BootFailed
  <2>2. \A b \in Actors \ {a} : flight'[b] = flight[b]
    BY <1>10 DEF BootFailed
  <2>3. worker' = worker /\ actor' = actor /\ call' = call
    BY <1>10 DEF BootFailed, records
  <2> HIDE DEF TypeOK, Shapes, Claims
  <2> QED
    BY <2>1, <2>2, <2>3
<1>11. ASSUME NEW a \in Actors, Booted(a)
     PROVE  Accounted'
  <2>1. flight[a].worker \in Workers
    BY <1>11 DEF Booted
  <2> QED
    BY <1>0, <1>11, <2>1 DEF Booted
<1>12. ASSUME NEW a \in Actors, Captured(a)
     PROVE  Accounted'
  <2>1. flight[a].worker \in Workers
    BY <1>12 DEF Captured
  <2> QED
    BY <1>0, <1>12, <2>1 DEF Captured
<1>13. ASSUME NEW k \in Calls, NEW a \in Actors, NEW op \in {"suspend", "pause"},
              SuspendBegins(k, a, op)
     PROVE  Accounted'
  <2>1. Drains(k, a)
    BY <1>13, SuspendDrains
  <2> HIDE DEF TypeOK, Shapes, Claims
  <2> SUFFICES ASSUME NEW w \in Workers, Registered(w), ~Idle(w), w \notin leaked
               PROVE  InHands(w)'
    BY <2>1 DEF Drains
  <2>2. CASE actor[a].worker = w
    BY <2>1, <2>2 DEF Drains
  <2>3. ASSUME NEW b \in Actors \ {a}, actor[b].status = "running", actor[b].worker = w
        PROVE  InHands(w)'
    BY <2>1, <2>3 DEF Drains
  <2>4. ASSUME NEW b \in Actors, flight[b].worker = w
        PROVE  InHands(w)'
    BY <2>1, <2>4 DEF Drains
  <2>5. ASSUME NEW j \in Calls, call[j].pc = "checkpoint", call[j].worker = w
        PROVE  InHands(w)'
    BY <2>1, <2>5 DEF Drains
  <2> QED
    BY <2>2, <2>3, <2>4, <2>5
<1>14. ASSUME NEW k \in Calls, CheckpointFailed(k)
     PROVE  Accounted'
  <2>1. leaked' = leaked \cup {call[k].worker}
    BY <1>14 DEF CheckpointFailed
  <2>2. \A j \in Calls \ {k} : call'[j] = call[j]
    BY <1>14 DEF CheckpointFailed
  <2>3. worker' = worker /\ actor' = actor /\ flight' = flight
    BY <1>14 DEF CheckpointFailed, records
  <2> HIDE DEF TypeOK, Shapes, Claims
  <2> QED
    BY <2>1, <2>2, <2>3
<1>15. ASSUME NEW k \in Calls, CheckpointedKeepsWarm(k)
     PROVE  Accounted'
  <2>1. Returned(k)
    BY <1>15, CheckpointReturns
  <2> HIDE DEF TypeOK
  <2> SUFFICES ASSUME NEW w \in Workers, Registered(w)', ~Idle(w)'
               PROVE  w \in leaked' \/ InHands(w)'
    BY DEF Accounted
  <2>2. w # call[k].worker /\ worker'[w] = worker[w]
    BY <2>1 DEF Returned
  <2>3. CASE w \in leaked
    BY <2>1, <2>2, <2>3 DEF Returned, Flipped
  <2>4. CASE \E a \in Actors : actor[a].status = "running" /\ actor[a].worker = w
    BY <2>1, <2>2, <2>4 DEF Returned, Flipped
  <2>5. CASE \E a \in Actors : flight[a].worker = w
    BY <2>1, <2>5 DEF Returned
  <2>6. CASE \E j \in Calls : call[j].pc = "checkpoint" /\ call[j].worker = w
    BY <2>1, <2>2, <2>6 DEF Returned, CallEnds
  <2> QED
    BY <2>2, <2>3, <2>4, <2>5, <2>6
<1>16. ASSUME NEW k \in Calls, CheckpointedRetires(k)
     PROVE  Accounted'
  <2>1. Retired(k)
    BY <1>16, CheckpointRetires
  <2> HIDE DEF TypeOK, Shapes, Claims
  <2> SUFFICES ASSUME NEW w \in Workers, Registered(w)', ~Idle(w)'
               PROVE  w \in leaked' \/ InHands(w)'
    BY DEF Accounted
  <2>2. w # call[k].worker /\ worker'[w] = worker[w]
    BY <2>1 DEF Retired, NoRecord
  <2>3. w \in leaked \/ InHands(w)
    BY <2>2
  <2>4. \A j \in Calls : call[j].worker = w => call'[j] = call[j]
    BY <2>1, <2>2 DEF Retired
  <2>5. leaked' = leaked \ {call[k].worker} /\ actor' = actor /\ flight' = flight
    BY <2>1 DEF Retired
  <2> QED
    BY <2>2, <2>3, <2>4, <2>5
<1>17. ASSUME NEW k \in Calls, FlipAfterRetire(k)
     PROVE  Accounted'
  <2>1. FlipEnds(k)
    BY <1>17, RetireReturns
  <2> HIDE DEF TypeOK
  <2> SUFFICES ASSUME NEW w \in Workers, Registered(w)', ~Idle(w)'
               PROVE  w \in leaked' \/ InHands(w)'
    BY DEF Accounted
  <2>2. Registered(w) /\ ~Idle(w) /\ w # call[k].worker
    BY <2>1 DEF FlipEnds
  <2>3. CASE w \in leaked
    BY <2>1, <2>2, <2>3 DEF FlipEnds, Flipped
  <2>4. CASE \E a \in Actors : actor[a].status = "running" /\ actor[a].worker = w
    BY <2>1, <2>2, <2>4 DEF FlipEnds, Flipped
  <2>5. CASE \E a \in Actors : flight[a].worker = w
    BY <2>1, <2>5 DEF FlipEnds
  <2>6. CASE \E j \in Calls : call[j].pc = "checkpoint" /\ call[j].worker = w
    BY <2>1, <2>6 DEF FlipEnds, CallEnds
  <2> QED
    BY <2>2, <2>3, <2>4, <2>5, <2>6
<1>18. ASSUME NEW k \in Calls, FlipCancelled(k)
     PROVE  Accounted'
  BY <1>18 DEF FlipCancelled, NoCall, records
<1>19. ASSUME NEW E \in SUBSET warm, NEW w \in E, SweepTick(E, w)
     PROVE  Accounted'
  <2>1. \A v \in Workers :
           Registered(v)' /\ ~Idle(v)' => Registered(v) /\ ~Idle(v)
    BY <1>19 DEF SweepTick, RetireInto, NoRecord
  <2>2. actor' = actor /\ flight' = flight /\ call' = call /\ leaked' = leaked
    BY <1>19 DEF SweepTick
  <2> HIDE DEF TypeOK, Shapes, Claims, Registered, Idle
  <2> QED
    BY <2>1, <2>2
<1>20. ASSUME NEW w \in Workers, RetireNext(w)
     PROVE  Accounted'
  <2>1. \A v \in Workers :
           Registered(v)' /\ ~Idle(v)' => Registered(v) /\ ~Idle(v)
    BY <1>20 DEF RetireNext, RetireInto, NoRecord
  <2>2. actor' = actor /\ flight' = flight /\ call' = call /\ leaked' = leaked
    BY <1>20 DEF RetireNext
  <2> HIDE DEF TypeOK, Shapes, Claims, Registered, Idle
  <2> QED
    BY <2>1, <2>2
<1>21. ASSUME NEW w \in Workers, CloseWarmPool(w)
     PROVE  Accounted'
  <2>1. \A v \in Workers :
           Registered(v)' /\ ~Idle(v)' => Registered(v) /\ ~Idle(v)
    BY <1>21 DEF CloseWarmPool, RetireInto, NoRecord
  <2>2. actor' = actor /\ flight' = flight /\ call' = call /\ leaked' = leaked
    BY <1>21 DEF CloseWarmPool
  <2> HIDE DEF TypeOK, Shapes, Claims, Registered, Idle
  <2> QED
    BY <2>1, <2>2
<1>22. ASSUME ClosePool PROVE Accounted'
  BY <1>22 DEF ClosePool, records
<1> HIDE DEF TypeOK, Shapes, Claims, Claimed, Accounted, InHands, Registered,
     Idle, Boots, OnDuty, Pending
<1> QED
  BY <1>1, <1>2, <1>3, <1>4, <1>5, <1>6, <1>7, <1>8, <1>9, <1>10, <1>11,
     <1>12, <1>13, <1>14, <1>15, <1>16, <1>17, <1>18, <1>19, <1>20, <1>21,
     <1>22
     DEF Next, Lifecycle, ResumeSteps, CallSteps, PoolSteps


(* A worker that a binding names is released only by a call that drops the     *)
(* binding, and claimed by nobody else meanwhile.                           *)
LEMMA AboardStep ==
    ASSUME TypeOK, Shapes, Claims, Present, WarmIsIdle, BoundAboard, Next
    PROVE  BoundAboard'
<1> USE OrchestratorAssumption DEF Registered, OnWorker, BoundAboard
<1>0. /\ \A w \in stolen : ~Registered(w)
      /\ \A w \in warm : worker[w].sandbox # None /\ worker[w].host = None
      /\ \A a \in Actors : route[a] \in Workers \cup {None}
      /\ DOMAIN worker = Workers /\ DOMAIN route = Actors
      /\ warm \subseteq Workers /\ None \notin Actors
  BY DEF Present, WarmIsIdle, Idle, TypeOK
<1>20. ASSUME route' = route, worker' = worker, stolen' = stolen
       PROVE  BoundAboard'
  BY <1>20
<1>21. ASSUME NEW a \in Actors, route' = [route EXCEPT ![a] = None], worker' = worker,
              stolen' = stolen
       PROVE  BoundAboard'
  BY <1>0, <1>21
<1>22. ASSUME NEW a \in Actors, NEW w \in Workers, Boards(a, w)
       PROVE  BoundAboard'
  <2> SUFFICES ASSUME NEW b \in Actors, route[b] # None
               PROVE  (OnWorker(b, route[b]) \/ route[b] \in stolen)'
    BY <1>22 DEF Boards
  <2>1. route[b] # w
    BY <1>0, <1>22 DEF Boards, Idle, FreshIds
  <2> QED
    BY <1>0, <1>22, <2>1 DEF Boards
<1>23. ASSUME NEW a \in Actors, flight[a].worker \in Workers, FinalizeRunning(a),
              worker' = worker, stolen' = stolen
       PROVE  BoundAboard'
  <2>1. Finalized(a)
    BY <1>23, FinalizeMoves
  <2>2. OnWorker(a, flight[a].worker) \/ flight[a].worker \in stolen
    BY <1>23 DEF Claims, Claimed, Present
  <2>3. route' = [route EXCEPT ![a] = flight[a].worker] \/ route' = route
    BY <2>1 DEF Finalized
  <2> QED
    BY <1>0, <1>23, <2>2, <2>3
<1>24. ASSUME NEW w \in Workers, RetireInto(w), route' = route,
              stolen' = IF Registered(w) /\ ~Idle(w) THEN stolen \cup {w} ELSE stolen
       PROVE  BoundAboard'
  <2>1. \A v \in Workers \ {w} : worker'[v] = worker[v]
    BY <1>0, <1>24 DEF RetireInto
  <2>2. \A b \in Actors : OnWorker(b, w) => w \in stolen'
    BY <1>0, <1>24 DEF Idle
  <2> QED
    BY <1>0, <1>24, <2>1, <2>2
<1>1. ASSUME NEW a \in Actors, Lifecycle(a)
      PROVE  BoundAboard'
  BY <1>1, <1>20, <1>21 DEF Lifecycle, CreateActor, DeleteActor, MarkCrashed
<1>2. ASSUME NEW a \in Actors, ResumeSteps(a)
      PROVE  BoundAboard'
  <2>1. CASE \/ Resume(a) \/ ResumeRefused(a) \/ NeedSandbox(a) \/ AcquireFailed(a)
             \/ BootFailed(a)
    BY <1>20, <2>1 DEF Resume, ResumeRefused, NeedSandbox, AcquireFailed, BootFailed, records
  <2>2. CASE \E w \in Workers : ClaimIdle(a, w) \/ \E s \in Sandboxes : ClaimFresh(a, s, w)
    BY <1>22, <2>2, ClaimBoards
  <2>3. CASE Booted(a) \/ Captured(a)
    <3>1. flight[a].worker \in Workers
      BY <2>3, Fields DEF Booted, Captured, Shapes, Boots
    <3> QED
      BY <1>23, <2>3, <3>1 DEF Booted, Captured
  <2> QED
    BY <1>2, <2>1, <2>2, <2>3 DEF ResumeSteps
<1>3. ASSUME NEW k \in Calls, CallSteps(k)
      PROVE  BoundAboard'
  <2>1. CASE \/ \E a \in Actors, op \in {"suspend", "pause"} : SuspendBegins(k, a, op)
             \/ CheckpointFailed(k) \/ FlipAfterRetire(k) \/ FlipCancelled(k)
    BY <1>20, <2>1 DEF SuspendBegins, CheckpointFailed, FlipAfterRetire, FlipCancelled,
                       records
  <2> DEFINE a == call[k].actor
             w == call[k].worker
  <2>2. ASSUME call[k].pc = "checkpoint", a \in Actors, w \in Workers, Unbound(a),
               \A v \in Workers \ {w} : worker'[v] = worker[v],
               worker[w].sandbox = None => worker'[w].sandbox = None, stolen' = stolen
        PROVE  BoundAboard'
    <3> SUFFICES ASSUME NEW b \in Actors, route'[b] # None
                 PROVE  (OnWorker(b, route[b]) \/ route[b] \in stolen)'
      BY <2>2
    <3>1. b # a /\ route'[b] = route[b]
      BY <2>2 DEF Unbound
    <3>2. Registered(w) => worker[w].host = a
      BY <2>2 DEF Claims, Claimed
    <3> QED
      BY <1>0, <2>2, <3>1, <3>2
  <2>3. CASE CheckpointedKeepsWarm(k)
    <3>1. Returned(k)
      BY <2>3, CheckpointReturns
    <3>2. /\ call[k].pc = "checkpoint" /\ a \in Actors /\ w \in Workers /\ Unbound(a)
          /\ \A v \in Workers \ {w} : worker'[v] = worker[v]
          /\ worker'[w].sandbox = worker[w].sandbox /\ stolen' = stolen
      BY <3>1 DEF Returned
    <3> QED
      BY <2>2, <3>2
  <2>4. CASE CheckpointedRetires(k)
    <3>1. Retired(k)
      BY <2>4, CheckpointRetires
    <3> QED
      BY <2>2, <3>1 DEF Retired
  <2> QED
    BY <1>3, <2>1, <2>3, <2>4 DEF CallSteps
<1>4. ASSUME PoolSteps
      PROVE  BoundAboard'
  <2>1. CASE ClosePool
    BY <1>20, <2>1 DEF ClosePool, records
  <2>2. ASSUME NEW w \in Workers, RetireNext(w)
        PROVE  BoundAboard'
    BY <1>24, <2>2 DEF RetireNext
  <2>3. ASSUME NEW w \in warm, RetireInto(w), route' = route, stolen' = stolen
        PROVE  BoundAboard'
    BY <1>0, <1>24, <2>3 DEF Idle
  <2>4. CASE \E w \in Workers : CloseWarmPool(w)
    BY <2>3, <2>4 DEF CloseWarmPool
  <2>5. CASE \E E \in SUBSET warm : \E w \in E : SweepTick(E, w)
    BY <2>3, <2>5 DEF SweepTick
  <2> QED
    BY <1>4, <2>1, <2>2, <2>4, <2>5 DEF PoolSteps
<1> QED
  BY <1>1, <1>2, <1>3, <1>4 DEF Next

(***************************************************************************)
(* The theorems.                                                           *)
(***************************************************************************)

LEMMA InitIInv == Init => IInv
<1> SUFFICES ASSUME Init
             PROVE  IInv
  OBVIOUS
<1> USE OrchestratorAssumption DEF Init, Absent, NoRecord, NoFlight, NoCall, Exists,
                                   Registered, Idle, Boots, OnDuty, Pending
<1>1. TypeOK
  <2>1. golden \in BOOLEAN /\ closed \in BOOLEAN
    BY Zenon
  <2>2. flight \in [Actors -> [pc : FlightPc, ver : Nat, snap : BOOLEAN,
                               worker : Workers \cup {None}]]
    BY DEF FlightPc
  <2>3. actor \in [Actors -> ActorRecord] /\ call \in [Calls -> CallRecord]
    BY DEF ActorRecord, CallRecord, Status, CallPc
  <2> QED
    BY <2>1, <2>2, <2>3 DEF TypeOK, ActorRecord, CallRecord
<1>2. Shapes /\ Claims /\ Apart
  BY DEF Shapes, Claims, Claimed, Apart
<1>3. Present /\ Fresh /\ Versions
  BY DEF Present, Fresh, Versions
<1>4. SandboxAccounting /\ BoundOnDuty /\ BoundAboard /\ IdleIsWarm /\ Accounted
  BY DEF SandboxAccounting, BoundOnDuty, BoundAboard, IdleIsWarm, Accounted
<1>5. WarmIsIdle
  BY FS_EmptySet DEF WarmIsIdle
<1> QED
  BY <1>1, <1>2, <1>3, <1>4, <1>5 DEF IInv

(* All the parts above hold always.                                        *)
THEOREM Invariant == Spec => []IInv
<1>1. Init => IInv
  BY InitIInv
<1>2. IInv /\ [Next]_vars => IInv'
  <2>1. ASSUME IInv, Next
        PROVE  IInv'
    <3>1. TypeOK' /\ Shapes' /\ Fresh'
      BY <2>1, TypeStep, RecordStep DEF IInv
    <3>2. Claims' /\ Apart' /\ Present'
      BY <2>1, ClaimStep, ApartStep, PresentStep DEF IInv
    <3>3. Versions' /\ BoundOnDuty' /\ BoundAboard'
      BY <2>1, VersionStep, RouteStep, AboardStep DEF IInv
    <3>4. SandboxAccounting' /\ IdleIsWarm' /\ Accounted'
      BY <2>1, SandboxStep, IdleStep, AccountStep DEF IInv
    <3>5. WarmIsIdle'
      BY <2>1, <3>1, WarmIsIdleStep DEF IInv
    <3> QED
      BY <3>1, <3>2, <3>3, <3>4, <3>5 DEF IInv
  <2>2. ASSUME IInv, UNCHANGED vars
        PROVE  IInv'
    <3> USE <2>2 DEF vars, IInv, Exists, Registered, Idle, Boots, OnDuty, Pending
    <3>1. TypeOK' /\ Shapes' /\ Fresh'
      BY DEF TypeOK, Shapes, Fresh
    <3>2. Claims' /\ Apart' /\ Present'
      BY DEF Claims, Claimed, Apart, Present
    <3>3. Versions' /\ BoundOnDuty' /\ BoundAboard'
      BY DEF Versions, BoundOnDuty, BoundAboard, OnWorker
    <3>4. SandboxAccounting' /\ IdleIsWarm' /\ Accounted' /\ WarmIsIdle'
      BY DEF SandboxAccounting, IdleIsWarm, Accounted, InHands, WarmIsIdle
    <3> QED
      BY <3>1, <3>2, <3>3, <3>4
  <2> QED
    BY <2>1, <2>2
<1> QED
  BY <1>1, <1>2, PTL DEF Spec

(* Every record, flight and call keeps its type.                            *)
THEOREM OrchestratorTypes == Spec => []TypeOK
<1>1. IInv => TypeOK
  BY DEF IInv
<1> QED
  BY <1>1, Invariant, PTL

(* A RUNNING actor is on a worker that is claimed for it, unless a sweep has   *)
(* retired the worker it found idle (resume_actor, suspend_actor, the sweeper). *)
THEOREM RunningActorHasWorker == Spec => []RunningHasWorker
<1>1. IInv => RunningHasWorker
  BY DEF IInv, Shapes, Claims, Claimed, Present, RunningHasWorker, OnWorker
<1> QED
  BY <1>1, Invariant, PTL

(* So is an actor whose worker is being restored or booted (_ClaimWorkerStep).  *)
THEOREM BootingActorHasWorker == Spec => []FlightHasWorker
<1>1. IInv => FlightHasWorker
  BY DEF IInv, Claims, Claimed, Present, FlightHasWorker, OnWorker
<1> QED
  BY <1>1, Invariant, PTL

(* A binding names a worker that is claimed for its own actor, unless a sweep    *)
(* has stolen it, and the worker its record names where the id is not reused    *)
(* (_FinalizeRunningStep, suspend_actor, release_worker, mark_crashed).         *)
THEOREM RoutesLeadToOwnWorker == Spec => []RoutedToOwnWorker
<1>1. IInv => RoutedToOwnWorker
  BY DEF IInv, BoundOnDuty, BoundAboard, RoutedToOwnWorker
<1> QED
  BY <1>1, Invariant, PTL

(* While the pool is open, an idle worker is listed or about to be retired      *)
(* (release_worker, _sweep_once).                                          *)
THEOREM IdleWorkersAreListed == Spec => []IdleIsWarm
<1>1. IInv => IdleIsWarm
  BY DEF IInv
<1> QED
  BY <1>1, Invariant, PTL

(* A claimed worker is used by some actor, or a failure or a conflict has leaked *)
(* it: no path that succeeds forgets one.                                   *)
THEOREM ClaimsAreAccounted == Spec => []ClaimIsAccounted
<1>1. IInv => ClaimIsAccounted
  <2> SUFFICES ASSUME IInv, NEW w \in Workers, w \notin leaked, Registered(w), ~Idle(w)
               PROVE  \E a \in Actors : w \in Uses(a)
    BY DEF ClaimIsAccounted
  <2>1. w # None /\ InHands(w)
    BY OrchestratorAssumption DEF IInv, Accounted
  <2>2. CASE \E a \in Actors : actor[a].worker = w \/ flight[a].worker = w
    BY <2>1, <2>2 DEF Uses
  <2>3. ASSUME NEW k \in Calls, call[k].pc = "checkpoint", call[k].worker = w
        PROVE  call[k].actor \in Actors /\ w \in Uses(call[k].actor)
    BY <2>1, <2>3 DEF IInv, Shapes, Pending, Uses
  <2> QED
    BY <2>1, <2>2, <2>3 DEF InHands
<1> QED
  BY <1>1, Invariant, PTL

(* Two actors never share a worker, in their records, resumes and checkpoints   *)
(* together (Scheduler.pick, WorkerStore.claim).                            *)
THEOREM OneUserPerWorker == Spec => []WorkerHasOneUser
<1>1. IInv => WorkerHasOneUser
  BY DEF IInv, Shapes, Pending, Apart, WorkerHasOneUser, Uses
<1> QED
  BY <1>1, Invariant, PTL

(* A sandbox is in the pool or under one worker record (WorkerPool._retire).   *)
THEOREM SandboxesAreAccounted == Spec => []SandboxAccounting
<1>1. IInv => SandboxAccounting
  BY DEF IInv
<1> QED
  BY <1>1, Invariant, PTL

(* The registry lists idle workers only, at most max_warm_idle of them.        *)
THEOREM WarmWorkersAreIdle == Spec => []WarmIsIdle
<1>1. IInv => WarmIsIdle
  BY DEF IInv
<1> QED
  BY <1>1, Invariant, PTL

(* The worker a suspend or pause checkpoints: while it has a record, that is   *)
(* the one the call claimed, at the version it read before.                 *)
ReleaseFindsItsRecord ==
    \A k \in Calls : call[k].pc = "checkpoint" =>
        LET w == call[k].worker IN
        Registered(w) => worker[w].host = call[k].actor /\ worker[w].ver = call[k].wver

(* release_worker, called when a checkpoint returns with the record read before *)
(* it, never meets the VersionConflict its store would raise and that nothing  *)
(* in suspend_actor or pause_actor catches: at worst the record is gone.      *)
THEOREM ReleaseNeverConflicts == Spec => []ReleaseFindsItsRecord
<1>1. IInv => ReleaseFindsItsRecord
  BY DEF IInv, Claims, Claimed, ReleaseFindsItsRecord
<1> QED
  BY <1>1, Invariant, PTL

(* The last compare-and-swap of a resume, suspend or pause that the store       *)
(* accepts finds the state its own first one wrote, where ids are not reused. *)
FinishesMeetTheirOwnState ==
    /\ \A a \in Actors \ Reused :
          Exists(a) /\ flight[a].pc \in Boots /\ Accepts(a, flight[a].ver) =>
              actor[a].status = "resuming"
    /\ \A k \in Calls :
          LET a == call[k].actor IN
          Pending(k) /\ a \notin Reused /\ Exists(a) /\ Accepts(a, call[k].ver) =>
              actor[a].status \in {"suspending", "pausing"}

(* So a write that comes late, after a crash was marked or another call began,  *)
(* is refused and overwrites nobody's state (_FinalizeRunningStep, the final   *)
(* put of suspend_actor and pause_actor).                                   *)
THEOREM LateWritesOverwriteNothing == Spec => []FinishesMeetTheirOwnState
<1>1. IInv => FinishesMeetTheirOwnState
  BY DEF IInv, Versions, Accepts, Boots, Pending, FinishesMeetTheirOwnState
<1> QED
  BY <1>1, Invariant, PTL
================================================================================
