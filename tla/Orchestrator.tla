----------------------------- MODULE Orchestrator -----------------------------
(***************************************************************************)
(* The actor lifecycle of _orchestration/: the Orchestrator façade         *)
(* (orchestrator.py) over the in-memory actor and worker stores            *)
(* (store.py), the WorkerPool (worker_pool.py), the router and the         *)
(* singleflight that collapses the resumes of one actor.                   *)
(*                                                                         *)
(* Everything runs on one event loop, and the calls into the in-memory     *)
(* stores and the router never suspend.  A step is therefore what a task   *)
(* does between two real suspension points: the start of the singleflight  *)
(* leader, SandboxPool.acquire, a checkpoint, a restore, and the           *)
(* SandboxPool.release of a retired worker.                                *)
(***************************************************************************)
EXTENDS Integers, FiniteSets

CONSTANTS
    Actors,       \* actor refs (namespace, actor_id)
    Workers,      \* worker ids
    Sandboxes,    \* sandboxes of the SandboxPool
    Calls,        \* concurrent suspend_actor / pause_actor calls
    None,         \* no worker, no sandbox, no actor
    Reused,       \* actor ids that are created again (once) after a delete
    Picky,        \* actors whose selector no worker's labels satisfy
    MaxWarmIdle,  \* max_warm_idle
    MaxVersion,   \* bound: operations start below this actor version, and
                  \* idle workers of this version are passed over
    MaxReused     \* the bound on the actor version where the id is reused

ASSUME OrchestratorAssumption ==
    /\ Picky \subseteq Actors /\ Reused \subseteq Actors
    /\ None \notin Actors \cup Workers \cup Sandboxes
    /\ MaxWarmIdle \in Nat
    /\ MaxVersion \in Nat /\ MaxReused \in Nat
    /\ IsFiniteSet(Workers)

VARIABLES
    actor,   \* the ActorStore: [status, ver, worker, snap], "absent" is no record
    born,    \* bound: how often each actor id has been created
    worker,  \* the WorkerStore: [sandbox, ver, host], sandbox None is no record
    warm,    \* _warm_idle_since: worker ids in the warm-idle registry
    pooled,  \* sandboxes in the hands of the SandboxPool
    route,   \* the router's binding of each actor, a worker id or None
    golden,  \* has a golden snapshot of the template been captured?
    flight,  \* the resume workflow in flight for each actor
    call,    \* the suspend / pause calls
    retiring,\* ids a sweep or aclose has unlisted and not yet retired
    closed,  \* WorkerPool._closed
    leaked,  \* history: workers a failure left claimed with nobody on them
    stolen   \* history: workers a sweep retired after they were claimed again

vars == <<actor, born, worker, warm, pooled, route, golden, flight, call,
          retiring, closed, leaked, stolen>>
records == <<actor, born, worker, warm, pooled, route, golden>>

Status == {"absent", "suspended", "resuming", "running", "suspending",
           "pausing", "paused", "crashed"}
FlightPc == {"idle",     \* no flight for this actor
             "start",    \* the leader task is created, not running yet
             "acquire",  \* awaiting SandboxPool.acquire
             "restore",  \* restoring the actor's own snapshot
             "golden",   \* restoring the template's golden snapshot
             "capture"}  \* cold-booted, capturing the golden snapshot
CallPc == {"idle", "checkpoint",
           "flip"}       \* its retired sandbox is being released to the pool

Absent == [status |-> "absent", ver |-> 0, worker |-> None, snap |-> FALSE]
NoRecord == [sandbox |-> None, ver |-> 0, host |-> None]
NoFlight == [pc |-> "idle", ver |-> 0, snap |-> FALSE, worker |-> None]
NoCall == [op |-> "suspend", pc |-> "idle", actor |-> None, ver |-> 0,
           worker |-> None, wver |-> 0]

Exists(a) == actor[a].status # "absent"
Spent(a) == actor[a].ver >= IF a \in Reused THEN MaxReused ELSE MaxVersion
Registered(w) == worker[w].sandbox # None
Idle(w) == Registered(w) /\ worker[w].host = None

(* list_idle and Scheduler.pick: any idle worker that satisfies the         *)
(* actor's constraints.  A definition X_Y is a variant of X with one fault  *)
(* Y; no specification uses it.                                            *)
Eligible_Busy(a) == {w \in Workers : Registered(w) /\ worker[w].ver < MaxVersion}
Eligible(a) == IF a \in Picky THEN {}
               ELSE {w \in Workers : Idle(w) /\ worker[w].ver < MaxVersion}

(* uuid4 ids: a new worker's id is one nothing refers to. *)
FreshIds == {w \in Workers :
    /\ ~Registered(w) /\ w \notin warm \cup retiring
    /\ \A a \in Actors : w \notin {actor[a].worker, route[a], flight[a].worker}
    /\ \A k \in Calls : w # call[k].worker}

(* ActorStore.put accepts a write that expects version v. *)
Accepts_AnyVersion(a, v) == Exists(a)
Accepts(a, v) == Exists(a) /\ actor[a].ver = v

Init ==
    /\ actor = [a \in Actors |-> Absent]
    /\ born = [a \in Actors |-> 0]
    /\ worker = [w \in Workers |-> NoRecord]
    /\ warm = {} /\ pooled = Sandboxes
    /\ route = [a \in Actors |-> None]
    /\ golden = FALSE
    /\ flight = [a \in Actors |-> NoFlight]
    /\ call = [k \in Calls |-> NoCall]
    /\ retiring = {} /\ closed = FALSE /\ leaked = {} /\ stolen = {}

-----------------------------------------------------------------------------
(* Actor records                                                           *)

CreateActor(a) ==
    /\ ~Exists(a) /\ born[a] < IF a \in Reused THEN 2 ELSE 1
    /\ born' = [born EXCEPT ![a] = @ + 1]
    /\ actor' = [actor EXCEPT ![a] = [status |-> "suspended", ver |-> 1,
                                      worker |-> None, snap |-> FALSE]]
    /\ UNCHANGED <<worker, warm, pooled, route, golden, flight, call,
                   retiring, closed, leaked, stolen>>

(* delete_actor: the flip to DELETING and the removal are one step, for     *)
(* nothing suspends between them.  A worker the record names is forgotten.  *)
DeleteActor_LeavesRecord(a) ==
    /\ Exists(a) /\ actor[a].status \notin {"running", "resuming"}
    /\ actor' = [actor EXCEPT ![a].status = "deleting", ![a].ver = @ + 1]
    /\ route' = [route EXCEPT ![a] = None]
    /\ UNCHANGED <<born, worker, warm, pooled, golden, flight, call, retiring,
                   closed, leaked, stolen>>
DeleteActor(a) ==
    /\ Exists(a) /\ actor[a].status \notin {"running", "resuming"}
    /\ actor' = [actor EXCEPT ![a] = Absent]
    /\ route' = [route EXCEPT ![a] = None]
    /\ leaked' = leaked \cup ({actor[a].worker} \ {None})
    /\ UNCHANGED <<born, worker, warm, pooled, golden, flight, call, retiring,
                   closed, stolen>>

(* mark_crashed, from any status; the worker keeps its assignment.          *)
MarkCrashed_KeepsRoute(a) ==
    /\ Exists(a) /\ ~Spent(a)
    /\ actor' = [actor EXCEPT ![a].status = "crashed", ![a].ver = @ + 1,
                              ![a].worker = None]
    /\ leaked' = leaked \cup ({actor[a].worker} \ {None})
    /\ UNCHANGED <<born, worker, warm, pooled, route, golden, flight, call,
                   retiring, closed, stolen>>
MarkCrashed(a) ==
    /\ Exists(a) /\ ~Spent(a)
    /\ actor' = [actor EXCEPT ![a].status = "crashed", ![a].ver = @ + 1,
                              ![a].worker = None]
    /\ route' = [route EXCEPT ![a] = None]
    /\ leaked' = leaked \cup ({actor[a].worker} \ {None})
    /\ UNCHANGED <<born, worker, warm, pooled, golden, flight, call, retiring,
                   closed, stolen>>

-----------------------------------------------------------------------------
(* resume_actor.  A call for an actor whose flight is up joins it and       *)
(* changes nothing here; otherwise it creates the leader task.             *)

Resume(a) ==
    /\ Exists(a) /\ ~Spent(a)
    /\ flight[a].pc = "idle"
    /\ flight' = [flight EXCEPT ![a] = [NoFlight EXCEPT !.pc = "start"]]
    /\ UNCHANGED <<records, call, retiring, closed, leaked, stolen>>

(* The leader finds the actor gone, running already (its assignment is      *)
(* returned) or in a state no resume starts from, and the flight ends.     *)
ResumeRefused(a) ==
    /\ flight[a].pc = "start"
    /\ ~Exists(a) \/ actor[a].status \in {"running", "suspending", "pausing"}
    /\ flight' = [flight EXCEPT ![a] = NoFlight]
    /\ UNCHANGED <<records, call, retiring, closed, leaked, stolen>>

Resumable(a) ==
    /\ flight[a].pc = "start"
    /\ actor[a].status \in {"suspended", "paused", "crashed", "resuming"}

Resuming(a) == [actor EXCEPT ![a].status = "resuming", ![a].ver = @ + 1]

(* _RestoreOrBootStep: what is awaited once a worker is claimed. *)
BootPc(snap) == IF snap THEN "restore" ELSE IF golden THEN "golden" ELSE "capture"

(* _ClaimWorkerStep on the warm path: RESUMING, pick, unlist and claim.     *)
ClaimIdle_StaysListed(a, w) ==
    /\ Resumable(a) /\ w \in Eligible(a)
    /\ actor' = Resuming(a)
    /\ worker' = [worker EXCEPT ![w].ver = @ + 1, ![w].host = a]
    /\ flight' = [flight EXCEPT ![a] = [pc |-> BootPc(actor[a].snap),
                     ver |-> actor[a].ver + 1, snap |-> actor[a].snap, worker |-> w]]
    /\ UNCHANGED <<born, warm, pooled, route, golden, call, retiring, closed,
                   leaked, stolen>>
ClaimIdle(a, w) ==
    /\ Resumable(a) /\ w \in Eligible(a)
    /\ actor' = Resuming(a)
    /\ warm' = warm \ {w}
    /\ worker' = [worker EXCEPT ![w].ver = @ + 1, ![w].host = a]
    /\ flight' = [flight EXCEPT ![a] = [pc |-> BootPc(actor[a].snap),
                     ver |-> actor[a].ver + 1, snap |-> actor[a].snap, worker |-> w]]
    /\ UNCHANGED <<born, pooled, route, golden, call, retiring, closed, leaked,
                   stolen>>

(* No idle worker will do: RESUMING, and a sandbox is asked for. *)
NeedSandbox(a) ==
    /\ Resumable(a) /\ Eligible(a) = {}
    /\ actor' = Resuming(a)
    /\ flight' = [flight EXCEPT ![a] = [pc |-> "acquire", worker |-> None,
                     ver |-> actor[a].ver + 1, snap |-> actor[a].snap]]
    /\ UNCHANGED <<born, worker, warm, pooled, route, golden, call, retiring,
                   closed, leaked, stolen>>

(* SandboxPool.acquire returned: register the worker and claim it. *)
ClaimFresh(a, s, w) ==
    /\ flight[a].pc = "acquire" /\ s \in pooled /\ w \in FreshIds
    /\ pooled' = pooled \ {s}
    /\ worker' = [worker EXCEPT ![w] = [sandbox |-> s, ver |-> 2, host |-> a]]
    /\ flight' = [flight EXCEPT ![a].pc = BootPc(flight[a].snap), ![a].worker = w]
    /\ leaked' = leaked \ {w} /\ stolen' = stolen \ {w}
    /\ UNCHANGED <<born, actor, warm, route, golden, call, retiring, closed>>

(* acquire timed out or raised, or the leader was cancelled in it: nothing  *)
(* puts the actor back from RESUMING.                                      *)
AcquireFailed(a) ==
    /\ flight[a].pc = "acquire"
    /\ flight' = [flight EXCEPT ![a] = NoFlight]
    /\ UNCHANGED <<records, call, retiring, closed, leaked, stolen>>

(* The restore raised (of the golden snapshot: with something else than a   *)
(* CheckpointError), or the leader was cancelled: the workflow stops and    *)
(* the claimed worker is not released.                                     *)
BootFailed(a) ==
    /\ flight[a].pc \in {"restore", "golden", "capture"}
    /\ flight' = [flight EXCEPT ![a] = NoFlight]
    /\ leaked' = leaked \cup {flight[a].worker}
    /\ UNCHANGED <<records, call, retiring, closed, stolen>>

(* _FinalizeRunningStep, at once when the boot ends: the CAS to RUNNING and *)
(* the binding; on a conflict the workflow raises and the worker stays      *)
(* claimed.                                                                *)
FinalizeRunning(a) ==
    LET w == flight[a].worker IN
    /\ flight' = [flight EXCEPT ![a] = NoFlight]
    /\ IF Accepts(a, flight[a].ver) /\ actor[a].status # "running"
       THEN /\ actor' = [actor EXCEPT ![a] = [status |-> "running",
                            ver |-> @.ver + 1, worker |-> w, snap |-> flight[a].snap]]
            /\ route' = [route EXCEPT ![a] = w]
            /\ UNCHANGED leaked
       ELSE /\ leaked' = leaked \cup {w}
            /\ UNCHANGED <<actor, route>>

(* The restore ended, or the golden snapshot was missing and the worker is  *)
(* used as it is, or the capture failed (which is only logged).            *)
Booted(a) ==
    /\ flight[a].pc \in {"restore", "golden", "capture"}
    /\ FinalizeRunning(a)
    /\ UNCHANGED <<born, worker, warm, pooled, golden, call, retiring, closed,
                   stolen>>

Captured(a) ==
    /\ flight[a].pc = "capture"
    /\ golden' = TRUE
    /\ FinalizeRunning(a)
    /\ UNCHANGED <<born, worker, warm, pooled, call, retiring, closed, stolen>>

-----------------------------------------------------------------------------
(* suspend_actor and pause_actor                                           *)

FlipStatus(op) == IF op = "suspend" THEN "suspended" ELSE "paused"

(* The CAS to SUSPENDING / PAUSING; a worker record that is gone raises and *)
(* leaves the actor there, otherwise the checkpoint is awaited.            *)
SuspendBegins(k, a, op) ==
    LET w == actor[a].worker IN
    /\ call[k].pc = "idle"
    /\ actor[a].status = "running" /\ ~Spent(a)
    /\ actor' = [actor EXCEPT
         ![a].status = IF op = "suspend" THEN "suspending" ELSE "pausing",
         ![a].ver = @ + 1]
    /\ call' = IF Registered(w)
               THEN [call EXCEPT ![k] = [op |-> op, pc |-> "checkpoint",
                       actor |-> a, ver |-> actor[a].ver + 1,
                       worker |-> w, wver |-> worker[w].ver]]
               ELSE call
    /\ UNCHANGED <<born, worker, warm, pooled, route, golden, flight, retiring,
                   closed, leaked, stolen>>

(* The checkpoint raised or the call was cancelled in it: the actor stays   *)
(* SUSPENDING / PAUSING and the worker claimed.                            *)
CheckpointFailed(k) ==
    /\ call[k].pc = "checkpoint"
    /\ call' = [call EXCEPT ![k] = NoCall]
    /\ leaked' = leaked \cup {call[k].worker}
    /\ UNCHANGED <<records, flight, retiring, closed, stolen>>

(* The last write: SUSPENDED / PAUSED with the new snapshot, no worker.  A  *)
(* conflict is logged (suspend) or raised (pause), a missing record raises. *)
(* The record written over may be one of another incarnation.              *)
Flip(k) ==
    LET c == call[k] IN
    /\ actor' = IF Accepts(c.actor, c.ver)
                THEN [actor EXCEPT ![c.actor] = [status |-> FlipStatus(c.op),
                         ver |-> @.ver + 1, worker |-> None, snap |-> TRUE]]
                ELSE actor
    /\ leaked' = (IF Accepts(c.actor, c.ver)
                  THEN leaked \cup ({actor[c.actor].worker} \ {None})
                  ELSE leaked) \ {c.worker}

WarmRoom_OffByOne == Cardinality(warm) <= MaxWarmIdle
WarmRoom == Cardinality(warm) < MaxWarmIdle

(* The checkpoint is durable and the binding dropped; release_worker finds  *)
(* the record gone (and does nothing), or a version it does not expect (and *)
(* raises), or keeps the worker warm.                                      *)
CheckpointedKeepsWarm_NotListed(k) ==
    LET w == call[k].worker IN
    /\ call[k].pc = "checkpoint"
    /\ Registered(w) /\ worker[w].ver = call[k].wver /\ WarmRoom
    /\ route' = [route EXCEPT ![call[k].actor] = None]
    /\ worker' = [worker EXCEPT ![w].host = None, ![w].ver = @ + 1]
    /\ Flip(k)
    /\ call' = [call EXCEPT ![k] = NoCall]
    /\ UNCHANGED <<born, warm, pooled, golden, flight, retiring, closed,
                   stolen>>
CheckpointedKeepsWarm_NotReleased(k) ==
    /\ call[k].pc = "checkpoint"
    /\ route' = [route EXCEPT ![call[k].actor] = None]
    /\ Flip(k)
    /\ call' = [call EXCEPT ![k] = NoCall]
    /\ UNCHANGED <<born, worker, warm, pooled, golden, flight, retiring, closed,
                   stolen>>
CheckpointedKeepsWarm(k) ==
    LET w == call[k].worker
        ours == Registered(w) /\ worker[w].ver = call[k].wver IN
    /\ call[k].pc = "checkpoint"
    /\ ours => WarmRoom
    /\ route' = [route EXCEPT ![call[k].actor] = None]
    /\ IF ours
       THEN /\ worker' = [worker EXCEPT ![w].host = None, ![w].ver = @ + 1]
            /\ warm' = warm \cup {w}
       ELSE UNCHANGED <<worker, warm>>
    /\ IF Registered(w) /\ ~ours THEN UNCHANGED <<actor, leaked>> ELSE Flip(k)
    /\ call' = [call EXCEPT ![k] = NoCall]
    /\ UNCHANGED <<born, pooled, golden, flight, retiring, closed, stolen>>

(* _retire: the record is deleted and the sandbox released to the pool. *)
RetireInto(w) ==
    /\ worker' = [worker EXCEPT ![w] = NoRecord]
    /\ pooled' = pooled \cup ({worker[w].sandbox} \ {None})

(* ... or retires it, its sandbox being dead or the warm registry full.     *)
CheckpointedRetires_KeepsSandbox(k) ==
    LET w == call[k].worker IN
    /\ call[k].pc = "checkpoint"
    /\ Registered(w) /\ worker[w].ver = call[k].wver
    /\ route' = [route EXCEPT ![call[k].actor] = None]
    /\ worker' = [worker EXCEPT ![w] = NoRecord]
    /\ call' = [call EXCEPT ![k].pc = "flip"]
    /\ leaked' = leaked \ {w}
    /\ UNCHANGED <<born, actor, warm, pooled, golden, flight, retiring, closed,
                   stolen>>
CheckpointedRetires(k) ==
    LET w == call[k].worker IN
    /\ call[k].pc = "checkpoint"
    /\ Registered(w) /\ worker[w].ver = call[k].wver
    /\ route' = [route EXCEPT ![call[k].actor] = None]
    /\ RetireInto(w)
    /\ call' = [call EXCEPT ![k].pc = "flip"]
    /\ leaked' = leaked \ {w}
    /\ UNCHANGED <<born, actor, warm, golden, flight, retiring, closed, stolen>>

(* The sandbox is back in the pool: the last write. *)
FlipAfterRetire(k) ==
    /\ call[k].pc = "flip"
    /\ Flip(k)
    /\ call' = [call EXCEPT ![k] = NoCall]
    /\ UNCHANGED <<born, worker, warm, pooled, route, golden, flight, retiring,
                   closed, stolen>>

(* The call is cancelled while the pool closes or takes back the sandbox. *)
FlipCancelled(k) ==
    /\ call[k].pc = "flip"
    /\ call' = [call EXCEPT ![k] = NoCall]
    /\ UNCHANGED <<records, flight, retiring, closed, leaked, stolen>>

-----------------------------------------------------------------------------
(* WorkerPool: the retire sweeper and aclose                               *)

(* _sweep_once unlists the expired workers E and retires the first at once; *)
(* SandboxPool.release may suspend before the next one.                    *)
SweepTick(E, w) ==
    /\ ~closed /\ retiring = {} /\ w \in E
    /\ warm' = warm \ E
    /\ RetireInto(w)
    /\ retiring' = E \ {w}
    /\ UNCHANGED <<born, actor, route, golden, flight, call, closed, leaked,
                   stolen>>

(* The next one is looked up again, and retired whatever became of it. *)
RetireNext(w) ==
    /\ w \in retiring
    /\ warm' = IF Registered(w) THEN warm \ {w} ELSE warm
    /\ RetireInto(w)
    /\ retiring' = retiring \ {w}
    /\ stolen' = IF Registered(w) /\ ~Idle(w) THEN stolen \cup {w} ELSE stolen
    /\ UNCHANGED <<born, actor, route, golden, flight, call, closed, leaked>>

(* aclose cancels the sweeper, which forgets what it had still to retire,   *)
(* unlists every warm worker and retires them in the same way.             *)
ClosePool ==
    /\ ~closed /\ warm = {}
    /\ closed' = TRUE
    /\ retiring' = {}
    /\ UNCHANGED <<records, flight, call, leaked, stolen>>

CloseWarmPool(w) ==
    /\ ~closed /\ w \in warm
    /\ closed' = TRUE
    /\ retiring' = warm \ {w}
    /\ warm' = {}
    /\ RetireInto(w)
    /\ UNCHANGED <<born, actor, route, golden, flight, call, leaked, stolen>>

-----------------------------------------------------------------------------
Lifecycle(a) == CreateActor(a) \/ DeleteActor(a) \/ MarkCrashed(a)

ResumeSteps(a) ==
    \/ Resume(a) \/ ResumeRefused(a) \/ NeedSandbox(a)
    \/ \E w \in Workers : ClaimIdle(a, w)
    \/ \E w \in Workers, s \in Sandboxes : ClaimFresh(a, s, w)
    \/ AcquireFailed(a) \/ BootFailed(a) \/ Booted(a) \/ Captured(a)

CallSteps(k) ==
    \/ \E a \in Actors, op \in {"suspend", "pause"} : SuspendBegins(k, a, op)
    \/ CheckpointFailed(k) \/ CheckpointedKeepsWarm(k) \/ CheckpointedRetires(k)
    \/ FlipAfterRetire(k) \/ FlipCancelled(k)

PoolSteps ==
    \/ \E E \in SUBSET warm : \E w \in E : SweepTick(E, w)
    \/ \E w \in Workers : RetireNext(w) \/ CloseWarmPool(w)
    \/ ClosePool

Next ==
    \/ \E a \in Actors : Lifecycle(a) \/ ResumeSteps(a)
    \/ \E k \in Calls : CallSteps(k)
    \/ PoolSteps

Spec == Init /\ [][Next]_vars

-----------------------------------------------------------------------------
(* Properties                                                              *)

(* The records of model.py and the local state of the tasks have their      *)
(* types.                                                                  *)
TypeOK ==
    /\ actor \in [Actors -> [status : Status, ver : Nat,
                             worker : Workers \cup {None}, snap : BOOLEAN]]
    /\ born \in [Actors -> 0..2]
    /\ worker \in [Workers -> [sandbox : Sandboxes \cup {None}, ver : Nat,
                               host : Actors \cup {None}]]
    /\ warm \subseteq Workers /\ retiring \subseteq Workers
    /\ leaked \subseteq Workers /\ stolen \subseteq Workers
    /\ pooled \subseteq Sandboxes
    /\ route \in [Actors -> Workers \cup {None}]
    /\ golden \in BOOLEAN /\ closed \in BOOLEAN
    /\ flight \in [Actors -> [pc : FlightPc, ver : Nat, snap : BOOLEAN,
                              worker : Workers \cup {None}]]
    /\ call \in [Calls -> [op : {"suspend", "pause"}, pc : CallPc,
                           actor : Actors \cup {None}, ver : Nat,
                           worker : Workers \cup {None}, wver : Nat]]

OnWorker(a, w) == Registered(w) /\ worker[w].host = a

(* A RUNNING actor is on a worker claimed for it, whatever was suspended,   *)
(* crashed, resumed or deleted meanwhile; the one way to lose it is a sweep *)
(* that retires a worker claimed since it was unlisted.                    *)
RunningHasWorker ==
    \A a \in Actors : actor[a].status = "running" =>
        OnWorker(a, actor[a].worker) \/ actor[a].worker \in stolen

(* The worker a flight boots on is likewise claimed for its actor.          *)
FlightHasWorker ==
    \A a \in Actors : flight[a].worker # None =>
        OnWorker(a, flight[a].worker) \/ flight[a].worker \in stolen

(* The router never sends traffic to another actor's sandbox: the worker a  *)
(* binding names is claimed for that actor, or a sweep has stolen it, after *)
(* late suspends, crashes, deletes and failed checkpoints alike; and it is  *)
(* the worker of the actor's own record.  That second part leaves reused    *)
(* ids out: versions start again at 1, so the last write of an old suspend  *)
(* may pass for one of the new incarnation and clear a record still bound.  *)
(* Whether there should be a binding is BoundOnlyWhileActive's question.    *)
RoutedToOwnWorker ==
    \A a \in Actors : route[a] # None =>
        /\ OnWorker(a, route[a]) \/ route[a] \in stolen
        /\ a \notin Reused => route[a] = actor[a].worker

(* No two activations share a worker: records, flights and checkpoints of   *)
(* two actors name different ones.                                         *)
Uses(a) == ({actor[a].worker, flight[a].worker}
              \cup {call[k].worker : k \in {j \in Calls :
                      call[j].pc = "checkpoint" /\ call[j].actor = a}}) \ {None}
WorkerHasOneUser ==
    \A a, b \in Actors : a # b => Uses(a) \cap Uses(b) = {}

(* A sandbox is in the pool or under exactly one worker record: release,    *)
(* retire and the sweeps neither lose one nor hand it out twice.           *)
SandboxAccounting ==
    LET held == {worker[w].sandbox : w \in {x \in Workers : Registered(x)}} IN
    /\ pooled \cap held = {} /\ pooled \cup held = Sandboxes
    /\ \A v, w \in Workers : Registered(v) /\ v # w
                               => worker[v].sandbox # worker[w].sandbox

(* The warm-idle registry lists only idle workers, so that the sweeper      *)
(* unlists no worker in use, and is never longer than max_warm_idle.       *)
WarmIsIdle == (\A w \in warm : Idle(w)) /\ Cardinality(warm) <= MaxWarmIdle

(* An idle worker is in the registry, or on a sweeper's list: none idles    *)
(* unseen, holding its sandbox for ever (unless aclose cut a sweep short).  *)
IdleIsWarm ==
    ~closed => \A w \in Workers : Idle(w) => w \in warm \cup retiring

(* A claimed worker is in somebody's hands, or a failure has leaked it: no  *)
(* path that succeeds forgets a worker.                                    *)
ClaimIsAccounted ==
    \A w \in Workers : Registered(w) /\ ~Idle(w) =>
        w \in leaked \/ \E a \in Actors : w \in Uses(a)

(* model.py:38: RUNNING is "live on a worker". *)
RunningIsLive ==
    \A a \in Actors :
        actor[a].status = "running" => OnWorker(a, actor[a].worker)

(* router.py:28: a binding exists "only while the actor is RUNNING /        *)
(* RESUMING".                                                              *)
BoundOnlyWhileActive ==
    \A a \in Actors :
        route[a] # None => actor[a].status \in {"running", "resuming"}
=============================================================================
