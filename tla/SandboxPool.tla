----------------------------- MODULE SandboxPool -----------------------------
(***************************************************************************)
(* The asyncio pool of pre-warmed sandboxes, _pool.py (SandboxPool).       *)
(*                                                                         *)
(* One event loop runs every task, and no critical section of the pool     *)
(* suspends while it holds the lock, so one action of this module is one   *)
(* stretch of a task between two real suspension points: the factory, the  *)
(* provision semaphore, the health check, ws.close(), Condition.wait and   *)
(* the sleep of the two background loops.                                  *)
(*                                                                         *)
(* Tasks: the callers (acquire, then release), the idle sweeper, the       *)
(* pre-warmer and aclose.  A cancellation is a step of the task it hits.   *)
(***************************************************************************)
EXTENDS Integers, Sequences, FiniteSets

CONSTANTS
    Callers,        \* tasks that acquire and release, one lease at a time
    Sandboxes,      \* identities of sandboxes the factory hands out
    NoSandbox,      \* "no sandbox in this local variable"
    MaxSize,        \* max_size
    MinWarm,        \* min_warm
    Strategy,       \* acquire_strategy
    HealthCheck,    \* is a health_check callable configured?
    MaxProvisions   \* max_concurrent_provisions; 0 is unlimited

(* The constructor's checks, and a finite population to count over. *)
ASSUME PoolAssumption ==
    /\ IsFiniteSet(Callers)
    /\ IsFiniteSet(Sandboxes)
    /\ NoSandbox \notin Sandboxes
    /\ MaxSize \in Nat \ {0}
    /\ MinWarm \in 0..MaxSize
    /\ Strategy \in {"fifo", "lifo"}
    /\ HealthCheck \in BOOLEAN
    /\ MaxProvisions \in Nat

VARIABLES
    free,      \* _free, oldest return first
    inUse,     \* _in_use
    pending,   \* _pending_count
    closed,    \* _closed
    live,      \* sandboxes built by the factory whose close() has not ended
    pc,        \* where each caller is suspended
    ws,        \* the sandbox in each caller's hands
    sweeper,   \* _sweep_task: where it is, and what it still has to close
    warmer,    \* _prewarm_task: where it is, provisions left in this tick,
               \* and the surplus sandbox it is closing
    closer,    \* the task running aclose, and what it still has to close
    cut        \* history: sandboxes whose probe or close() a cancellation cut

vars == <<free, inUse, pending, closed, live, pc, ws,
          sweeper, warmer, closer, cut>>

poolVars == <<free, inUse, pending, closed>>
taskVars == <<sweeper, warmer, closer>>

CallerPc == {"idle",      \* outside the pool, holding nothing
             "wait",      \* asleep in Condition.wait
             "notified",  \* woken by notify_all, not running yet
             "permit",    \* queued on the provision semaphore
             "factory",   \* awaiting the factory
             "probe",     \* awaiting health_check
             "discard",   \* closing a candidate that failed its probe
             "retry",     \* about to go round the acquire loop again
             "hold",      \* acquire returned: the caller owns ws
             "teardown"}  \* release is closing ws

SweeperPc == {"sleep", "closing", "stopped"}
WarmerPc == {"off", "sleep", "permit", "factory", "surplus", "stopped"}
CloserPc == {"idle", "stopSweep", "stopPrewarm", "closing", "done"}

-----------------------------------------------------------------------------
(* warm_count and total_count.  A definition X_Y is a variant of X with one  *)
(* fault Y; no specification uses it.                                       *)
warm_count == Len(free)
total_count_NoPending == Len(free) + Cardinality(inUse)
total_count == Len(free) + Cardinality(inUse) + pending

FreeSet == {free[i] : i \in DOMAIN free}
Provisioning == {c \in Callers : pc[c] \in {"permit", "factory"}}
Leased == {c \in Callers : pc[c] \in {"hold", "probe"}}
Closing == {ws[c] : c \in {d \in Callers : pc[d] \in {"discard", "teardown"}}}
              \cup sweeper.todo \cup closer.todo
              \cup (IF warmer.pc = "surplus" THEN {warmer.ws} ELSE {})

(* Identities nobody refers to: a sandbox that died unreferenced may lend   *)
(* its name to a new one, as object identities do.                          *)
Fresh == Sandboxes \ (live \cup inUse \cup cut \cup Closing
                          \cup {ws[c] : c \in Callers})

(* max_concurrent_provisions: holders of the semaphore, and its queue.  A   *)
(* newcomer does not overtake a task that is already queued.                *)
InFactory == Cardinality({c \in Callers : pc[c] = "factory"})
                + (IF warmer.pc = "factory" THEN 1 ELSE 0)
PermitFree == MaxProvisions = 0 \/ InFactory < MaxProvisions
PermitQueue == (\E c \in Callers : pc[c] = "permit") \/ warmer.pc = "permit"
ProvisionEntry_Direct == "factory"
ProvisionEntry == IF PermitFree /\ (MaxProvisions = 0 \/ ~PermitQueue)
                  THEN "factory" ELSE "permit"

(* notify_all: every sleeper becomes runnable. *)
NotifyAll_Dropped == pc
NotifyAll == [d \in Callers |-> IF pc[d] = "wait" THEN "notified" ELSE pc[d]]

(* After start(): the sweeper runs, the pre-warmer too when min_warm > 0. *)
Init ==
    /\ free = <<>> /\ inUse = {} /\ pending = 0 /\ closed = FALSE
    /\ live = {}
    /\ pc = [c \in Callers |-> "idle"]
    /\ ws = [c \in Callers |-> NoSandbox]
    /\ sweeper = [pc |-> "sleep", todo |-> {}]
    /\ warmer = [pc |-> IF MinWarm > 0 THEN "sleep" ELSE "off",
                  left |-> 0, ws |-> NoSandbox]
    /\ closer = [pc |-> "idle", todo |-> {}]
    /\ cut = {}

-----------------------------------------------------------------------------
(* acquire                                                                 *)

(* The head of the acquire loop: a new call, or a further round of one. *)
AtLoopHead(c) == pc[c] \in {"idle", "retry"}

(* A woken waiter whose predicate len(free) > 0 holds gives the lock up     *)
(* before it goes round the loop: another task may take the sandbox first.  *)
WokenToLoop(c) ==
    /\ pc[c] = "notified" /\ free # <<>>
    /\ pc' = [pc EXCEPT ![c] = "retry"]
    /\ UNCHANGED <<poolVars, live, ws, taskVars, cut>>

(* A waiter the predicate sends back to sleep; it looks at nothing else.   *)
SleepAgain(c) ==
    /\ pc[c] = "notified" /\ free = <<>>
    /\ pc' = [pc EXCEPT ![c] = "wait"]
    /\ UNCHANGED <<poolVars, live, ws, taskVars, cut>>

(* RuntimeError("SandboxPool is closed"). *)
AcquireClosed(c) ==
    /\ AtLoopHead(c) /\ closed
    /\ pc' = [pc EXCEPT ![c] = "idle"]
    /\ UNCHANGED <<poolVars, live, ws, taskVars, cut>>

(* _pop_free_locked: the candidate and the rest of the deque. *)
Popped == IF Strategy = "lifo" THEN free[Len(free)] ELSE Head(free)
Rest_OtherEnd == IF Strategy = "lifo" THEN Tail(free) ELSE SubSeq(free, 1, Len(free) - 1)
Rest == IF Strategy = "lifo" THEN SubSeq(free, 1, Len(free) - 1) ELSE Tail(free)

AcquireWarm(c) ==
    /\ AtLoopHead(c) /\ ~closed /\ free # <<>>
    /\ free' = Rest
    /\ inUse' = inUse \cup {Popped}
    /\ ws' = [ws EXCEPT ![c] = Popped]
    /\ pc' = [pc EXCEPT ![c] = IF HealthCheck THEN "probe" ELSE "hold"]
    /\ UNCHANGED <<pending, closed, live, taskVars, cut>>

AcquireGrow(c) ==
    /\ AtLoopHead(c) /\ ~closed /\ free = <<>> /\ total_count < MaxSize
    /\ pending' = pending + 1
    /\ pc' = [pc EXCEPT ![c] = ProvisionEntry]
    /\ UNCHANGED <<free, inUse, closed, live, ws, taskVars, cut>>

AcquireWait(c) ==
    /\ AtLoopHead(c) /\ ~closed /\ free = <<>> /\ total_count >= MaxSize
    /\ pc' = [pc EXCEPT ![c] = "wait"]
    /\ UNCHANGED <<poolVars, live, ws, taskVars, cut>>

(* asyncio.TimeoutError: the acquire budget ran out on the condition. *)
AcquireTimeout_GivesSlotBack(c) ==
    /\ pc[c] \in {"wait", "notified"}
    /\ pc' = [pc EXCEPT ![c] = "idle"]
    /\ pending' = pending - 1
    /\ UNCHANGED <<free, inUse, closed, live, ws, taskVars, cut>>
AcquireTimeout(c) ==
    /\ pc[c] \in {"wait", "notified"}
    /\ pc' = [pc EXCEPT ![c] = "idle"]
    /\ UNCHANGED <<poolVars, live, ws, taskVars, cut>>

EnterFactory(c) ==
    /\ pc[c] = "permit" /\ PermitFree
    /\ pc' = [pc EXCEPT ![c] = "factory"]
    /\ UNCHANGED <<poolVars, live, ws, taskVars, cut>>

(* The factory returned: the slot turns from pending into in use, whatever  *)
(* became of the pool meanwhile.                                           *)
ProvisionDone(c, s) ==
    /\ pc[c] = "factory" /\ s \in Fresh
    /\ pending' = pending - 1
    /\ inUse' = inUse \cup {s}
    /\ live' = live \cup {s}
    /\ ws' = [ws EXCEPT ![c] = s]
    /\ pc' = [pc EXCEPT ![c] = "hold"]
    /\ UNCHANGED <<free, closed, taskVars, cut>>

(* The factory raised, or the caller was cancelled while provisioning. *)
ProvisionFailed(c) ==
    /\ pc[c] \in {"permit", "factory"}
    /\ pending' = pending - 1
    /\ pc' = [pc EXCEPT ![c] = "idle"]
    /\ UNCHANGED <<free, inUse, closed, live, ws, taskVars, cut>>

ProbeOk(c) ==
    /\ pc[c] = "probe"
    /\ pc' = [pc EXCEPT ![c] = "hold"]
    /\ UNCHANGED <<poolVars, live, ws, taskVars, cut>>

(* health_check said no or raised: discard, then close outside the lock. *)
ProbeFailed_NotClosed(c) ==
    /\ pc[c] = "probe"
    /\ inUse' = inUse \ {ws[c]}
    /\ pc' = [pc EXCEPT ![c] = "retry"]
    /\ ws' = [ws EXCEPT ![c] = NoSandbox]
    /\ UNCHANGED <<free, pending, closed, live, taskVars, cut>>
ProbeFailed_NotDiscarded(c) ==
    /\ pc[c] = "probe"
    /\ pc' = [pc EXCEPT ![c] = "discard"]
    /\ UNCHANGED <<poolVars, live, ws, taskVars, cut>>
ProbeFailed(c) ==
    /\ pc[c] = "probe"
    /\ inUse' = inUse \ {ws[c]}
    /\ pc' = [pc EXCEPT ![c] = "discard"]
    /\ UNCHANGED <<free, pending, closed, live, ws, taskVars, cut>>

(* The caller's task is cancelled inside the pool.  A cancelled probe       *)
(* leaves its candidate in _in_use; a cancelled close() stays half done.    *)
CallerCancelled(c) ==
    /\ pc[c] \in {"wait", "notified", "retry", "probe", "discard", "teardown"}
    /\ pc' = [pc EXCEPT ![c] = "idle"]
    /\ ws' = [ws EXCEPT ![c] = NoSandbox]
    /\ cut' = cut \cup ({ws[c]} \cap live)
    /\ UNCHANGED <<poolVars, live, taskVars>>

-----------------------------------------------------------------------------
(* release                                                                 *)

(* Not in _in_use any more (aclose took it): ignored. *)
ReleaseUnknown(c) ==
    /\ pc[c] = "hold" /\ ws[c] \notin inUse
    /\ pc' = [pc EXCEPT ![c] = "idle"]
    /\ ws' = [ws EXCEPT ![c] = NoSandbox]
    /\ UNCHANGED <<poolVars, live, taskVars, cut>>

ReleaseToPool_AfterClose(c) ==
    /\ pc[c] = "hold" /\ ws[c] \in inUse
    /\ Len(free) < MaxSize
    /\ inUse' = inUse \ {ws[c]}
    /\ free' = Append(free, ws[c])
    /\ pc' = [NotifyAll EXCEPT ![c] = "idle"]
    /\ ws' = [ws EXCEPT ![c] = NoSandbox]
    /\ UNCHANGED <<pending, closed, live, taskVars, cut>>
ReleaseToPool(c) ==
    /\ pc[c] = "hold" /\ ws[c] \in inUse /\ ~closed
    /\ Len(free) < MaxSize
    /\ inUse' = inUse \ {ws[c]}
    /\ free' = Append(free, ws[c])
    /\ pc' = [NotifyAll EXCEPT ![c] = "idle"]
    /\ ws' = [ws EXCEPT ![c] = NoSandbox]
    /\ UNCHANGED <<pending, closed, live, taskVars, cut>>

(* broken, closed, or the warm list is full: tear the sandbox down.  Any    *)
(* sandbox may come back broken, so the other two reasons add no case.      *)
ReleaseTeardown(c) ==
    /\ pc[c] = "hold" /\ ws[c] \in inUse
    /\ inUse' = inUse \ {ws[c]}
    /\ pc' = [pc EXCEPT ![c] = "teardown"]
    /\ UNCHANGED <<free, pending, closed, live, ws, taskVars, cut>>

(* _safe_close ended, in acquire or in release: close() returned or raised, *)
(* and the pool is done with the sandbox either way.                        *)
CallerClosed(c) ==
    /\ pc[c] \in {"discard", "teardown"}
    /\ live' = live \ {ws[c]}
    /\ ws' = [ws EXCEPT ![c] = NoSandbox]
    /\ pc' = [pc EXCEPT ![c] = IF pc[c] = "discard" THEN "retry" ELSE "idle"]
    /\ UNCHANGED <<poolVars, taskVars, cut>>

-----------------------------------------------------------------------------
(* _sweep_once: returns are appended in time order, so the expired entries  *)
(* are the first n of the deque, for whichever n the clock says.            *)
Sweep_KeepsExpired(n) ==
    /\ sweeper.pc = "sleep"
    /\ sweeper' = [pc |-> "closing", todo |-> {free[i] : i \in 1..n}]
    /\ UNCHANGED <<poolVars, live, pc, ws, warmer, closer, cut>>
Sweep(n) ==
    /\ sweeper.pc = "sleep"
    /\ free' = SubSeq(free, n + 1, Len(free))
    /\ sweeper' = [pc |-> "closing", todo |-> {free[i] : i \in 1..n}]
    /\ UNCHANGED <<inUse, pending, closed, live, pc, ws, warmer, closer, cut>>

SweeperClosed(s) ==
    /\ sweeper.pc = "closing" /\ s \in sweeper.todo
    /\ live' = live \ {s}
    /\ sweeper' = [pc |-> IF sweeper.todo = {s} THEN "sleep" ELSE "closing",
                   todo |-> sweeper.todo \ {s}]
    /\ UNCHANGED <<poolVars, pc, ws, warmer, closer, cut>>

-----------------------------------------------------------------------------
(* _prewarm_once                                                           *)

Deficit_Uncapped == MinWarm - warm_count
Deficit == IF MinWarm - warm_count < MaxSize - total_count
           THEN MinWarm - warm_count ELSE MaxSize - total_count

(* The deficit is taken once per tick; its first provision starts at once. *)
PrewarmTick ==
    /\ warmer.pc = "sleep" /\ ~closed /\ Deficit > 0
    /\ pending' = pending + 1
    /\ warmer' = [pc |-> ProvisionEntry, left |-> Deficit - 1, ws |-> NoSandbox]
    /\ UNCHANGED <<free, inUse, closed, live, pc, ws, sweeper, closer, cut>>

WarmerEntersFactory ==
    /\ warmer.pc = "permit" /\ PermitFree
    /\ warmer' = [warmer EXCEPT !.pc = "factory"]
    /\ UNCHANGED <<poolVars, live, pc, ws, sweeper, closer, cut>>

(* The next turn of the for loop, after the sandbox just built went to the  *)
(* free list and its pending slot was given back: the loop goes on only if  *)
(* there is room left, which the warm sandbox has not changed.              *)
NextTurn == warmer.left > 0 /\ total_count < MaxSize

(* The semaphore was just given back, so with a queue behind it the next    *)
(* turn queues and otherwise it enters the factory.                         *)
PrewarmDone(s) ==
    /\ warmer.pc = "factory" /\ s \in Fresh /\ ~closed
    /\ Len(free) < MaxSize
    /\ free' = Append(free, s)
    /\ live' = live \cup {s}
    /\ pc' = NotifyAll
    /\ pending' = IF NextTurn THEN pending ELSE pending - 1
    /\ warmer' =
         IF NextTurn
         THEN [pc |-> IF MaxProvisions # 0 /\ PermitQueue
                      THEN "permit" ELSE "factory",
               left |-> warmer.left - 1, ws |-> NoSandbox]
         ELSE [pc |-> "sleep", left |-> 0, ws |-> NoSandbox]
    /\ UNCHANGED <<inUse, closed, ws, sweeper, closer, cut>>

(* Built, but the pool closed meanwhile: the sandbox is surplus. *)
PrewarmSurplus(s) ==
    /\ warmer.pc = "factory" /\ s \in Fresh
    /\ ~(~closed /\ Len(free) < MaxSize)
    /\ live' = live \cup {s}
    /\ pending' = pending - 1
    /\ warmer' = [pc |-> "surplus", left |-> warmer.left, ws |-> s]
    /\ UNCHANGED <<free, inUse, closed, pc, ws, sweeper, closer, cut>>

(* The surplus is closed; the next turn sees _closed and ends the tick. *)
WarmerClosed ==
    /\ warmer.pc = "surplus"
    /\ live' = live \ {warmer.ws}
    /\ warmer' = [pc |-> "sleep", left |-> 0, ws |-> NoSandbox]
    /\ UNCHANGED <<poolVars, pc, ws, sweeper, closer, cut>>

PrewarmFailed_KeepsSlot ==
    /\ warmer.pc = "factory"
    /\ warmer' = [pc |-> "sleep", left |-> 0, ws |-> NoSandbox]
    /\ UNCHANGED <<poolVars, live, pc, ws, sweeper, closer, cut>>
PrewarmFailed ==
    /\ warmer.pc = "factory"
    /\ pending' = pending - 1
    /\ warmer' = [pc |-> "sleep", left |-> 0, ws |-> NoSandbox]
    /\ UNCHANGED <<free, inUse, closed, live, pc, ws, sweeper, closer, cut>>

-----------------------------------------------------------------------------
(* aclose                                                                  *)

(* _closed is set and the sweeper cancelled at its suspension point: what   *)
(* it had evicted and not yet closed is in no list any more.                *)
Close ==
    /\ closer.pc = "idle" /\ ~closed
    /\ closed' = TRUE
    /\ cut' = cut \cup sweeper.todo
    /\ sweeper' = [pc |-> "stopped", todo |-> {}]
    /\ closer' = [closer EXCEPT !.pc = "stopSweep"]
    /\ UNCHANGED <<free, inUse, pending, live, pc, ws, warmer>>

(* The sweeper has ended, the pre-warmer is cancelled: CancelledError is    *)
(* not an Exception, so a pending slot it had reserved is not given back.   *)
CancelPrewarm ==
    /\ closer.pc = "stopSweep" /\ warmer.pc # "off"
    /\ cut' = cut \cup ({warmer.ws} \cap live)
    /\ warmer' = [pc |-> "stopped", left |-> 0, ws |-> NoSandbox]
    /\ closer' = [closer EXCEPT !.pc = "stopPrewarm"]
    /\ UNCHANGED <<poolVars, live, pc, ws, sweeper>>

(* Both loops have ended (or there was no pre-warmer to cancel): everything *)
(* the pool still lists is taken over for closing, and the condition        *)
(* notified.                                                               *)
Drain ==
    /\ closer.pc = "stopPrewarm" \/ (closer.pc = "stopSweep" /\ warmer.pc = "off")
    /\ closer' = [pc |-> "closing", todo |-> FreeSet \cup inUse]
    /\ free' = <<>>
    /\ inUse' = {}
    /\ pc' = NotifyAll
    /\ UNCHANGED <<pending, closed, live, ws, sweeper, warmer, cut>>

CloserClosed(s) ==
    /\ closer.pc = "closing" /\ s \in closer.todo
    /\ live' = live \ {s}
    /\ closer' = [closer EXCEPT !.todo = @ \ {s}]
    /\ UNCHANGED <<poolVars, pc, ws, sweeper, warmer, cut>>

CloseReturns ==
    /\ closer.pc = "closing" /\ closer.todo = {}
    /\ closer' = [closer EXCEPT !.pc = "done"]
    /\ UNCHANGED <<poolVars, live, pc, ws, sweeper, warmer, cut>>

-----------------------------------------------------------------------------
Acquire(c) ==
    \/ WokenToLoop(c) \/ SleepAgain(c) \/ AcquireClosed(c)
    \/ AcquireWarm(c) \/ AcquireGrow(c) \/ AcquireWait(c)
    \/ AcquireTimeout(c) \/ EnterFactory(c)
    \/ \E s \in Sandboxes : ProvisionDone(c, s)
    \/ ProvisionFailed(c) \/ ProbeOk(c) \/ ProbeFailed(c)
    \/ CallerCancelled(c)

Release(c) ==
    ReleaseUnknown(c) \/ ReleaseToPool(c) \/ ReleaseTeardown(c) \/ CallerClosed(c)

Sweeper ==
    \/ \E n \in 1..Len(free) : Sweep(n)
    \/ \E s \in Sandboxes : SweeperClosed(s)

Warmer ==
    \/ PrewarmTick \/ WarmerEntersFactory
    \/ \E s \in Sandboxes : PrewarmDone(s) \/ PrewarmSurplus(s)
    \/ WarmerClosed \/ PrewarmFailed

Closer ==
    \/ Close \/ CancelPrewarm \/ Drain
    \/ \E s \in Sandboxes : CloserClosed(s)
    \/ CloseReturns

Next ==
    \/ Sweeper \/ Warmer \/ Closer
    \/ \E c \in Callers : Acquire(c) \/ Release(c)

Spec == Init /\ [][Next]_vars

(* What the event loop and the callers owe: a task that can run does run,   *)
(* factories, probes and close() calls end, and a lease is given back.  The *)
(* time-out and the cancellation of a caller are not owed.                  *)
CallerProgress(c) ==
    \/ WokenToLoop(c) \/ SleepAgain(c)
    \/ EnterFactory(c) \/ ProvisionFailed(c)
    \/ \E s \in Sandboxes : ProvisionDone(c, s)
    \/ ProbeOk(c) \/ ProbeFailed(c) \/ Release(c)
    \/ pc[c] = "retry"
          /\ (AcquireClosed(c) \/ AcquireWarm(c) \/ AcquireGrow(c) \/ AcquireWait(c))
CloserProgress == closed /\ Closer

Fairness ==
    /\ \A c \in Callers : WF_vars(CallerProgress(c))
    /\ WF_vars(CloserProgress) /\ WF_vars(Sweeper) /\ WF_vars(Warmer)

FairSpec == Spec /\ Fairness

-----------------------------------------------------------------------------
(* Properties                                                              *)

(* Every variable has its type (_pool.py, __init__). *)
TypeOK ==
    /\ free \in Seq(Sandboxes)
    /\ inUse \subseteq Sandboxes
    /\ pending \in Nat
    /\ closed \in BOOLEAN
    /\ live \subseteq Sandboxes
    /\ pc \in [Callers -> CallerPc]
    /\ ws \in [Callers -> Sandboxes \cup {NoSandbox}]
    /\ sweeper \in [pc : SweeperPc, todo : SUBSET Sandboxes]
    /\ warmer \in [pc : WarmerPc, left : Nat, ws : Sandboxes \cup {NoSandbox}]
    /\ closer \in [pc : CloserPc, todo : SUBSET Sandboxes]
    /\ cut \subseteq Sandboxes

WarmerProvisions == IF warmer.pc \in {"permit", "factory"} THEN 1 ELSE 0

(* total_count never exceeds max_size: no interleaving of callers that grow *)
(* the pool, the pre-warmer and returns oversubscribes it, although every   *)
(* factory call runs without the lock.                                      *)
CapacityBound == Len(free) + Cardinality(inUse) + pending <= MaxSize

(* _pending_count is exactly the number of provisions in flight; only the   *)
(* cancellation of the pre-warmer by aclose may leave one slot behind.      *)
PendingExact ==
    LET inFlight == Cardinality(Provisioning) + WarmerProvisions IN
    IF warmer.pc = "stopped" THEN pending \in {inFlight, inFlight + 1}
                             ELSE pending = inFlight

(* The counters bound the real thing: while the pool is open, sandboxes     *)
(* that exist and are not being torn down, plus boots in flight, stay       *)
(* within max_size.                                                         *)
LiveBound ==
    ~closed =>
      Cardinality(live \ (Closing \cup (cut \ inUse)))
        + Cardinality(Provisioning) + WarmerProvisions <= MaxSize

(* A sandbox has one owner: no two callers have the same one in hand, and   *)
(* none in hand is also in the free list, nor twice in it.                  *)
ExclusiveLease ==
    /\ \A c, d \in Callers : c # d => ws[c] # ws[d] \/ ws[c] = NoSandbox
    /\ \A c \in Callers : ws[c] \notin FreeSet
    /\ \A i, j \in DOMAIN free : free[i] = free[j] => i = j

(* No sandbox is torn down under the caller that leases it, nor while it    *)
(* waits in the free list, as long as the pool is open.                     *)
LeasedIsLive ==
    ~closed => FreeSet \cup {ws[c] : c \in Leased} \subseteq live \ Closing

(* Every sandbox that exists is one the pool or a closing task still knows, *)
(* except where a cancellation cut its close(): nothing is dropped between  *)
(* the lists, the local variables and the teardown.                         *)
NothingLost == live \subseteq FreeSet \cup inUse \cup Closing \cup cut

(* A slot of _in_use is always somebody's lease: it is held or probed by a  *)
(* caller, unless that caller was cancelled during its health check.        *)
InUseIsLeased == inUse \subseteq {ws[c] : c \in Leased} \cup cut

(* A returned or pre-warmed sandbox is never left in the free list while a  *)
(* caller sleeps on the condition (notify_all in release and the            *)
(* pre-warmer).                                                             *)
NoMissedReturn == free # <<>> => \A c \in Callers : pc[c] # "wait"

(* max_concurrent_provisions bounds the factory calls in flight over the    *)
(* callers and the pre-warmer together.                                     *)
ProvisionCap == MaxProvisions > 0 => InFactory <= MaxProvisions

(* Once aclose has begun, every sandbox is eventually closed for good,      *)
(* those provisioned after it included, save those a cancellation cut.      *)
ClosedPoolEmpties == closed ~> [](live \subseteq cut)

(* _pool.py:295-297: aclose wakes blocked callers "so they observe          *)
(* self._closed and raise rather than waiting forever".                     *)
AcloseWakesWaiters ==
    closer.pc = "done" => \A c \in Callers : pc[c] # "wait"
=============================================================================
