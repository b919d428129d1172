------------------------------ MODULE Singleflight ------------------------------
(***************************************************************************)
(* Deduplication of concurrent calls, _orchestration/singleflight.py.      *)
(*                                                                         *)
(* The lock is never held across a suspension, so run decides leader or    *)
(* joiner in one step.  What suspends: the leader task (it starts and ends *)
(* in steps of its own), a caller's wait for it, and a woken caller, which *)
(* runs some time after the task has ended.                                *)
(***************************************************************************)
EXTENDS Integers, FiniteSets

CONSTANTS
    Callers,   \* tasks that call run, one call at a time
    Keys,
    Flights,   \* identities of _Flight objects
    Patient,   \* callers whose effective budget is None
    NoFlight

ASSUME SingleflightAssumption ==
    IsFiniteSet(Callers) /\ Patient \subseteq Callers /\ NoFlight \notin Flights

VARIABLES
    flights,   \* _flights
    task,      \* flight.leader: its key and where it is
    joiners,   \* flight.joiner_count
    pc,        \* "out" of run, or inside as "leader" or "joiner"
    at,        \* the flight each caller is inside for
    answer,    \* how each caller's last call ended
    hit        \* history: callers cancelled during their last call

vars == <<flights, task, joiners, pc, at, answer, hit>>

Over == {"ok", "error", "timeout", "cancelled"}
TaskAt == {"none",         \* never used
           "created",      \* create_task returned, _lead has not run yet
           "running",      \* awaiting fn
           "doomed",       \* cancelled before its first step: fn is not called
           "cancelling"}   \* cancelled inside fn, which is unwinding
            \cup Over
Answers == {"none", "exhausted"} \cup Over

Done(f) == task[f].at \in Over
Shielded(c) == pc[c] = "joiner" /\ c \notin Patient

Init ==
    /\ flights = [k \in Keys |-> NoFlight]
    /\ task \in [Flights -> [key : Keys, at : {"none"}]]
    /\ joiners = [f \in Flights |-> 0]
    /\ pc = [c \in Callers |-> "out"]
    /\ at = [c \in Callers |-> NoFlight]
    /\ answer = [c \in Callers |-> "none"]
    /\ hit = {}

-----------------------------------------------------------------------------
(* run: one step up to the first await.  A definition X_Y is X with one      *)
(* fault Y; no specification uses it.                                       *)
Enter(c, f, role) ==
    /\ pc[c] = "out"
    /\ pc' = [pc EXCEPT ![c] = role]
    /\ at' = [at EXCEPT ![c] = f]
    /\ answer' = [answer EXCEPT ![c] = "none"]
    /\ hit' = hit \ {c}

(* Identities nobody refers to, which a new flight may take. *)
Unused == {f \in Flights : (\A k \in Keys : flights[k] # f)
                              /\ (\A c \in Callers : at[c] # f)}

Lead_ChecksDone(c, k, f) ==
    /\ ~\E g \in Flights : flights[k] = g /\ task[g].at = "running"
    /\ f \in Unused
    /\ Enter(c, f, "leader")
    /\ task' = [task EXCEPT ![f] = [key |-> k, at |-> "created"]]
    /\ flights' = [flights EXCEPT ![k] = f]
    /\ joiners' = [joiners EXCEPT ![f] = 0]
Lead(c, k, f) ==
    /\ flights[k] = NoFlight /\ f \in Unused
    /\ Enter(c, f, "leader")
    /\ task' = [task EXCEPT ![f] = [key |-> k, at |-> "created"]]
    /\ flights' = [flights EXCEPT ![k] = f]
    /\ joiners' = [joiners EXCEPT ![f] = 0]

(* The flight may be over already: it stays listed until its leader's       *)
(* caller has run.                                                         *)
Join(c, k) ==
    /\ flights[k] # NoFlight
    /\ Enter(c, flights[k], "joiner")
    /\ joiners' = [joiners EXCEPT ![flights[k]] = @ + 1]
    /\ UNCHANGED <<flights, task>>

-----------------------------------------------------------------------------
(* The leader task, _lead.                                                 *)
TaskMoves(f, next) ==
    /\ task' = [task EXCEPT ![f].at = next]
    /\ UNCHANGED <<flights, joiners, pc, at, answer>>

LeadStarts(f) ==
    task[f].at = "created" /\ TaskMoves(f, "running") /\ UNCHANGED hit

(* fn returned or raised, asyncio.TimeoutError included; a cancelled fn may  *)
(* still do either while it unwinds.                                        *)
LeadEnds(f, end) ==
    /\ \/ task[f].at = "running" /\ end # "cancelled"
       \/ task[f].at = "cancelling"
       \/ task[f].at = "doomed" /\ end = "cancelled"
    /\ TaskMoves(f, end)
    /\ UNCHANGED hit

-----------------------------------------------------------------------------
(* The way out: a joiner's finally counts it out, the leader's _finalize     *)
(* pops the key, whatever the await ended with.                             *)
Finalized_SuccessOnly(c, a) ==
    IF pc[c] = "leader" /\ a = "ok"
    THEN [flights EXCEPT ![task[at[c]].key] = NoFlight] ELSE flights
Finalized(c, a) ==
    IF pc[c] = "leader"
    THEN [flights EXCEPT ![task[at[c]].key] = NoFlight] ELSE flights

CountedOut_EveryCaller(c, a) == [joiners EXCEPT ![at[c]] = @ - 1]
CountedOut(c, a) ==
    IF pc[c] = "joiner" THEN [joiners EXCEPT ![at[c]] = @ - 1] ELSE joiners

Leave(c, a) ==
    /\ pc' = [pc EXCEPT ![c] = "out"]
    /\ at' = [at EXCEPT ![c] = NoFlight]
    /\ answer' = [answer EXCEPT ![c] = a]
    /\ flights' = Finalized(c, a)
    /\ joiners' = CountedOut(c, a)
    /\ UNCHANGED task

(* The awaited task is over and the caller runs.  wait_for lets no          *)
(* TimeoutError through, not even fn's own: _join turns it into             *)
(* BudgetExhausted.                                                        *)
Return(c) ==
    /\ pc[c] # "out" /\ Done(at[c])
    /\ LET end == task[at[c]].at IN
       Leave(c, IF Shielded(c) /\ end = "timeout" THEN "exhausted" ELSE end)
    /\ UNCHANGED hit

(* BudgetExhausted: before the wait, in it, or in a race with the result.   *)
Exhausted(c) ==
    /\ Shielded(c) /\ Leave(c, "exhausted") /\ UNCHANGED hit

(* A caller is cancelled.  wait_for and shield keep that from the leader    *)
(* task; an unshielded await passes it on, and the caller then waits for    *)
(* the task to end.  A caller that is already woken leaves at once.         *)
CancelLeaves(c) ==
    /\ Shielded(c) \/ (pc[c] # "out" /\ Done(at[c]))
    /\ Leave(c, "cancelled")
    /\ hit' = hit \cup {c}

CancelPassedOn_LeavesWork(c) ==
    /\ pc[c] # "out" /\ ~Shielded(c) /\ ~Done(at[c])
    /\ Leave(c, "cancelled")
    /\ hit' = hit \cup {c}
CancelPassedOn(c) ==
    /\ pc[c] # "out" /\ ~Shielded(c) /\ ~Done(at[c])
    /\ TaskMoves(at[c], IF task[at[c]].at \in {"created", "doomed"}
                        THEN "doomed" ELSE "cancelling")
    /\ hit' = hit \cup {c}

-----------------------------------------------------------------------------
Call(c) == \E k \in Keys : Join(c, k) \/ \E f \in Flights : Lead(c, k, f)
Leader(f) == LeadStarts(f) \/ \E end \in Over : LeadEnds(f, end)
Caller(c) == Call(c) \/ Return(c) \/ Exhausted(c) \/ CancelLeaves(c) \/ CancelPassedOn(c)

Next == (\E c \in Callers : Caller(c)) \/ (\E f \in Flights : Leader(f))

Spec == Init /\ [][Next]_vars

(* The event loop runs what can run, and fn ends: nothing in run bounds it. *)
Fairness == /\ \A f \in Flights : WF_vars(Leader(f))
            /\ \A c \in Callers : WF_vars(Return(c))

FairSpec == Spec /\ Fairness

-----------------------------------------------------------------------------
(* Properties                                                              *)

(* Every variable has its type (_Flight, Singleflight.__init__). *)
TypeOK ==
    /\ flights \in [Keys -> Flights \cup {NoFlight}]
    /\ task \in [Flights -> [key : Keys, at : TaskAt]]
    /\ joiners \in [Flights -> Nat]
    /\ pc \in [Callers -> {"out", "leader", "joiner"}]
    /\ at \in [Callers -> Flights \cup {NoFlight}]
    /\ answer \in [Callers -> Answers]
    /\ hit \subseteq Callers
    /\ \A f \in Flights \ Unused :
          joiners[f] = Cardinality({c \in Callers : pc[c] = "joiner" /\ at[c] = f})

(* fn never runs twice at a time for one key: although any caller may be    *)
(* cancelled at any time, a key is given up only after its task has ended.  *)
OneExecution ==
    \A f, g \in Flights :
      task[f].at \notin Over \cup {"none"} /\ task[g].at \notin Over \cup {"none"}
        /\ task[f].key = task[g].key => f = g

(* run keeps the contract: each step is one of FlightContract's or changes  *)
(* nothing it speaks of.                                                   *)
Contract == INSTANCE FlightContract WITH
    owed <- at,
    first <- {c \in Callers : pc[c] = "leader"},
    keyOf <- [f \in Flights |-> task[f].key],
    outcome <- [f \in Flights |->
                  IF Done(f) \/ task[f].at = "none" THEN task[f].at ELSE "open"]
KeepsContract == Contract!Spec

(* No key stays occupied: every flight is removed again, also when its      *)
(* leader fails or its callers are cancelled.                              *)
FlightEnds ==
    \A k \in Keys, f \in Flights : flights[k] = f ~> flights[k] # f

(* singleflight.py:9-10: "if caller 1 disconnects, callers 2 and 3 still    *)
(* get the result": who was not cancelled sees no cancellation.            *)
BystandersUnharmed ==
    \A c \in Callers : answer[c] = "cancelled" => c \in hit
=============================================================================
