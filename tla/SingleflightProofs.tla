--------------------------- MODULE SingleflightProofs ---------------------------
(* Proofs about Singleflight, for any callers, keys and flights: that fn runs *)
(* once at a time for a key, and that run keeps FlightContract.             *)
EXTENDS Singleflight, FiniteSetTheorems, TLAPS

(***************************************************************************)
(* The inductive invariant.                                                *)
(***************************************************************************)

(* TypeOK without the counts of the joiners. *)
Types ==
    /\ flights \in [Keys -> Flights \cup {NoFlight}]
    /\ task \in [Flights -> [key : Keys, at : TaskAt]]
    /\ joiners \in [Flights -> Nat]
    /\ pc \in [Callers -> {"out", "leader", "joiner"}]
    /\ at \in [Callers -> Flights \cup {NoFlight}]
    /\ answer \in [Callers -> Answers]
    /\ hit \subseteq Callers

JoinersOf(f) == {c \in Callers : pc[c] = "joiner" /\ at[c] = f}

(* joiner_count is exact as long as somebody refers to the flight.          *)
Counted == \A f \in Flights \ Unused : joiners[f] = Cardinality(JoinersOf(f))

(* A caller is inside run for a flight whose task was created.              *)
InsideForTask ==
    \A c \in Callers :
        /\ pc[c] = "out" <=> at[c] = NoFlight
        /\ at[c] # NoFlight => task[at[c]].at # "none"

(* A listed flight is its key's, and the one caller that created it is still *)
(* inside; as long as that caller is, its flight is listed.                 *)
ListedByLeader ==
    /\ \A k \in Keys : flights[k] # NoFlight =>
          /\ task[flights[k]].key = k
          /\ \E c \in Callers : pc[c] = "leader" /\ at[c] = flights[k]
    /\ \A c \in Callers : pc[c] = "leader" => flights[task[at[c]].key] = at[c]
    /\ \A c, d \in Callers : pc[c] = "leader" /\ pc[d] = "leader" /\ at[c] = at[d] => c = d

Active(f) == task[f].at \notin Over \cup {"none"}

(* While a task is not over its flight is listed.                           *)
ActiveIsListed == \A f \in Flights : Active(f) => flights[task[f].key] = f

(* Only a cancelled caller that still waits has had the task cancelled.      *)
CancelledByCaller ==
    \A f \in Flights : task[f].at \in {"doomed", "cancelling"} =>
        \E c \in hit : at[c] = f /\ ~Shielded(c)

IInv ==
    /\ Types /\ Counted /\ InsideForTask
    /\ ListedByLeader /\ ActiveIsListed /\ CancelledByCaller

LEMMA InitIInv == Init => IInv
<1> SUFFICES ASSUME Init
             PROVE  IInv
  OBVIOUS
<1>1. Types
  BY DEF Init, Types, TaskAt, Answers
<1>2. Counted
  <2>1. \A f \in Flights : f \in Unused
    BY SingleflightAssumption DEF Init, Unused
  <2> QED
    BY <2>1 DEF Counted
<1> QED
  BY <1>1, <1>2, SingleflightAssumption
     DEF Init, IInv, InsideForTask, ListedByLeader, ActiveIsListed, Active,
         CancelledByCaller, Over

(***************************************************************************)
(* Counting the joiners of a flight.                                       *)
(***************************************************************************)

LEMMA JoinersFinite ==
    ASSUME NEW f
    PROVE  IsFiniteSet(JoinersOf(f)) /\ Cardinality(JoinersOf(f)) \in Nat
BY SingleflightAssumption, FS_Subset, FS_CardinalityType DEF JoinersOf

(* A flight somebody refers to counts the joiner that is about to leave.    *)
LEMMA JoinerIsCounted ==
    ASSUME Types, Counted, InsideForTask, NEW c \in Callers, pc[c] = "joiner"
    PROVE  /\ at[c] \in Flights
           /\ joiners[at[c]] >= 1
           /\ Cardinality(JoinersOf(at[c]) \ {c}) = joiners[at[c]] - 1
<1>1. at[c] \in Flights \ Unused /\ c \in JoinersOf(at[c])
  BY DEF Types, InsideForTask, Unused, JoinersOf
<1>2. joiners[at[c]] = Cardinality(JoinersOf(at[c]))
  BY <1>1 DEF Counted
<1>3. Cardinality(JoinersOf(at[c]) \ {c}) = Cardinality(JoinersOf(at[c])) - 1
  BY <1>1, JoinersFinite, FS_RemoveElement
<1>4. Cardinality(JoinersOf(at[c]) \ {c}) \in Nat
  BY JoinersFinite, FS_RemoveElement, FS_CardinalityType
<1> QED
  BY <1>1, <1>2, <1>3, <1>4, JoinersFinite

(* A leader counts nobody out, a joiner itself.                             *)
LEMMA LeavingIsCounted ==
    ASSUME Types, Counted, InsideForTask, ListedByLeader,
           NEW c \in Callers, NEW a, pc[c] # "out", Leave(c, a)
    PROVE  Counted'
<1> SUFFICES ASSUME NEW f \in Flights, f \notin Unused'
             PROVE  joiners'[f] = Cardinality(JoinersOf(f)')
  BY DEF Counted
<1>1. f \notin Unused
  BY SingleflightAssumption DEF Leave, Finalized, Unused, Types
<1>2. joiners[f] = Cardinality(JoinersOf(f))
  BY <1>1 DEF Counted
<1>3. CASE pc[c] = "joiner" /\ at[c] = f
  <2>1. JoinersOf(f)' = JoinersOf(f) \ {c}
    BY <1>3, SingleflightAssumption DEF Leave, JoinersOf, Types
  <2>2. joiners'[f] = joiners[f] - 1
    BY <1>3 DEF Leave, CountedOut, Types
  <2> QED
    BY <1>3, <2>1, <2>2, JoinerIsCounted
<1>4. CASE ~(pc[c] = "joiner" /\ at[c] = f)
  <2>1. JoinersOf(f)' = JoinersOf(f)
    BY <1>4 DEF Leave, JoinersOf, Types
  <2>2. joiners'[f] = joiners[f]
    BY <1>4 DEF Leave, CountedOut, Types
  <2> QED
    BY <1>2, <2>1, <2>2
<1> QED
  BY <1>3, <1>4

LEMMA CountStep ==
    ASSUME Types, Counted, InsideForTask, ListedByLeader, Next
    PROVE  Counted'
<1>1. ASSUME NEW c \in Callers, NEW k \in Keys, NEW f \in Flights, Lead(c, k, f)
      PROVE  Counted'
  <2> SUFFICES ASSUME NEW g \in Flights, g \notin Unused'
               PROVE  joiners'[g] = Cardinality(JoinersOf(g)')
    BY DEF Counted
  <2>1. CASE g = f
    <3>1. JoinersOf(g)' = {}
      BY <1>1, <2>1 DEF Lead, Enter, Unused, JoinersOf, Types
    <3> QED
      BY <1>1, <2>1, <3>1, FS_EmptySet DEF Lead, Types
  <2>2. CASE g # f
    <3>1. g \notin Unused /\ JoinersOf(g)' = JoinersOf(g)
      BY <1>1, <2>2 DEF Lead, Enter, Unused, JoinersOf, Types
    <3> QED
      BY <1>1, <2>2, <3>1 DEF Lead, Types, Counted
  <2> QED
    BY <2>1, <2>2
<1>2. ASSUME NEW c \in Callers, NEW k \in Keys, Join(c, k)
      PROVE  Counted'
  <2> DEFINE f == flights[k]
  <2> SUFFICES ASSUME NEW g \in Flights, g \notin Unused'
               PROVE  joiners'[g] = Cardinality(JoinersOf(g)')
    BY DEF Counted
  <2>1. f \in Flights \ Unused
    BY <1>2 DEF Join, Types, Unused
  <2>2. CASE g = f
    <3>1. JoinersOf(g)' = JoinersOf(g) \cup {c} /\ c \notin JoinersOf(g)
      BY <1>2, <2>2 DEF Join, Enter, JoinersOf, Types
    <3>2. joiners[g] = Cardinality(JoinersOf(g))
      BY <2>1, <2>2 DEF Counted
    <3>3. joiners'[g] = joiners[g] + 1
      BY <1>2, <2>2 DEF Join, Types
    <3> QED
      BY <3>1, <3>2, <3>3, JoinersFinite, FS_AddElement
  <2>3. CASE g # f
    <3>1. g \notin Unused /\ JoinersOf(g)' = JoinersOf(g)
      BY <1>2, <2>3 DEF Join, Enter, Unused, JoinersOf, Types
    <3> QED
      BY <1>2, <2>3, <3>1 DEF Join, Types, Counted
  <2> QED
    BY <2>2, <2>3
<1>3. CASE UNCHANGED <<flights, joiners, pc, at>>
  BY <1>3 DEF Counted, Unused, JoinersOf
<1>4. ASSUME NEW f \in Flights, Leader(f)
      PROVE  UNCHANGED <<flights, joiners, pc, at>>
  BY <1>4 DEF Leader, LeadStarts, LeadEnds, TaskMoves
<1>5. ASSUME NEW c \in Callers, CancelPassedOn(c)
      PROVE  UNCHANGED <<flights, joiners, pc, at>>
  BY <1>5 DEF CancelPassedOn, TaskMoves
<1>6. ASSUME NEW c \in Callers, Return(c) \/ Exhausted(c) \/ CancelLeaves(c)
      PROVE  Counted'
  BY <1>6, LeavingIsCounted DEF Return, Exhausted, CancelLeaves, Shielded
<1> QED
  BY <1>1, <1>2, <1>3, <1>4, <1>5, <1>6 DEF Next, Caller, Call

(***************************************************************************)
(* The other parts, one step per action.                                   *)
(***************************************************************************)

(* Only a counted joiner is counted out, so no count goes below zero.        *)
LEMMA TypeStep ==
    ASSUME Types, Counted, InsideForTask, ListedByLeader, Next
    PROVE  Types'
<1> USE SingleflightAssumption DEF Types, InsideForTask, TaskAt, Over,
     Answers, Shielded
<1> \A c \in Callers : pc[c] = "joiner" => joiners[at[c]] >= 1
  BY JoinerIsCounted
<1>1. ASSUME NEW c \in Callers, NEW k \in Keys, NEW f \in Flights, Lead(c, k, f)
     PROVE  Types'
  BY <1>1 DEF Lead, Enter, Unused
<1>2. ASSUME NEW c \in Callers, NEW k \in Keys, Join(c, k)
     PROVE  Types'
  BY <1>2 DEF Join, Enter
<1>3. ASSUME NEW f \in Flights, LeadStarts(f)
     PROVE  Types'
  BY <1>3 DEF LeadStarts, TaskMoves
<1>4. ASSUME NEW f \in Flights, NEW end \in Over, LeadEnds(f, end)
     PROVE  Types'
  BY <1>4 DEF LeadEnds, TaskMoves
<1>5. ASSUME NEW c \in Callers, Return(c)
     PROVE  Types'
  BY <1>5 DEF Return, Leave, Finalized, CountedOut, Done
<1>6. ASSUME NEW c \in Callers, Exhausted(c)
     PROVE  Types'
  BY <1>6 DEF Exhausted, Leave, Finalized, CountedOut, Done
<1>7. ASSUME NEW c \in Callers, CancelLeaves(c)
     PROVE  Types'
  BY <1>7 DEF CancelLeaves, Leave, Finalized, CountedOut, Done
<1>8. ASSUME NEW c \in Callers, CancelPassedOn(c)
     PROVE  Types'
  BY <1>8 DEF CancelPassedOn, TaskMoves, Done
<1> QED
  BY <1>1, <1>2, <1>3, <1>4, <1>5, <1>6, <1>7, <1>8
     DEF Next, Caller, Call, Leader

(* A leader stays until its task is over, and its flight is listed until then. *)
LEMMA ListStep ==
    ASSUME Types, InsideForTask, ListedByLeader, ActiveIsListed, Next
    PROVE  InsideForTask' /\ ListedByLeader' /\ ActiveIsListed'
<1> USE SingleflightAssumption DEF Types, InsideForTask, ListedByLeader,
     ActiveIsListed, Active, TaskAt, Over, Shielded
<1>1. ASSUME NEW c \in Callers, NEW k \in Keys, NEW f \in Flights, Lead(c, k, f)
     PROVE  InsideForTask' /\ ListedByLeader' /\ ActiveIsListed'
  BY <1>1 DEF Lead, Enter, Unused
<1>2. ASSUME NEW c \in Callers, NEW k \in Keys, Join(c, k)
     PROVE  InsideForTask' /\ ListedByLeader' /\ ActiveIsListed'
  BY <1>2 DEF Join, Enter
<1>3. ASSUME NEW f \in Flights, LeadStarts(f)
     PROVE  InsideForTask' /\ ListedByLeader' /\ ActiveIsListed'
  BY <1>3 DEF LeadStarts, TaskMoves
<1>4. ASSUME NEW f \in Flights, NEW end \in Over, LeadEnds(f, end)
     PROVE  InsideForTask' /\ ListedByLeader' /\ ActiveIsListed'
  BY <1>4 DEF LeadEnds, TaskMoves
<1>5. ASSUME NEW c \in Callers, Return(c)
     PROVE  InsideForTask' /\ ListedByLeader' /\ ActiveIsListed'
  BY <1>5 DEF Return, Leave, Finalized, CountedOut, Done
<1>6. ASSUME NEW c \in Callers, Exhausted(c)
     PROVE  InsideForTask' /\ ListedByLeader' /\ ActiveIsListed'
  BY <1>6 DEF Exhausted, Leave, Finalized, CountedOut, Done
<1>7. ASSUME NEW c \in Callers, CancelLeaves(c)
     PROVE  InsideForTask' /\ ListedByLeader' /\ ActiveIsListed'
  BY <1>7 DEF CancelLeaves, Leave, Finalized, CountedOut, Done
<1>8. ASSUME NEW c \in Callers, CancelPassedOn(c)
     PROVE  InsideForTask' /\ ListedByLeader' /\ ActiveIsListed'
  BY <1>8 DEF CancelPassedOn, TaskMoves, Done
<1> QED
  BY <1>1, <1>2, <1>3, <1>4, <1>5, <1>6, <1>7, <1>8
     DEF Next, Caller, Call, Leader

(* A caller that passed its cancellation on waits for the task to end.       *)
LEMMA CancelStep ==
    ASSUME Types, InsideForTask, CancelledByCaller, Next
    PROVE  CancelledByCaller'
<1> USE SingleflightAssumption DEF Types, InsideForTask, CancelledByCaller,
     Over, Shielded, Done
<1>1. ASSUME NEW c \in Callers, NEW k \in Keys, NEW f \in Flights, Lead(c, k, f)
     PROVE  CancelledByCaller'
  BY <1>1 DEF Lead, Enter, Unused
<1>2. ASSUME NEW c \in Callers, NEW k \in Keys, Join(c, k)
     PROVE  CancelledByCaller'
  BY <1>2 DEF Join, Enter
<1>3. ASSUME NEW f \in Flights, LeadStarts(f)
     PROVE  CancelledByCaller'
  BY <1>3 DEF LeadStarts, TaskMoves
<1>4. ASSUME NEW f \in Flights, NEW end \in Over, LeadEnds(f, end)
     PROVE  CancelledByCaller'
  BY <1>4 DEF LeadEnds, TaskMoves
<1>5. ASSUME NEW c \in Callers, Return(c)
     PROVE  CancelledByCaller'
  BY <1>5 DEF Return, Leave, Finalized, CountedOut, Done
<1>6. ASSUME NEW c \in Callers, Exhausted(c)
     PROVE  CancelledByCaller'
  BY <1>6 DEF Exhausted, Leave, Finalized, CountedOut, Done
<1>7. ASSUME NEW c \in Callers, CancelLeaves(c)
     PROVE  CancelledByCaller'
  BY <1>7 DEF CancelLeaves, Leave, Finalized, CountedOut, Done
<1>8. ASSUME NEW c \in Callers, CancelPassedOn(c)
     PROVE  CancelledByCaller'
  BY <1>8 DEF CancelPassedOn, TaskMoves, Done
<1> QED
  BY <1>1, <1>2, <1>3, <1>4, <1>5, <1>6, <1>7, <1>8
     DEF Next, Caller, Call, Leader

(***************************************************************************)
(* The theorems.                                                           *)
(***************************************************************************)

(* Everything above holds always.                                          *)
THEOREM Invariant == Spec => []IInv
<1>1. Init => IInv
  BY InitIInv
<1>2. IInv /\ [Next]_vars => IInv'
  <2>1. ASSUME IInv, Next
        PROVE  IInv'
    BY <2>1, TypeStep, CountStep, ListStep, CancelStep DEF IInv
  <2>2. ASSUME IInv, UNCHANGED vars
        PROVE  IInv'
    BY <2>2 DEF vars, IInv, Types, Counted, InsideForTask, ListedByLeader,
                ActiveIsListed, CancelledByCaller, Active, Unused, JoinersOf, Shielded
  <2> QED
    BY <2>1, <2>2
<1> QED
  BY <1>1, <1>2, PTL DEF Spec

(* Every variable keeps its type, and joiner_count is the number of callers   *)
(* that joined the flight and have not left (_join's finally).              *)
THEOREM SingleflightTypes == Spec => []TypeOK
<1>1. IInv => TypeOK
  BY DEF IInv, Types, Counted, JoinersOf, TypeOK
<1> QED
  BY <1>1, Invariant, PTL

(* fn never runs twice at a time for one key, whoever is cancelled and whoever *)
(* gives up (_run, _finalize).                                             *)
THEOREM OneExecutionPerKey == Spec => []OneExecution
<1>1. IInv => OneExecution
  BY DEF IInv, ActiveIsListed, Active, OneExecution
<1> QED
  BY <1>1, Invariant, PTL

(***************************************************************************)
(* The refinement: each step of run is one of FlightContract's, or changes  *)
(* nothing it speaks of.                                                   *)
(***************************************************************************)

Leaders == {c \in Callers : pc[c] = "leader"}
KeyOf == [f \in Flights |-> task[f].key]
OutcomeOf(f) == IF Done(f) \/ task[f].at = "none" THEN task[f].at ELSE "open"
Outcome == [f \in Flights |-> OutcomeOf(f)]

LEMMA InitRefines == Init => Contract!Init
BY DEF Init, Contract!Init, Done, Over

(* Leaving run is leaving the execution, whatever becomes of the table.      *)
LEMMA LeaveRefines ==
    ASSUME Types, InsideForTask, NEW c \in Callers, NEW a, pc[c] # "out", Leave(c, a)
    PROVE  Contract!Leave(c, a)
BY SingleflightAssumption DEF Types, InsideForTask, Leave, Contract!Leave, Done

(* A task that moves without ending changes nothing the contract speaks of,   *)
(* and one that ends is settled.                                            *)
LEMMA TaskRefines ==
    ASSUME Types, NEW f \in Flights, NEW next \in TaskAt \ {"none"}, TaskMoves(f, next),
           task[f].at \notin Over \cup {"none"}
    PROVE  /\ UNCHANGED <<at, Leaders, KeyOf, answer>>
           /\ Outcome[f] = "open"
           /\ Outcome' = IF next \in Over THEN [Outcome EXCEPT ![f] = next] ELSE Outcome
BY DEF Types, TaskMoves, TaskAt, Over, Done, Leaders, KeyOf, Outcome, OutcomeOf

LEMMA StepRefines ==
    ASSUME IInv, Next
    PROVE  [Contract!Next]_(Contract!vars)
<1> USE SingleflightAssumption DEF IInv
<1>1. ASSUME NEW c \in Callers, NEW k \in Keys, NEW f \in Flights, Lead(c, k, f)
      PROVE  Contract!Open(c, k, f)
  <2>1. \A g \in Flights : Outcome[g] = "open" => flights[task[g].key] = g
    BY DEF ActiveIsListed, Active, Outcome, OutcomeOf, Done, Over
  <2>2. Contract!Enter(c, f)
    BY <1>1 DEF Lead, Enter, Contract!Enter, InsideForTask
  <2>3. \A g \in Flights : Outcome[g] = "open" => task[g].key # k
    BY <1>1, <2>1 DEF Lead
  <2>4. Outcome[f] # "open" /\ \A d \in Callers : at[d] # f
    BY <1>1, <2>1 DEF Lead, Unused, Types
  <2>5. Leaders' = Leaders \cup {c}
    BY <1>1 DEF Lead, Enter, Leaders, Types
  <2>6. /\ KeyOf' = [KeyOf EXCEPT ![f] = k]
        /\ Outcome' = [Outcome EXCEPT ![f] = "open"]
    BY <1>1 DEF Lead, KeyOf, Outcome, OutcomeOf, Done, Over, Types
  <2> QED
    BY <2>2, <2>3, <2>4, <2>5, <2>6
       DEF Contract!Open, Leaders, KeyOf, Outcome, OutcomeOf
<1>2. ASSUME NEW c \in Callers, NEW k \in Keys, Join(c, k)
      PROVE  Contract!Share(c, flights[k])
  BY <1>2 DEF Join, Enter, Types, InsideForTask, ListedByLeader, Done,
              Contract!Share, Contract!Enter
<1>3. ASSUME NEW f \in Flights, LeadStarts(f)
      PROVE  UNCHANGED Contract!vars
  <2>1. task[f].at \notin Over \cup {"none"} /\ \E next \in TaskAt \ {"none"} :
           next \notin Over /\ TaskMoves(f, next)
    BY <1>3 DEF LeadStarts, TaskAt, Over
  <2>2. UNCHANGED <<at, Leaders, KeyOf, answer>> /\ Outcome' = Outcome
    BY <2>1, TaskRefines
  <2>3. hit' = hit
    BY <1>3 DEF LeadStarts
  <2> QED
    BY <2>2, <2>3, Zenon DEF Contract!vars, Leaders, KeyOf, Outcome, OutcomeOf
<1>4. ASSUME NEW f \in Flights, NEW end \in Over, LeadEnds(f, end)
      PROVE  Contract!Settle(f, end)
  BY <1>4, TaskRefines
     DEF LeadEnds, TaskAt, Over, CancelledByCaller, Contract!Settle,
         Leaders, KeyOf, Outcome, OutcomeOf
<1>5. ASSUME NEW c \in Callers, Return(c)
      PROVE  at[c] # NoFlight /\ (Contract!Answered(c) \/ Contract!GaveUp(c))
  <2>0. PICK end \in Over : task[at[c]].at = end
    BY <1>5 DEF Return, Done
  <2>1. at[c] \in Flights /\ Outcome[at[c]] = end
    BY <1>5, <2>0 DEF Return, Done, InsideForTask, Types, Outcome, OutcomeOf
  <2>2. CASE Shielded(c) /\ end = "timeout"
    <3>1. Contract!Leave(c, "exhausted")
      BY <1>5, <2>0, <2>2, LeaveRefines DEF Return
    <3> QED
      BY <1>5, <2>1, <2>2, <3>1 DEF Return, Shielded, Contract!GaveUp
  <2>3. CASE ~(Shielded(c) /\ end = "timeout")
    <3>1. Leave(c, end)
      BY <1>5, <2>0, <2>3 DEF Return
    <3>2. Contract!Leave(c, end)
      BY <1>5, <3>1, LeaveRefines DEF Return
    <3> QED
      BY <1>5, <2>1, <3>2
         DEF Return, Contract!Answered, Contract!Leave, Contract!Outcomes, Over,
             Outcome, OutcomeOf
  <2> QED
    BY <2>1, <2>2, <2>3
<1>6. ASSUME NEW c \in Callers, Exhausted(c)
      PROVE  at[c] # NoFlight /\ Contract!GaveUp(c)
  BY <1>6, LeaveRefines DEF Exhausted, Shielded, InsideForTask, Contract!GaveUp
<1>7. ASSUME NEW c \in Callers, CancelLeaves(c)
      PROVE  at[c] # NoFlight /\ Contract!Cancelled(c)
  BY <1>7, LeaveRefines
     DEF CancelLeaves, Shielded, Done, Over, InsideForTask, Types,
         Contract!Cancelled, Contract!Outcomes
<1>8. ASSUME NEW c \in Callers, CancelPassedOn(c)
      PROVE  at[c] # NoFlight /\ Contract!Hit(c)
  <2> DEFINE next == IF task[at[c]].at \in {"created", "doomed"}
                     THEN "doomed" ELSE "cancelling"
  <2>1. /\ at[c] \in Flights /\ task[at[c]].at \notin Over \cup {"none"}
        /\ TaskMoves(at[c], next) /\ hit' = hit \cup {c}
    BY <1>8 DEF CancelPassedOn, Done, InsideForTask, Types
  <2>2. next \in TaskAt \ {"none"} /\ next \notin Over
    BY DEF TaskAt, Over
  <2>3. /\ UNCHANGED <<at, Leaders, KeyOf, answer>>
        /\ Outcome[at[c]] = "open" /\ Outcome' = Outcome
    BY <2>1, <2>2, TaskRefines
  <2>4. c \in Patient \cup Leaders
    BY <1>8 DEF CancelPassedOn, Shielded, Leaders, Types
  <2> QED
    BY <2>1, <2>3, <2>4 DEF Contract!Hit, Leaders, KeyOf, Outcome, OutcomeOf
<1>9. \A k \in Keys : flights[k] \in Flights \cup {NoFlight}
  BY DEF Types
<1> QED
  BY <1>1, <1>2, <1>3, <1>4, <1>5, <1>6, <1>7, <1>8, <1>9
     DEF Next, Caller, Call, Leader, Join, Contract!Next, Contract!Outcomes, Over

(* run keeps its contract: calls share one execution, an execution has one    *)
(* outcome, a caller leaves with that or with its own time-out or           *)
(* cancellation.                                                           *)
THEOREM RunKeepsContract == Spec => KeepsContract
<1>1. Init => Contract!Init
  BY InitRefines
<1>2. IInv /\ [Next]_vars => [Contract!Next]_(Contract!vars)
  <2>1. ASSUME UNCHANGED vars
        PROVE  UNCHANGED Contract!vars
    BY <2>1 DEF vars, Contract!vars, Done
  <2> QED
    BY <2>1, StepRefines
<1> QED
  BY <1>1, <1>2, Invariant, PTL DEF Spec, KeepsContract, Contract!Spec
================================================================================
