----------------------------- MODULE FlightContract -----------------------------
(***************************************************************************)
(* What Singleflight.run promises its callers, without saying how: calls   *)
(* of one key share one execution of fn, an execution has one outcome, and *)
(* a caller leaves with that outcome, or with its own time-out or          *)
(* cancellation.  A call that begins after the first caller of an          *)
(* execution has left never gets that execution's outcome.                 *)
(***************************************************************************)
EXTENDS FiniteSets

CONSTANTS
    Callers, Keys, Flights,
    Patient,     \* callers whose effective budget is None
    NoFlight     \* "not inside run"

VARIABLES
    owed,     \* the execution each caller is inside run for
    first,    \* callers that opened the execution they are inside for
    keyOf,    \* the key of each execution
    outcome,  \* "none" before its first use, then "open", then its outcome
    answer,   \* how the last call of each caller ended
    hit       \* callers cancelled during their last call

vars == <<owed, first, keyOf, outcome, answer, hit>>

Outcomes == {"ok", "error", "timeout", "cancelled"}

Init ==
    /\ owed = [c \in Callers |-> NoFlight]
    /\ first = {}
    /\ keyOf \in [Flights -> Keys]
    /\ outcome = [f \in Flights |-> "none"]
    /\ answer = [c \in Callers |-> "none"]
    /\ hit = {}

Enter(c, f) ==
    /\ owed[c] = NoFlight
    /\ owed' = [owed EXCEPT ![c] = f]
    /\ answer' = [answer EXCEPT ![c] = "none"]
    /\ hit' = hit \ {c}

(* An execution begins only when its key has none that is still open.       *)
Open(c, k, f) ==
    /\ Enter(c, f)
    /\ \A g \in Flights : outcome[g] = "open" => keyOf[g] # k
    /\ outcome[f] # "open" /\ \A d \in Callers : owed[d] # f
    /\ first' = first \cup {c}
    /\ keyOf' = [keyOf EXCEPT ![f] = k]
    /\ outcome' = [outcome EXCEPT ![f] = "open"]

Share(c, f) ==
    /\ Enter(c, f)
    /\ \E d \in first : owed[d] = f
    /\ UNCHANGED <<first, keyOf, outcome>>

(* A cancelled caller may take the execution with it, a time-out never does. *)
Settle(f, o) ==
    /\ outcome[f] = "open"
    /\ o = "cancelled" => \E c \in hit : owed[c] = f
    /\ outcome' = [outcome EXCEPT ![f] = o]
    /\ UNCHANGED <<owed, first, keyOf, answer, hit>>

Leave(c, a) ==
    /\ owed[c] # NoFlight
    /\ owed' = [owed EXCEPT ![c] = NoFlight]
    /\ first' = first \ {c}
    /\ answer' = [answer EXCEPT ![c] = a]
    /\ UNCHANGED <<keyOf, outcome>>

(* The one who opened the execution waits for its end, whatever happens.    *)
Answered(c) ==
    /\ outcome[owed[c]] \in Outcomes
    /\ Leave(c, outcome[owed[c]])
    /\ UNCHANGED hit

GaveUp(c) ==
    /\ c \notin Patient \cup first
    /\ Leave(c, "exhausted")
    /\ UNCHANGED hit

Cancelled(c) ==
    /\ c \notin Patient \cup first \/ outcome[owed[c]] \in Outcomes
    /\ Leave(c, "cancelled")
    /\ hit' = hit \cup {c}

Hit(c) ==
    /\ c \in Patient \cup first /\ outcome[owed[c]] = "open"
    /\ hit' = hit \cup {c}
    /\ UNCHANGED <<owed, first, keyOf, outcome, answer>>

Next ==
    \/ \E c \in Callers, f \in Flights : Share(c, f) \/ \E k \in Keys : Open(c, k, f)
    \/ \E f \in Flights, o \in Outcomes : Settle(f, o)
    \/ \E c \in Callers : owed[c] # NoFlight
         /\ (Answered(c) \/ GaveUp(c) \/ Cancelled(c) \/ Hit(c))

Spec == Init /\ [][Next]_vars
=============================================================================
