--------------------------- MODULE SandboxPoolProofs ---------------------------
(* Proofs about SandboxPool, for every value of its constants.              *)
EXTENDS SandboxPool, FiniteSetTheorems, SequenceTheorems, TLAPS

(***************************************************************************)
(* Counting.  Callers and Sandboxes are finite, so the cardinalities that  *)
(* total_count and PendingExact are made of are natural numbers that move  *)
(* by one when one element comes or goes.                                  *)
(***************************************************************************)

LEMMA InUseFinite ==
    ASSUME TypeOK
    PROVE  IsFiniteSet(inUse) /\ Cardinality(inUse) \in Nat
BY PoolAssumption, FS_Subset, FS_CardinalityType DEF TypeOK

LEMMA AddOne ==
    ASSUME NEW S, IsFiniteSet(S), NEW x
    PROVE  /\ IsFiniteSet(S \cup {x})
           /\ Cardinality(S \cup {x}) \in Nat
           /\ Cardinality(S \cup {x}) <= Cardinality(S) + 1
           /\ x \notin S => Cardinality(S \cup {x}) = Cardinality(S) + 1
BY FS_AddElement, FS_CardinalityType

LEMMA DropOne ==
    ASSUME NEW S, IsFiniteSet(S), NEW x
    PROVE  /\ IsFiniteSet(S \ {x})
           /\ Cardinality(S \ {x}) \in Nat
           /\ Cardinality(S \ {x}) <= Cardinality(S)
           /\ x \in S => Cardinality(S \ {x}) = Cardinality(S) - 1
           /\ x \notin S => Cardinality(S \ {x}) = Cardinality(S)
<1>1. /\ IsFiniteSet(S \ {x}) /\ Cardinality(S \ {x}) \in Nat
      /\ Cardinality(S) \in Nat
  BY FS_RemoveElement, FS_CardinalityType
<1>2. /\ x \in S => Cardinality(S \ {x}) = Cardinality(S) - 1
      /\ x \notin S => Cardinality(S \ {x}) = Cardinality(S)
  BY FS_RemoveElement
<1> QED
  BY <1>1, <1>2

LEMMA ProvisioningFinite ==
    /\ IsFiniteSet(Provisioning) /\ Cardinality(Provisioning) \in Nat
BY PoolAssumption, FS_Subset, FS_CardinalityType DEF Provisioning

(* A provision in flight holds a pending slot: the decrements of            *)
(* _pending_count never take it below zero.                                *)
LEMMA InFlightIsCounted ==
    ASSUME TypeOK, PendingExact
    PROVE  /\ Provisioning # {} => pending >= 1
           /\ warmer.pc \in {"permit", "factory"} => pending >= 1
<1>1. Provisioning # {} => Cardinality(Provisioning) >= 1
  BY ProvisioningFinite, FS_EmptySet
<1>2. WarmerProvisions \in {0, 1}
  BY DEF WarmerProvisions
<1> QED
  BY <1>1, <1>2, ProvisioningFinite DEF PendingExact, WarmerProvisions, TypeOK

(***************************************************************************)
(* How the steps of a task move the set of callers that provision.         *)
(***************************************************************************)

LEMMA ProvisionBegins ==
    ASSUME TypeOK, NEW c \in Callers, pc[c] \notin {"permit", "factory"},
           NEW v \in {"permit", "factory"}, pc' = [pc EXCEPT ![c] = v]
    PROVE  Cardinality(Provisioning') = Cardinality(Provisioning) + 1
<1>1. Provisioning' = Provisioning \cup {c} /\ c \notin Provisioning
  BY DEF Provisioning, TypeOK
<1> QED
  BY <1>1, AddOne, ProvisioningFinite

LEMMA ProvisionEnds ==
    ASSUME TypeOK, NEW c \in Callers, pc[c] \in {"permit", "factory"},
           NEW v, v \notin {"permit", "factory"}, pc' = [pc EXCEPT ![c] = v]
    PROVE  Cardinality(Provisioning') = Cardinality(Provisioning) - 1
<1>1. Provisioning' = Provisioning \ {c} /\ c \in Provisioning
  BY DEF Provisioning, TypeOK
<1> QED
  BY <1>1, DropOne, ProvisioningFinite

LEMMA ProvisionUnmoved ==
    ASSUME TypeOK, NEW c \in Callers, NEW v,
           pc[c] \in {"permit", "factory"} <=> v \in {"permit", "factory"},
           pc' = [pc EXCEPT ![c] = v]
    PROVE  Provisioning' = Provisioning
BY DEF Provisioning, TypeOK

LEMMA NotifyUnmoved ==
    ASSUME TypeOK
    PROVE  /\ pc' = NotifyAll => Provisioning' = Provisioning
           /\ \A c \in Callers :
                pc[c] = "hold" /\ pc' = [NotifyAll EXCEPT ![c] = "idle"]
                  => Provisioning' = Provisioning
BY DEF Provisioning, TypeOK, NotifyAll

(***************************************************************************)
(* Sequences: what the deque operations of the pool return.                *)
(***************************************************************************)

LEMMA PrefixProperties ==
    ASSUME NEW S, NEW s, NEW n \in Nat, \A i \in 1..n : s[i] \in S
    PROVE  /\ SubSeq(s, 1, n) \in Seq(S)
           /\ Len(SubSeq(s, 1, n)) = n
           /\ \A i \in 1..n : SubSeq(s, 1, n)[i] = s[i]
<1>1. 1 \in Int /\ n \in Int
  OBVIOUS
<1>2. /\ SubSeq(s, 1, n) \in Seq(S)
      /\ Len(SubSeq(s, 1, n)) = IF 1 <= n THEN n - 1 + 1 ELSE 0
      /\ \A i \in 1..(n - 1 + 1) : SubSeq(s, 1, n)[i] = s[1 + i - 1]
  BY <1>1, SubSeqProperties
<1> QED
  BY <1>2

LEMMA FreeOperations ==
    ASSUME TypeOK
    PROVE  /\ free # <<>> => /\ Popped \in Sandboxes
                             /\ Rest \in Seq(Sandboxes)
                             /\ Len(Rest) = Len(free) - 1
           /\ \A s \in Sandboxes : /\ Append(free, s) \in Seq(Sandboxes)
                                   /\ Len(Append(free, s)) = Len(free) + 1
           /\ \A n \in 1..Len(free) :
                /\ SubSeq(free, n + 1, Len(free)) \in Seq(Sandboxes)
                /\ Len(SubSeq(free, n + 1, Len(free))) = Len(free) - n
                /\ {free[i] : i \in 1..n} \subseteq Sandboxes
           /\ FreeSet \subseteq Sandboxes
           /\ Len(free) \in Nat
           /\ free # <<>> => Len(free) >= 1
<1>1. free \in Seq(Sandboxes)
  BY DEF TypeOK
<1>2. Len(free) \in Nat /\ (free # <<>> => Len(free) >= 1)
  BY <1>1, EmptySeq, LenProperties
<1>3. \A i \in DOMAIN free : free[i] \in Sandboxes
  BY <1>1
<1>4. FreeSet \subseteq Sandboxes
  BY <1>3 DEF FreeSet
<1>5. ASSUME free # <<>>
      PROVE  /\ Popped \in Sandboxes
             /\ Rest \in Seq(Sandboxes)
             /\ Len(Rest) = Len(free) - 1
  <2>1. free[Len(free)] \in Sandboxes
    BY <1>1, <1>2, <1>3, <1>5
  <2>2. /\ SubSeq(free, 1, Len(free) - 1) \in Seq(Sandboxes)
        /\ Len(SubSeq(free, 1, Len(free) - 1)) = Len(free) - 1
    <3>1. \A i \in 1..(Len(free) - 1) : free[i] \in Sandboxes
      BY <1>1, <1>2, <1>3
    <3>2. Len(free) - 1 \in Nat
      BY <1>2, <1>5
    <3> QED
      BY <3>1, <3>2, PrefixProperties
  <2>3. /\ Head(free) \in Sandboxes /\ Tail(free) \in Seq(Sandboxes)
        /\ Len(Tail(free)) = Len(free) - 1
    BY <1>1, <1>5, HeadTailProperties
  <2> QED
    BY <2>1, <2>2, <2>3 DEF Popped, Rest
<1>6. \A n \in 1..Len(free) :
        /\ SubSeq(free, n + 1, Len(free)) \in Seq(Sandboxes)
        /\ Len(SubSeq(free, n + 1, Len(free))) = Len(free) - n
        /\ {free[i] : i \in 1..n} \subseteq Sandboxes
  BY <1>1, <1>2, <1>3, SubSeqProperties
<1>7. \A s \in Sandboxes : /\ Append(free, s) \in Seq(Sandboxes)
                           /\ Len(Append(free, s)) = Len(free) + 1
  BY <1>1, AppendProperties
<1> QED
  BY <1>2, <1>4, <1>5, <1>6, <1>7

(***************************************************************************)
(* The inductive invariant of the counters.  TypeOK and CapacityBound need *)
(* PendingExact: without it nothing says that _pending_count is positive   *)
(* when a provision ends and gives its slot back.                          *)
(***************************************************************************)

Counters == TypeOK /\ PendingExact /\ CapacityBound

LEMMA CountersInit == Init => Counters
<1> SUFFICES ASSUME Init PROVE Counters
  OBVIOUS
<1>1. TypeOK
  BY PoolAssumption, EmptySeq
     DEF Init, TypeOK, CallerPc, SweeperPc, WarmerPc, CloserPc
<1>2. Provisioning = {} /\ WarmerProvisions = 0 /\ warmer.pc # "stopped"
  BY PoolAssumption DEF Init, Provisioning, WarmerProvisions
<1>3. PendingExact
  BY <1>2, FS_EmptySet DEF Init, PendingExact
<1>4. CapacityBound
  BY FS_EmptySet, PoolAssumption DEF Init, CapacityBound
<1> QED
  BY <1>1, <1>3, <1>4 DEF Counters

(* Every step keeps the types.                                             *)
LEMMA TypeStep ==
    ASSUME Counters, Next
    PROVE  TypeOK'
<1> USE DEF TypeOK, CallerPc, poolVars, taskVars
<1>1. TypeOK /\ PendingExact
  BY DEF Counters
<1>a. ASSUME NEW c \in Callers, Acquire(c) \/ Release(c) PROVE TypeOK'
  <2>1. CASE WokenToLoop(c)
    BY <1>1, <1>a, <2>1 DEF WokenToLoop
  <2>2. CASE SleepAgain(c)
    BY <1>1, <1>a, <2>2 DEF SleepAgain
  <2>3. CASE AcquireClosed(c)
    BY <1>1, <1>a, <2>3 DEF AcquireClosed
  <2>4. CASE AcquireWarm(c)
    BY <1>1, <1>a, <2>4, FreeOperations DEF AcquireWarm
  <2>5. CASE AcquireGrow(c)
    BY <1>1, <1>a, <2>5 DEF AcquireGrow, ProvisionEntry
  <2>6. CASE AcquireWait(c)
    BY <1>1, <1>a, <2>6 DEF AcquireWait
  <2>7. CASE AcquireTimeout(c)
    BY <1>1, <1>a, <2>7 DEF AcquireTimeout
  <2>8. CASE EnterFactory(c)
    BY <1>1, <1>a, <2>8 DEF EnterFactory
  <2>9. ASSUME NEW s \in Sandboxes, ProvisionDone(c, s) PROVE TypeOK'
    BY <1>1, <1>a, <2>9, InFlightIsCounted DEF ProvisionDone, Provisioning
  <2>10. CASE ProvisionFailed(c)
    BY <1>1, <1>a, <2>10, InFlightIsCounted DEF ProvisionFailed, Provisioning
  <2>11. CASE ProbeOk(c)
    BY <1>1, <1>a, <2>11 DEF ProbeOk
  <2>12. CASE ProbeFailed(c)
    BY <1>1, <1>a, <2>12 DEF ProbeFailed
  <2>13. CASE CallerCancelled(c)
    BY <1>1, <1>a, <2>13 DEF CallerCancelled
  <2>14. CASE ReleaseUnknown(c)
    BY <1>1, <1>a, <2>14 DEF ReleaseUnknown
  <2>15. CASE ReleaseToPool(c)
    BY <1>1, <1>a, <2>15, FreeOperations DEF ReleaseToPool, NotifyAll
  <2>16. CASE ReleaseTeardown(c)
    BY <1>1, <1>a, <2>16 DEF ReleaseTeardown
  <2>17. CASE CallerClosed(c)
    BY <1>1, <1>a, <2>17 DEF CallerClosed
  <2> QED
    BY <1>a, <2>1, <2>2, <2>3, <2>4, <2>5, <2>6, <2>7, <2>8, <2>9, <2>10, <2>11, <2>12, <2>13, <2>14, <2>15, <2>16, <2>17 DEF Acquire, Release
<1>b. CASE Sweeper
  <2>1. ASSUME NEW n \in 1..Len(free), Sweep(n) PROVE TypeOK'
    BY <1>1, <2>1, FreeOperations DEF Sweep, SweeperPc
  <2>2. ASSUME NEW s \in Sandboxes, SweeperClosed(s) PROVE TypeOK'
    BY <1>1, <2>2 DEF SweeperClosed, SweeperPc
  <2> QED
    BY <1>b, <2>1, <2>2 DEF Sweeper
<1>c. CASE Warmer
  <2> USE DEF WarmerPc
  <2>1. CASE PrewarmTick
    <3>1. Deficit - 1 \in Nat
      BY <1>1, <2>1, PoolAssumption, FreeOperations, InUseFinite
         DEF PrewarmTick, Deficit, warm_count, total_count
    <3> QED
      BY <1>1, <2>1, <3>1 DEF PrewarmTick, ProvisionEntry
  <2>2. CASE WarmerEntersFactory
    BY <1>1, <2>2 DEF WarmerEntersFactory
  <2>3. ASSUME NEW s \in Sandboxes, PrewarmDone(s) PROVE TypeOK'
    BY <1>1, <2>3, InFlightIsCounted, FreeOperations
       DEF PrewarmDone, NotifyAll, NextTurn
  <2>4. ASSUME NEW s \in Sandboxes, PrewarmSurplus(s) PROVE TypeOK'
    BY <1>1, <2>4, InFlightIsCounted DEF PrewarmSurplus
  <2>5. CASE WarmerClosed
    BY <1>1, <2>5 DEF WarmerClosed
  <2>6. CASE PrewarmFailed
    BY <1>1, <2>6, InFlightIsCounted DEF PrewarmFailed
  <2> QED
    BY <1>c, <2>1, <2>2, <2>3, <2>4, <2>5, <2>6 DEF Warmer
<1>d. CASE Closer
  <2> USE DEF CloserPc
  <2>1. CASE Close
    BY <1>1, <2>1 DEF Close, SweeperPc
  <2>2. CASE CancelPrewarm
    BY <1>1, <2>2 DEF CancelPrewarm, WarmerPc
  <2>3. CASE Drain
    BY <1>1, <2>3, FreeOperations, EmptySeq DEF Drain, NotifyAll
  <2>4. ASSUME NEW s \in Sandboxes, CloserClosed(s) PROVE TypeOK'
    BY <1>1, <2>4 DEF CloserClosed
  <2>5. CASE CloseReturns
    BY <1>1, <2>5 DEF CloseReturns
  <2> QED
    BY <1>d, <2>1, <2>2, <2>3, <2>4, <2>5 DEF Closer
<1> QED
  BY <1>a, <1>b, <1>c, <1>d DEF Next

(* PendingExact sees only three things: the pending slots, which callers    *)
(* provision, and the state of the pre-warmer.                             *)
LEMMA PendingUnmoved ==
    ASSUME PendingExact, Provisioning' = Provisioning,
           UNCHANGED <<pending, warmer>>
    PROVE  PendingExact'
BY DEF PendingExact, WarmerProvisions

LEMMA PendingMovesWithCallers ==
    ASSUME PendingExact, UNCHANGED warmer, NEW d \in {-1, 1}, pending \in Nat,
           pending' = pending + d,
           Cardinality(Provisioning') = Cardinality(Provisioning) + d
    PROVE  PendingExact'
BY ProvisioningFinite DEF PendingExact, WarmerProvisions

(* Every step keeps the pending slots exact.                               *)
LEMMA PendingStep ==
    ASSUME Counters, Next
    PROVE  PendingExact'
<1> USE DEF poolVars, taskVars
<1>1. TypeOK /\ PendingExact /\ pending \in Nat
  BY DEF Counters, TypeOK
<1>a. ASSUME NEW c \in Callers, Acquire(c) \/ Release(c) PROVE PendingExact'
  <2>1. CASE WokenToLoop(c)
    BY <1>1, <2>1, ProvisionUnmoved, PendingUnmoved DEF WokenToLoop
  <2>2. CASE SleepAgain(c)
    BY <1>1, <2>2, ProvisionUnmoved, PendingUnmoved DEF SleepAgain
  <2>3. CASE AcquireClosed(c)
    BY <1>1, <2>3, ProvisionUnmoved, PendingUnmoved DEF AcquireClosed, AtLoopHead
  <2>4. CASE AcquireWarm(c)
    BY <1>1, <2>4, ProvisionUnmoved, PendingUnmoved DEF AcquireWarm, AtLoopHead
  <2>5. CASE AcquireWait(c)
    BY <1>1, <2>5, ProvisionUnmoved, PendingUnmoved DEF AcquireWait, AtLoopHead
  <2>6. CASE AcquireTimeout(c)
    BY <1>1, <2>6, ProvisionUnmoved, PendingUnmoved DEF AcquireTimeout
  <2>7. CASE EnterFactory(c)
    BY <1>1, <2>7, ProvisionUnmoved, PendingUnmoved DEF EnterFactory
  <2>8. CASE ProbeOk(c)
    BY <1>1, <2>8, ProvisionUnmoved, PendingUnmoved DEF ProbeOk
  <2>9. CASE ProbeFailed(c)
    BY <1>1, <2>9, ProvisionUnmoved, PendingUnmoved DEF ProbeFailed
  <2>10. CASE CallerCancelled(c)
    BY <1>1, <2>10, ProvisionUnmoved, PendingUnmoved DEF CallerCancelled
  <2>11. CASE ReleaseUnknown(c)
    BY <1>1, <2>11, ProvisionUnmoved, PendingUnmoved DEF ReleaseUnknown
  <2>12. CASE ReleaseTeardown(c)
    BY <1>1, <2>12, ProvisionUnmoved, PendingUnmoved DEF ReleaseTeardown
  <2>13. CASE CallerClosed(c)
    BY <1>1, <2>13, ProvisionUnmoved, PendingUnmoved DEF CallerClosed
  <2>14. CASE AcquireGrow(c)
    <3>1. ProvisionEntry \in {"permit", "factory"}
      BY DEF ProvisionEntry
    <3>2. Cardinality(Provisioning') = Cardinality(Provisioning) + 1
      BY <1>1, <2>14, <3>1, ProvisionBegins DEF AcquireGrow, AtLoopHead
    <3> QED
      BY <1>1, <2>14, <3>2, PendingMovesWithCallers DEF AcquireGrow
  <2>15. ASSUME NEW s \in Sandboxes, ProvisionDone(c, s) PROVE PendingExact'
    <3>1. Cardinality(Provisioning') = Cardinality(Provisioning) - 1
      BY <1>1, <2>15, ProvisionEnds DEF ProvisionDone
    <3> QED
      BY <1>1, <2>15, <3>1, ProvisioningFinite, PendingMovesWithCallers
         DEF ProvisionDone
  <2>16. CASE ProvisionFailed(c)
    <3>1. Cardinality(Provisioning') = Cardinality(Provisioning) - 1
      BY <1>1, <2>16, ProvisionEnds DEF ProvisionFailed
    <3> QED
      BY <1>1, <2>16, <3>1, ProvisioningFinite, PendingMovesWithCallers
         DEF ProvisionFailed
  <2>17. CASE ReleaseToPool(c)
    BY <1>1, <2>17, NotifyUnmoved, PendingUnmoved DEF ReleaseToPool
  <2> QED
    BY <1>a, <2>1, <2>2, <2>3, <2>4, <2>5, <2>6, <2>7, <2>8, <2>9, <2>10,
       <2>11, <2>12, <2>13, <2>14, <2>15, <2>16, <2>17 DEF Acquire, Release
<1>b. CASE Sweeper
  BY <1>1, <1>b, PendingUnmoved DEF Sweeper, Sweep, SweeperClosed, Provisioning
<1>c. CASE Warmer
  <2> USE <1>1, ProvisioningFinite DEF PendingExact, WarmerProvisions
  <2>1. CASE PrewarmTick
    <3>1. Provisioning' = Provisioning
      BY <2>1 DEF PrewarmTick, Provisioning
    <3> QED
      BY <2>1, <3>1 DEF PrewarmTick, ProvisionEntry
  <2>2. CASE WarmerEntersFactory
    <3>1. Provisioning' = Provisioning
      BY <2>2 DEF WarmerEntersFactory, Provisioning
    <3> QED
      BY <2>2, <3>1 DEF WarmerEntersFactory, TypeOK
  <2>3. ASSUME NEW s \in Sandboxes, PrewarmDone(s) PROVE PendingExact'
    <3>1. Provisioning' = Provisioning
      BY <2>3, NotifyUnmoved DEF PrewarmDone
    <3> QED
      BY <2>3, <3>1 DEF PrewarmDone
  <2>4. ASSUME NEW s \in Sandboxes, PrewarmSurplus(s) PROVE PendingExact'
    <3>1. Provisioning' = Provisioning
      BY <2>4 DEF PrewarmSurplus, Provisioning
    <3> QED
      BY <2>4, <3>1 DEF PrewarmSurplus
  <2>5. CASE WarmerClosed
    <3>1. Provisioning' = Provisioning
      BY <2>5 DEF WarmerClosed, Provisioning
    <3> QED
      BY <2>5, <3>1 DEF WarmerClosed
  <2>6. CASE PrewarmFailed
    <3>1. Provisioning' = Provisioning
      BY <2>6 DEF PrewarmFailed, Provisioning
    <3> QED
      BY <2>6, <3>1 DEF PrewarmFailed
  <2> QED
    BY <1>c, <2>1, <2>2, <2>3, <2>4, <2>5, <2>6 DEF Warmer
<1>d. CASE Closer
  <2>1. CASE Close
    BY <1>1, <2>1, PendingUnmoved DEF Close, Provisioning
  <2>2. CASE CancelPrewarm
    <3>1. Provisioning' = Provisioning
      BY <2>2 DEF CancelPrewarm, Provisioning
    <3> QED
      BY <1>1, <2>2, <3>1, ProvisioningFinite
         DEF CancelPrewarm, PendingExact, WarmerProvisions
  <2>3. CASE Drain
    BY <1>1, <2>3, NotifyUnmoved, PendingUnmoved DEF Drain
  <2>4. ASSUME NEW s \in Sandboxes, CloserClosed(s) PROVE PendingExact'
    BY <1>1, <2>4, PendingUnmoved DEF CloserClosed, Provisioning
  <2>5. CASE CloseReturns
    BY <1>1, <2>5, PendingUnmoved DEF CloseReturns, Provisioning
  <2> QED
    BY <1>d, <2>1, <2>2, <2>3, <2>4, <2>5 DEF Closer
<1> QED
  BY <1>a, <1>b, <1>c, <1>d DEF Next

(* Every step keeps total_count within max_size.                           *)
LEMMA CapacityStep ==
    ASSUME Counters, Next
    PROVE  CapacityBound'
<1> USE DEF poolVars, taskVars, CapacityBound
<1>1. TypeOK /\ CapacityBound
  BY DEF Counters
<1>2. /\ Len(free) \in Nat /\ Cardinality(inUse) \in Nat /\ pending \in Nat
      /\ MaxSize \in Nat \ {0} /\ IsFiniteSet(inUse)
  BY <1>1, FreeOperations, InUseFinite, PoolAssumption DEF TypeOK
<1>3. UNCHANGED <<free, inUse, pending>> => CapacityBound'
  BY <1>1
<1>a. ASSUME NEW c \in Callers, Acquire(c) \/ Release(c) PROVE CapacityBound'
  <2>1. CASE WokenToLoop(c) \/ SleepAgain(c) \/ AcquireClosed(c)
             \/ AcquireWait(c) \/ AcquireTimeout(c) \/ EnterFactory(c)
             \/ ProbeOk(c) \/ CallerCancelled(c) \/ ReleaseUnknown(c)
             \/ CallerClosed(c)
    BY <1>3, <2>1 DEF WokenToLoop, SleepAgain, AcquireClosed, AcquireWait,
       AcquireTimeout, EnterFactory, ProbeOk, CallerCancelled, ReleaseUnknown,
       CallerClosed
  <2>2. CASE AcquireWarm(c)
    <3>1. Cardinality(inUse \cup {Popped}) \in Nat
          /\ Cardinality(inUse \cup {Popped}) <= Cardinality(inUse) + 1
      BY <1>2, AddOne
    <3>2. Len(Rest) = Len(free) - 1
      BY <1>1, <2>2, FreeOperations DEF AcquireWarm
    <3> QED
      BY <1>1, <1>2, <2>2, <3>1, <3>2 DEF AcquireWarm
  <2>3. CASE AcquireGrow(c)
    BY <1>1, <1>2, <2>3 DEF AcquireGrow, total_count
  <2>4. ASSUME NEW s \in Sandboxes, ProvisionDone(c, s) PROVE CapacityBound'
    <3>1. Cardinality(inUse \cup {s}) \in Nat
          /\ Cardinality(inUse \cup {s}) <= Cardinality(inUse) + 1
      BY <1>2, AddOne
    <3> QED
      BY <1>1, <1>2, <2>4, <3>1 DEF ProvisionDone
  <2>5. CASE ProvisionFailed(c)
    BY <1>1, <1>2, <2>5 DEF ProvisionFailed
  <2>6. CASE ProbeFailed(c) \/ ReleaseTeardown(c)
    <3>1. Cardinality(inUse \ {ws[c]}) \in Nat
          /\ Cardinality(inUse \ {ws[c]}) <= Cardinality(inUse)
      BY <1>2, DropOne
    <3>2. free' = free /\ pending' = pending /\ inUse' = inUse \ {ws[c]}
      BY <2>6 DEF ProbeFailed, ReleaseTeardown
    <3> QED
      BY <1>1, <1>2, <3>1, <3>2
  <2>7. CASE ReleaseToPool(c)
    <3>1. Cardinality(inUse \ {ws[c]}) \in Nat
          /\ Cardinality(inUse \ {ws[c]}) = Cardinality(inUse) - 1
      BY <1>2, <2>7, DropOne DEF ReleaseToPool
    <3>2. Len(Append(free, ws[c])) = Len(free) + 1
      BY <1>1, <2>7, FreeOperations DEF ReleaseToPool, TypeOK
    <3> QED
      BY <1>1, <1>2, <2>7, <3>1, <3>2 DEF ReleaseToPool
  <2> QED
    BY <1>a, <2>1, <2>2, <2>3, <2>4, <2>5, <2>6, <2>7 DEF Acquire, Release
<1>b. CASE Sweeper
  <2>1. ASSUME NEW n \in 1..Len(free), Sweep(n) PROVE CapacityBound'
    BY <1>1, <1>2, <2>1, FreeOperations DEF Sweep
  <2> QED
    BY <1>b, <1>3, <2>1 DEF Sweeper, SweeperClosed
<1>c. CASE Warmer
  <2>1. CASE PrewarmTick
    BY <1>1, <1>2, <2>1, PoolAssumption
       DEF PrewarmTick, Deficit, warm_count, total_count
  <2>2. ASSUME NEW s \in Sandboxes, PrewarmDone(s) PROVE CapacityBound'
    <3>1. Len(free') = Len(free) + 1
      BY <1>1, <2>2, FreeOperations DEF PrewarmDone
    <3> QED
      BY <1>1, <1>2, <2>2, <3>1 DEF PrewarmDone, NextTurn, total_count
  <2>3. ASSUME NEW s \in Sandboxes, PrewarmSurplus(s) PROVE CapacityBound'
    BY <1>1, <1>2, <2>3 DEF PrewarmSurplus
  <2>4. CASE PrewarmFailed
    BY <1>1, <1>2, <2>4 DEF PrewarmFailed
  <2> QED
    BY <1>c, <1>3, <2>1, <2>2, <2>3, <2>4
       DEF Warmer, WarmerEntersFactory, WarmerClosed
<1>d. CASE Closer
  <2>1. CASE Drain
    BY <1>1, <1>2, <2>1, FS_EmptySet DEF Drain
  <2> QED
    BY <1>d, <1>3, <2>1
       DEF Closer, Close, CancelPrewarm, CloserClosed, CloseReturns
<1> QED
  BY <1>a, <1>b, <1>c, <1>d DEF Next

LEMMA CountersStep == Counters /\ [Next]_vars => Counters'
<1>1. ASSUME Counters, UNCHANGED vars PROVE Counters'
  BY <1>1 DEF Counters, vars, TypeOK, PendingExact, CapacityBound,
              Provisioning, WarmerProvisions
<1> QED
  BY <1>1, TypeStep, PendingStep, CapacityStep DEF Counters

(* The types, the exactness of _pending_count and the bound on total_count *)
(* hold in every reachable state, whatever the constants.                  *)
THEOREM PoolCounters == Spec => []Counters
BY CountersInit, CountersStep, PTL DEF Spec

(* The variables of _pool.py always have their types.                      *)
THEOREM PoolTypes == Spec => []TypeOK
<1>1. Counters => TypeOK
  BY DEF Counters
<1> QED
  BY <1>1, PoolCounters, PTL

(* acquire, release, the sweeper, the pre-warmer and aclose never let       *)
(* total_count exceed max_size.                                            *)
THEOREM PoolCapacity == Spec => []CapacityBound
<1>1. Counters => CapacityBound
  BY DEF Counters
<1> QED
  BY <1>1, PoolCounters, PTL

(* _pending_count is the number of provisions in flight, or one more after  *)
(* aclose cancelled the pre-warmer in one.                                 *)
THEOREM PoolPendingExact == Spec => []PendingExact
<1>1. Counters => PendingExact
  BY DEF Counters
<1> QED
  BY <1>1, PoolCounters, PTL

=============================================================================
