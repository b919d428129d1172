-------------------------- MODULE SandboxPoolOwnership --------------------------
(***************************************************************************)
(* Who owns a sandbox, and where every sandbox is: proofs that SandboxPool *)
(* leases a sandbox once and loses none, that each slot of _in_use is a    *)
(* lease, that a return wakes the sleepers, and that the provision         *)
(* semaphore holds, for every value of the constants.                      *)
(***************************************************************************)
EXTENDS SandboxPoolProofs

(***************************************************************************)
(* The inductive invariant.  A sandbox is in one place: the free list, the *)
(* hands of one caller, the sweeper's list, or the pre-warmer's hands.     *)
(* What is in the free list, or leased while the pool is open, is live, so *)
(* that the factory never returns it a second time.                        *)
(***************************************************************************)

FreeOnce == \A i, j \in DOMAIN free : free[i] = free[j] => i = j

HandsApart == \A c, d \in Callers : c # d => ws[c] # ws[d] \/ ws[c] = NoSandbox

Surplus == IF warmer.pc = "surplus" THEN {warmer.ws} ELSE {}

PlacesApart ==
    /\ Surplus \subseteq Sandboxes
    /\ FreeSet \cap (sweeper.todo \cup Surplus) = {}
    /\ sweeper.todo \cap Surplus = {}
    /\ \A c \in Callers : ws[c] \notin FreeSet \cup sweeper.todo \cup Surplus

KnownLive ==
    /\ FreeSet \subseteq live
    /\ ~closed => \A c \in Leased : ws[c] \in live

(* The free list is drained once and for all, and only the task that is     *)
(* closing has sandboxes to close.                                         *)
CloserConsistent ==
    /\ closed <=> closer.pc # "idle"
    /\ closer.pc \in {"closing", "done"} => free = <<>>
    /\ closer.pc # "closing" => closer.todo = {}
    /\ sweeper.pc # "closing" => sweeper.todo = {}

Ownership == FreeOnce /\ HandsApart /\ PlacesApart /\ KnownLive /\ CloserConsistent

(***************************************************************************)
(* What the deque operations do to the set of free sandboxes.              *)
(***************************************************************************)

(* A sequence whose elements are those of another that has no element twice,  *)
(* less the one at m.                                                      *)
LEMMA OneLess ==
    ASSUME NEW f, NEW g, NEW D, NEW E, NEW m \in D, NEW at,
           \A i \in E : at[i] \in D /\ at[i] # m /\ g[i] = f[at[i]],
           \A i, j \in E : at[i] = at[j] => i = j,
           \A i \in D : i # m => \E j \in E : at[j] = i,
           \A i, j \in D : f[i] = f[j] => i = j
    PROVE  /\ {g[i] : i \in E} = {f[i] : i \in D} \ {f[m]}
           /\ f[m] \in {f[i] : i \in D}
           /\ \A i, j \in E : g[i] = g[j] => i = j
<1>1. ASSUME NEW i \in E PROVE g[i] \in {f[j] : j \in D} \ {f[m]}
  OBVIOUS
<1>2. ASSUME NEW i \in D, f[i] # f[m] PROVE f[i] \in {g[j] : j \in E}
  <2>1. PICK j \in E : at[j] = i
    BY <1>2
  <2>2. g[j] = f[i]
    BY <2>1
  <2> QED
    BY <2>2
<1>3. \A i, j \in E : g[i] = g[j] => i = j
  OBVIOUS
<1>4. {g[i] : i \in E} = {f[i] : i \in D} \ {f[m]}
  BY <1>1, <1>2
<1> QED
  BY <1>3, <1>4

LEMMA PopMoves ==
    ASSUME TypeOK, FreeOnce, free # <<>>, free' = Rest
    PROVE  Popped \in FreeSet /\ FreeSet' = FreeSet \ {Popped} /\ FreeOnce'
<1> DEFINE n == Len(free)
<1>0. /\ free \in Seq(Sandboxes) /\ n \in Nat /\ n >= 1 /\ DOMAIN free = 1..n
      /\ Rest \in Seq(Sandboxes) /\ Len(Rest) = n - 1 /\ DOMAIN Rest = 1..(n - 1)
  BY FreeOperations, LenProperties DEF TypeOK
<1>1. n \in Nat /\ n >= 1 /\ DOMAIN free = 1..n /\ DOMAIN Rest = 1..(n - 1)
  BY <1>0
<1>2. ASSUME NEW at, NEW m \in DOMAIN free, Popped = free[m],
             \A i \in DOMAIN Rest : at[i] \in DOMAIN free /\ at[i] # m /\ Rest[i] = free[at[i]],
             \A i, j \in DOMAIN Rest : at[i] = at[j] => i = j,
             \A i \in DOMAIN free : i # m => \E j \in DOMAIN Rest : at[j] = i
      PROVE  Popped \in FreeSet /\ FreeSet' = FreeSet \ {Popped} /\ FreeOnce'
  <2>1. \A i, j \in DOMAIN free : free[i] = free[j] => i = j
    BY DEF FreeOnce
  <2>2. /\ {Rest[i] : i \in DOMAIN Rest} = {free[i] : i \in DOMAIN free} \ {free[m]}
        /\ free[m] \in {free[i] : i \in DOMAIN free}
        /\ \A i, j \in DOMAIN Rest : Rest[i] = Rest[j] => i = j
    BY <1>2, <2>1, OneLess
  <2> QED
    BY <1>2, <2>2 DEF FreeSet, FreeOnce
<1>3. CASE Strategy = "lifo"
  <2> DEFINE at == [i \in 1..(n - 1) |-> i]
  <2>1. \A i \in 1..(n - 1) : Rest[i] = free[i]
    <3>1. \A i \in 1..(n - 1) : free[i] \in Sandboxes
      BY <1>0
    <3> QED
      BY <1>0, <1>3, <3>1, PrefixProperties DEF Rest
  <2>2. Popped = free[n]
    BY <1>1, <1>3 DEF Popped
  <2> HIDE DEF n
  <2>3. n \in DOMAIN free
    BY <1>1
  <2>4. \A i \in DOMAIN Rest : at[i] = i /\ i \in DOMAIN free /\ i # n /\ Rest[i] = free[i]
    BY <1>1, <2>1
  <2>5. \A i \in DOMAIN free : i # n => i \in DOMAIN Rest
    BY <1>1
  <2> HIDE DEF at
  <2> QED
    BY <1>2, <2>2, <2>3, <2>4, <2>5
<1>4. CASE Strategy # "lifo"
  <2> DEFINE at == [i \in 1..(n - 1) |-> i + 1]
  <2>1. \A i \in 1..(n - 1) : Rest[i] = free[i + 1]
    BY <1>0, <1>4, HeadTailProperties DEF Rest
  <2>2. Popped = free[1]
    BY <1>0, <1>4, HeadTailProperties DEF Popped
  <2> HIDE DEF n
  <2>3. 1 \in DOMAIN free
    BY <1>1
  <2>4. \A i \in DOMAIN Rest : at[i] = i + 1
    BY <1>1
  <2>5. \A i \in DOMAIN Rest : i + 1 \in DOMAIN free /\ i + 1 # 1 /\ Rest[i] = free[i + 1]
    BY <1>1, <2>1
  <2>6. \A i, j \in DOMAIN Rest : i + 1 = j + 1 => i = j
    BY <1>1
  <2>7. \A i \in DOMAIN free : i # 1 => i - 1 \in DOMAIN Rest /\ (i - 1) + 1 = i
    BY <1>1
  <2> HIDE DEF at
  <2>8. \A i \in DOMAIN Rest : at[i] \in DOMAIN free /\ at[i] # 1 /\ Rest[i] = free[at[i]]
    BY <2>4, <2>5
  <2>9. \A i, j \in DOMAIN Rest : at[i] = at[j] => i = j
    BY <2>4, <2>6
  <2>10. \A i \in DOMAIN free : i # 1 => \E j \in DOMAIN Rest : at[j] = i
    BY <2>4, <2>7
  <2> QED
    BY <1>2, <2>2, <2>3, <2>8, <2>9, <2>10
<1> QED
  BY <1>3, <1>4

LEMMA AppendMoves ==
    ASSUME TypeOK, FreeOnce, NEW s \in Sandboxes, s \notin FreeSet,
           free' = Append(free, s)
    PROVE  FreeSet' = FreeSet \cup {s} /\ FreeOnce'
<1> DEFINE n == Len(free)
<1>0. free \in Seq(Sandboxes) /\ n \in Nat /\ DOMAIN free = 1..n
  BY LenProperties DEF TypeOK
<1>1. n \in Nat /\ DOMAIN free = 1..n
  BY <1>0
<1>2. /\ DOMAIN free' = 1..(n + 1)
      /\ \A i \in 1..n : free'[i] = free[i]
      /\ free'[n + 1] = s
  BY <1>0, AppendProperties
<1> HIDE DEF n
<1> QED
  BY <1>1, <1>2 DEF FreeSet, FreeOnce

LEMMA EvictMoves ==
    ASSUME TypeOK, FreeOnce, NEW k \in 1..Len(free),
           free' = SubSeq(free, k + 1, Len(free))
    PROVE  FreeSet' = FreeSet \ {free[i] : i \in 1..k} /\ FreeOnce'
<1> DEFINE n == Len(free)
<1>0. free \in Seq(Sandboxes) /\ n \in Nat /\ DOMAIN free = 1..n
  BY LenProperties DEF TypeOK
<1>1. n \in Nat /\ DOMAIN free = 1..n /\ k \in 1..n
  BY <1>0
<1>2. /\ DOMAIN free' = 1..(n - k)
      /\ \A i \in 1..(n - k) : free'[i] = free[k + i]
  BY <1>0, SubSeqProperties, LenProperties
<1> HIDE DEF n
<1>3. FreeOnce'
  <2>1. \A i, j \in 1..(n - k) :
           k + i \in 1..n /\ k + j \in 1..n /\ (k + i = k + j => i = j)
    BY <1>1
  <2>2. \A i, j \in 1..n : free[i] = free[j] => i = j
    BY <1>1 DEF FreeOnce
  <2>3. \A i, j \in 1..(n - k) : free'[i] = free'[j] => i = j
    BY <1>2, <2>1, <2>2
  <2> QED
    BY <1>2, <2>3 DEF FreeOnce
<1>4. FreeSet' \subseteq FreeSet \ {free[i] : i \in 1..k}
  <2> SUFFICES ASSUME NEW i \in 1..(n - k)
               PROVE  free'[i] \in FreeSet \ {free[j] : j \in 1..k}
    BY <1>2 DEF FreeSet
  <2>1. k + i \in 1..n /\ k + i \notin 1..k /\ free'[i] = free[k + i]
    BY <1>1, <1>2
  <2>2. free'[i] \in FreeSet /\ \A j \in 1..k : k + i # j /\ j \in DOMAIN free
    BY <1>1, <2>1 DEF FreeSet
  <2>3. \A j \in 1..k : free[k + i] # free[j]
    BY <1>1, <2>1, <2>2 DEF FreeOnce
  <2> QED
    BY <2>1, <2>2, <2>3
<1>5. FreeSet \ {free[i] : i \in 1..k} \subseteq FreeSet'
  <2> SUFFICES ASSUME NEW i \in 1..n, i \notin 1..k PROVE free[i] \in FreeSet'
    BY <1>1 DEF FreeSet
  <2>1. i - k \in 1..(n - k) /\ free'[i - k] = free[i]
    BY <1>1, <1>2
  <2> QED
    BY <1>2, <2>1 DEF FreeSet
<1> QED
  BY <1>3, <1>4, <1>5

(***************************************************************************)
(* The steps.  Most of them only move a caller from one wait to another,   *)
(* or take a sandbox out of its hands.                                     *)
(***************************************************************************)

LEMMA CallerMoves ==
    ASSUME Ownership, UNCHANGED <<free, closed, live, ws, taskVars>>,
           Leased' \subseteq Leased
    PROVE  Ownership'
BY DEF Ownership, FreeOnce, HandsApart, PlacesApart, KnownLive, CloserConsistent,
       FreeSet, Surplus, taskVars

LEMMA CallerLetsGo ==
    ASSUME TypeOK, Ownership, UNCHANGED <<free, closed, taskVars>>,
           NEW c \in Callers, Leased' \subseteq Leased \ {c},
           ws' = [ws EXCEPT ![c] = NoSandbox],
           live' \in {live, live \ {ws[c]}}
    PROVE  Ownership'
<1> USE DEF taskVars
<1>1. /\ NoSandbox \notin Sandboxes /\ FreeSet \subseteq Sandboxes
      /\ sweeper.todo \subseteq Sandboxes
      /\ \A d \in Callers : ws'[d] = IF d = c THEN NoSandbox ELSE ws[d]
  BY PoolAssumption, FreeOperations DEF TypeOK
<1>2. FreeOnce' /\ HandsApart' /\ CloserConsistent' /\ FreeSet' = FreeSet
      /\ Surplus' = Surplus
  BY <1>1 DEF Ownership, FreeOnce, HandsApart, CloserConsistent, FreeSet, Surplus
<1>3. PlacesApart'
  BY <1>1, <1>2 DEF Ownership, PlacesApart
<1>4. FreeSet' \subseteq live'
  BY <1>2 DEF Ownership, PlacesApart, KnownLive
<1>5. ASSUME ~closed, NEW d \in Leased' PROVE ws'[d] \in live'
  <2>1. d \in Leased /\ d \in Callers /\ d # c /\ ws'[d] = ws[d]
    BY <1>1 DEF Leased
  <2>2. ws[d] \in live /\ ws[d] # NoSandbox
    BY <1>1, <1>5, <2>1 DEF Ownership, KnownLive, TypeOK
  <2>3. ws[d] # ws[c]
    BY <2>1, <2>2 DEF Ownership, HandsApart
  <2> QED
    BY <2>1, <2>2, <2>3
<1> QED
  BY <1>2, <1>3, <1>4, <1>5 DEF Ownership, KnownLive

(* A step of a caller keeps every sandbox in one place.                    *)
LEMMA CallerKeepsOwnership ==
    ASSUME TypeOK, Ownership, NEW c \in Callers, Acquire(c) \/ Release(c)
    PROVE  Ownership'
<1> USE DEF poolVars, taskVars
<1>1. CASE WokenToLoop(c) \/ SleepAgain(c) \/ AcquireClosed(c) \/ AcquireGrow(c)
           \/ AcquireWait(c) \/ AcquireTimeout(c) \/ EnterFactory(c)
           \/ ProvisionFailed(c) \/ ProbeOk(c) \/ ProbeFailed(c)
           \/ ReleaseTeardown(c)
  <2>1. UNCHANGED <<free, closed, live, ws, taskVars>>
    BY <1>1 DEF WokenToLoop, SleepAgain, AcquireClosed, AcquireGrow, AcquireWait,
       AcquireTimeout, EnterFactory, ProvisionFailed, ProbeOk, ProbeFailed,
       ReleaseTeardown
  <2>2. Leased' \subseteq Leased
    BY <1>1 DEF WokenToLoop, SleepAgain, AcquireClosed, AcquireGrow, AcquireWait,
       AcquireTimeout, EnterFactory, ProvisionFailed, ProbeOk, ProbeFailed,
       ReleaseTeardown, ProvisionEntry, Leased, TypeOK
  <2> QED
    BY <2>1, <2>2, CallerMoves
<1>2. CASE CallerCancelled(c) \/ ReleaseUnknown(c) \/ CallerClosed(c)
  <2>1. /\ UNCHANGED <<free, closed, taskVars>>
        /\ ws' = [ws EXCEPT ![c] = NoSandbox]
        /\ live' \in {live, live \ {ws[c]}}
    BY <1>2 DEF CallerCancelled, ReleaseUnknown, CallerClosed
  <2>2. Leased' \subseteq Leased \ {c}
    BY <1>2 DEF CallerCancelled, ReleaseUnknown, CallerClosed, Leased, TypeOK
  <2> QED
    BY <2>1, <2>2, CallerLetsGo
<1>3. CASE AcquireWarm(c)
  <2>1. /\ free # <<>> /\ free' = Rest /\ ~closed
        /\ ws' = [ws EXCEPT ![c] = Popped]
        /\ UNCHANGED <<closed, live, taskVars>>
    BY <1>3 DEF AcquireWarm
  <2>2. Popped \in FreeSet /\ FreeSet' = FreeSet \ {Popped} /\ FreeOnce'
    BY <2>1, PopMoves DEF Ownership
  <2>3. \A d \in Callers : ws'[d] = IF d = c THEN Popped ELSE ws[d]
    BY <2>1 DEF TypeOK
  <2>4. HandsApart' /\ PlacesApart'
    BY <2>1, <2>2, <2>3 DEF Ownership, HandsApart, PlacesApart, Surplus
  <2>5. Leased' \subseteq Leased \cup {c}
    BY <1>3 DEF AcquireWarm, Leased, TypeOK
  <2>6. KnownLive'
    BY <2>1, <2>2, <2>3, <2>5 DEF Ownership, KnownLive, Leased
  <2>7. CloserConsistent'
    BY <2>1 DEF Ownership, CloserConsistent
  <2> QED
    BY <2>2, <2>4, <2>6, <2>7 DEF Ownership
<1>4. ASSUME NEW s \in Sandboxes, ProvisionDone(c, s) PROVE Ownership'
  <2>1. /\ live' = live \cup {s} /\ ws' = [ws EXCEPT ![c] = s]
        /\ UNCHANGED <<free, closed, taskVars>>
    BY <1>4 DEF ProvisionDone
  <2>2. /\ s \notin live \cup sweeper.todo \cup Surplus
        /\ \A d \in Callers : ws[d] # s
    BY <1>4 DEF ProvisionDone, Fresh, Closing, Surplus
  <2>3. \A d \in Callers : ws'[d] = IF d = c THEN s ELSE ws[d]
    BY <2>1 DEF TypeOK
  <2>4. s \notin FreeSet /\ FreeSet' = FreeSet /\ Surplus' = Surplus
    BY <2>1, <2>2 DEF Ownership, KnownLive, FreeSet, Surplus
  <2>5. HandsApart' /\ PlacesApart'
    BY <2>1, <2>2, <2>3, <2>4 DEF Ownership, HandsApart, PlacesApart
  <2>6. Leased' \subseteq Leased \cup {c}
    BY <1>4 DEF ProvisionDone, Leased, TypeOK
  <2>7. KnownLive'
    BY <2>1, <2>3, <2>4, <2>6 DEF Ownership, KnownLive, Leased
  <2>8. FreeOnce' /\ CloserConsistent'
    BY <2>1 DEF Ownership, FreeOnce, CloserConsistent
  <2> QED
    BY <2>5, <2>7, <2>8 DEF Ownership
<1>5. CASE ReleaseToPool(c)
  <2>1. /\ ws[c] \in Sandboxes /\ ws[c] # NoSandbox /\ c \in Leased
        /\ free' = Append(free, ws[c]) /\ ~closed
        /\ ws' = [ws EXCEPT ![c] = NoSandbox]
        /\ UNCHANGED <<closed, live, taskVars>>
    BY <1>5, PoolAssumption DEF ReleaseToPool, Leased, TypeOK
  <2>2. ws[c] \notin FreeSet /\ ws[c] \in live
    BY <2>1 DEF Ownership, PlacesApart, KnownLive
  <2>3. FreeSet' = FreeSet \cup {ws[c]} /\ FreeOnce'
    BY <2>1, <2>2, AppendMoves DEF Ownership
  <2>4. \A d \in Callers : ws'[d] = IF d = c THEN NoSandbox ELSE ws[d]
    BY <2>1 DEF TypeOK
  <2>5. /\ NoSandbox \notin Sandboxes /\ FreeSet \subseteq Sandboxes
        /\ sweeper.todo \subseteq Sandboxes
    BY PoolAssumption, FreeOperations DEF TypeOK
  <2>6. HandsApart' /\ PlacesApart'
    BY <2>1, <2>3, <2>4, <2>5 DEF Ownership, HandsApart, PlacesApart, Surplus
  <2>7. Leased' \subseteq Leased \ {c}
    BY <1>5 DEF ReleaseToPool, NotifyAll, Leased, TypeOK
  <2>8. KnownLive'
    BY <2>1, <2>2, <2>3, <2>4, <2>7 DEF Ownership, KnownLive, Leased
  <2>9. CloserConsistent'
    BY <2>1 DEF Ownership, CloserConsistent
  <2> QED
    BY <2>3, <2>6, <2>8, <2>9 DEF Ownership
<1> QED
  BY <1>1, <1>2, <1>3, <1>4, <1>5 DEF Acquire, Release

(* ... and so does a step of the sweeper, the pre-warmer or aclose.        *)
LEMMA SweeperKeepsOwnership ==
    ASSUME TypeOK, Ownership, Sweeper
    PROVE  Ownership'
<1> USE DEF poolVars
<1>1. ASSUME NEW n \in 1..Len(free), Sweep(n) PROVE Ownership'
  <2>1. /\ sweeper' = [pc |-> "closing", todo |-> {free[i] : i \in 1..n}]
        /\ free' = SubSeq(free, n + 1, Len(free)) /\ sweeper.pc = "sleep"
        /\ UNCHANGED <<closed, live, pc, ws, warmer, closer>>
    BY <1>1 DEF Sweep
  <2>2. /\ FreeSet' = FreeSet \ {free[i] : i \in 1..n} /\ FreeOnce'
        /\ {free[i] : i \in 1..n} \subseteq FreeSet
    <3>1. \A i \in 1..n : i \in DOMAIN free
      BY LenProperties DEF TypeOK
    <3> QED
      BY <2>1, <3>1, EvictMoves DEF Ownership, FreeSet
  <2>3. HandsApart' /\ PlacesApart'
    BY <2>1, <2>2 DEF Ownership, HandsApart, PlacesApart, Surplus
  <2>4. KnownLive'
    BY <2>1, <2>2 DEF Ownership, KnownLive, Leased
  <2>5. CloserConsistent'
    <3>1. closer.pc \in {"closing", "done"} => FALSE
      BY <1>1, EmptySeq, LenProperties DEF Ownership, CloserConsistent
    <3> QED
      BY <2>1, <3>1 DEF Ownership, CloserConsistent
  <2> QED
    BY <2>2, <2>3, <2>4, <2>5 DEF Ownership
<1>2. ASSUME NEW s \in Sandboxes, SweeperClosed(s) PROVE Ownership'
  <2>1. /\ live' = live \ {s} /\ s \in sweeper.todo
        /\ sweeper'.todo = sweeper.todo \ {s}
        /\ sweeper'.pc # "closing" => sweeper'.todo = {}
        /\ UNCHANGED <<free, closed, pc, ws, warmer, closer>>
    BY <1>2 DEF SweeperClosed
  <2> QED
    BY <2>1 DEF Ownership, FreeOnce, HandsApart, PlacesApart, KnownLive,
       CloserConsistent, FreeSet, Surplus, Leased
<1> QED
  BY <1>1, <1>2 DEF Sweeper

LEMMA WarmerKeepsOwnership ==
    ASSUME TypeOK, Ownership, Warmer
    PROVE  Ownership'
<1> USE DEF poolVars
<1>1. CASE PrewarmTick \/ WarmerEntersFactory \/ PrewarmFailed
  <2>1. /\ UNCHANGED <<free, closed, live, pc, ws, sweeper, closer>>
        /\ warmer'.pc # "surplus"
    BY <1>1 DEF PrewarmTick, WarmerEntersFactory, PrewarmFailed, ProvisionEntry,
       TypeOK
  <2> QED
    BY <2>1 DEF Ownership, FreeOnce, HandsApart, PlacesApart, KnownLive,
       CloserConsistent, FreeSet, Surplus, Leased
<1>2. ASSUME NEW s \in Sandboxes, PrewarmDone(s) PROVE Ownership'
  <2>1. /\ free' = Append(free, s) /\ live' = live \cup {s} /\ ~closed
        /\ pc' = NotifyAll /\ warmer.pc = "factory"
        /\ warmer'.pc # "surplus"
        /\ UNCHANGED <<closed, ws, sweeper, closer>>
    BY <1>2 DEF PrewarmDone
  <2>2. s \notin live \cup sweeper.todo /\ \A d \in Callers : ws[d] # s
    BY <1>2 DEF PrewarmDone, Fresh, Closing
  <2>3. s \notin FreeSet
    BY <2>2 DEF Ownership, KnownLive
  <2>4. FreeSet' = FreeSet \cup {s} /\ FreeOnce'
    BY <2>1, <2>3, AppendMoves DEF Ownership
  <2>5. HandsApart' /\ PlacesApart'
    BY <2>1, <2>2, <2>4 DEF Ownership, HandsApart, PlacesApart, Surplus
  <2>6. Leased' \subseteq Leased
    BY <2>1 DEF NotifyAll, Leased, TypeOK
  <2>7. KnownLive'
    BY <2>1, <2>4, <2>6 DEF Ownership, KnownLive
  <2>8. CloserConsistent'
    BY <2>1 DEF Ownership, CloserConsistent
  <2> QED
    BY <2>4, <2>5, <2>7, <2>8 DEF Ownership
<1>3. ASSUME NEW s \in Sandboxes, PrewarmSurplus(s) PROVE Ownership'
  <2>1. /\ live' = live \cup {s} /\ warmer'.pc = "surplus" /\ warmer'.ws = s
        /\ UNCHANGED <<free, closed, pc, ws, sweeper, closer>>
    BY <1>3 DEF PrewarmSurplus
  <2>2. s \notin live \cup sweeper.todo /\ \A d \in Callers : ws[d] # s
    BY <1>3 DEF PrewarmSurplus, Fresh, Closing
  <2>3. s \notin FreeSet
    BY <2>2 DEF Ownership, KnownLive
  <2> QED
    BY <2>1, <2>2, <2>3 DEF Ownership, FreeOnce, HandsApart, PlacesApart,
       KnownLive, CloserConsistent, FreeSet, Surplus, Leased
<1>4. CASE WarmerClosed
  <2>1. /\ live' = live \ Surplus /\ warmer'.pc # "surplus"
        /\ UNCHANGED <<free, closed, pc, ws, sweeper, closer>>
    BY <1>4 DEF WarmerClosed, Surplus
  <2> QED
    BY <2>1 DEF Ownership, FreeOnce, HandsApart, PlacesApart, KnownLive,
       CloserConsistent, FreeSet, Surplus, Leased
<1> QED
  BY <1>1, <1>2, <1>3, <1>4 DEF Warmer

LEMMA CloserKeepsOwnership ==
    ASSUME TypeOK, Ownership, Closer
    PROVE  Ownership'
<1> USE DEF poolVars, TypeOK
<1>1. CASE Close
  BY <1>1 DEF Close, Ownership, FreeOnce, HandsApart, PlacesApart, KnownLive,
     CloserConsistent, FreeSet, Surplus, Leased
<1>2. CASE CancelPrewarm
  BY <1>2 DEF CancelPrewarm, Ownership, FreeOnce, HandsApart, PlacesApart,
     KnownLive, CloserConsistent, FreeSet, Surplus, Leased
<1>3. CASE Drain
  <2>1. FreeSet' = {} /\ FreeOnce'
    BY <1>3, EmptySeq DEF Drain, FreeSet, FreeOnce
  <2>2. /\ closed' /\ closed /\ closer'.pc = "closing" /\ free' = <<>>
        /\ UNCHANGED <<live, ws, sweeper, warmer>>
    BY <1>3 DEF Drain, Ownership, CloserConsistent
  <2> QED
    BY <2>1, <2>2 DEF Ownership, HandsApart, PlacesApart, KnownLive,
       CloserConsistent, Surplus
<1>4. ASSUME NEW s \in Sandboxes, CloserClosed(s) PROVE Ownership'
  <2>1. /\ closed /\ closed' /\ free = <<>> /\ FreeSet = {}
        /\ closer'.pc = "closing" /\ live' = live \ {s}
        /\ UNCHANGED <<free, pc, ws, sweeper, warmer>>
    BY <1>4, EmptySeq DEF CloserClosed, Ownership, CloserConsistent, FreeSet
  <2> QED
    BY <2>1 DEF Ownership, FreeOnce, HandsApart, PlacesApart, KnownLive,
       CloserConsistent, FreeSet, Surplus
<1>5. CASE CloseReturns
  BY <1>5 DEF CloseReturns, Ownership, FreeOnce, HandsApart, PlacesApart,
     KnownLive, CloserConsistent, FreeSet, Surplus, Leased
<1> QED
  BY <1>1, <1>2, <1>3, <1>4, <1>5 DEF Closer

LEMMA OwnershipInit == Init => Ownership
BY PoolAssumption, EmptySeq DEF Init, Ownership, FreeOnce, HandsApart, PlacesApart,
   KnownLive, CloserConsistent, FreeSet, Surplus, Leased

LEMMA OwnershipStep == TypeOK /\ Ownership /\ [Next]_vars => Ownership'
<1>1. ASSUME Ownership, UNCHANGED vars PROVE Ownership'
  BY <1>1 DEF vars, Ownership, FreeOnce, HandsApart, PlacesApart, KnownLive,
     CloserConsistent, FreeSet, Surplus, Leased
<1> QED
  BY <1>1, CallerKeepsOwnership, SweeperKeepsOwnership, WarmerKeepsOwnership,
     CloserKeepsOwnership DEF Next

(* A sandbox has one owner in every reachable state: the free list, one     *)
(* caller, the sweeper or the pre-warmer.                                  *)
THEOREM PoolOwnership == Spec => []Ownership
BY PoolTypes, OwnershipInit, OwnershipStep, PTL DEF Spec

(* acquire never hands out a sandbox that another caller has in hand, or    *)
(* that is still in the free list.                                         *)
THEOREM PoolExclusiveLease == Spec => []ExclusiveLease
<1>1. Ownership => ExclusiveLease
  BY DEF Ownership, FreeOnce, HandsApart, PlacesApart, ExclusiveLease
<1> QED
  BY <1>1, PoolOwnership, PTL

(* While the pool is open nothing tears down a leased sandbox, nor one that *)
(* waits in the free list.                                                 *)
THEOREM PoolLeasedIsLive == Spec => []LeasedIsLive
<1>1. TypeOK /\ Ownership => LeasedIsLive
  <2> SUFFICES ASSUME TypeOK, Ownership, ~closed,
                      NEW s \in FreeSet \cup {ws[c] : c \in Leased}
               PROVE  s \in live /\ s \notin Closing
    BY DEF LeasedIsLive
  <2>1. s \in live /\ s # NoSandbox
    BY PoolAssumption DEF Ownership, KnownLive, TypeOK
  <2>2. closer.todo = {} /\ s \notin sweeper.todo \cup Surplus
    BY DEF Ownership, CloserConsistent, PlacesApart, Leased
  <2>3. ASSUME NEW c \in Callers, pc[c] \in {"discard", "teardown"}, ws[c] = s
        PROVE  FALSE
    BY <2>1, <2>3 DEF Ownership, PlacesApart, HandsApart, Leased
  <2> QED
    BY <2>1, <2>2, <2>3 DEF Closing, Surplus
<1> QED
  BY <1>1, PoolTypes, PoolOwnership, PTL

(***************************************************************************)
(* Where every sandbox is, an invariant relative to Ownership: what is in  *)
(* use is live and neither free nor being torn down.                       *)
(***************************************************************************)

Tearing == {c \in Callers : pc[c] \in {"discard", "teardown"}}

InUseApart == inUse \subseteq live \ (FreeSet \cup Closing)

Accounts == InUseApart /\ NothingLost /\ InUseIsLeased

LEMMA ClosingIs ==
    Closing = {ws[c] : c \in Tearing} \cup sweeper.todo \cup closer.todo \cup Surplus
BY DEF Closing, Tearing, Surplus

LEMMA ClosingIsNext ==
    Closing' = {ws'[c] : c \in Tearing'} \cup sweeper'.todo \cup closer'.todo
                 \cup Surplus'
BY DEF Closing, Tearing, Surplus

(***************************************************************************)
(* The steps.                                                              *)
(***************************************************************************)

LEMMA QuietKeepsAccounts ==
    ASSUME Accounts, UNCHANGED <<free, inUse, live, ws, cut, sweeper, closer>>,
           Surplus' = Surplus, Leased' = Leased, Tearing' = Tearing
    PROVE  Accounts'
<1>1. Closing' = Closing /\ FreeSet' = FreeSet
  BY ClosingIs, ClosingIsNext DEF FreeSet
<1> QED
  BY <1>1 DEF Accounts, InUseApart, NothingLost, InUseIsLeased

(* What acquire and release do to the places a sandbox can be in.          *)
LEMMA CallerKeepsAccounts ==
    ASSUME TypeOK, Ownership, Accounts, NEW c \in Callers, Acquire(c) \/ Release(c)
    PROVE  Accounts'
<1> USE DEF poolVars, taskVars
<1>0. /\ NoSandbox \notin Sandboxes
      /\ inUse \subseteq Sandboxes /\ live \subseteq Sandboxes
  BY PoolAssumption DEF TypeOK
<1>1. CASE WokenToLoop(c) \/ SleepAgain(c) \/ AcquireClosed(c) \/ AcquireGrow(c)
           \/ AcquireWait(c) \/ AcquireTimeout(c) \/ EnterFactory(c)
           \/ ProvisionFailed(c) \/ ProbeOk(c)
  <2>1. /\ UNCHANGED <<free, inUse, live, ws, cut, sweeper, closer>>
        /\ UNCHANGED warmer
    BY <1>1 DEF WokenToLoop, SleepAgain, AcquireClosed, AcquireGrow, AcquireWait,
       AcquireTimeout, EnterFactory, ProvisionFailed, ProbeOk
  <2>2. Leased' = Leased /\ Tearing' = Tearing
    BY <1>1 DEF WokenToLoop, SleepAgain, AcquireClosed, AcquireGrow, AcquireWait,
       AcquireTimeout, EnterFactory, ProvisionFailed, ProbeOk, ProvisionEntry,
       AtLoopHead, Leased, Tearing, TypeOK
  <2> QED
    BY <2>1, <2>2, QuietKeepsAccounts DEF Surplus
<1>2. CASE AcquireWarm(c)
  <2>1. /\ free # <<>> /\ free' = Rest /\ inUse' = inUse \cup {Popped}
        /\ c \notin Leased /\ c \notin Tearing
        /\ ws' = [ws EXCEPT ![c] = Popped]
        /\ UNCHANGED <<live, sweeper, warmer, closer, cut>>
    BY <1>2 DEF AcquireWarm, AtLoopHead, Leased, Tearing
  <2>2. Popped \in FreeSet /\ FreeSet' = FreeSet \ {Popped}
    BY <2>1, PopMoves DEF Ownership
  <2>3. /\ Leased' = Leased \cup {c} /\ Tearing' = Tearing
        /\ \A d \in Callers : ws'[d] = IF d = c THEN Popped ELSE ws[d]
    BY <1>2 DEF AcquireWarm, AtLoopHead, Leased, Tearing, TypeOK
  <2>4. Closing' = Closing
    BY <2>1, <2>3, ClosingIs, ClosingIsNext DEF Surplus, Tearing
  <2>5. Popped \notin Closing /\ Popped \in live
    BY <2>1, <2>2, ClosingIs DEF Ownership, PlacesApart, KnownLive,
       CloserConsistent, Tearing, TypeOK, CloserPc
  <2>6. InUseApart' /\ NothingLost'
    BY <2>1, <2>2, <2>4, <2>5 DEF Accounts, InUseApart, NothingLost
  <2>7. InUseIsLeased'
    BY <2>1, <2>3 DEF Accounts, InUseIsLeased, Leased
  <2> QED
    BY <2>6, <2>7 DEF Accounts
<1>3. ASSUME NEW s \in Sandboxes, ProvisionDone(c, s) PROVE Accounts'
  <2>1. /\ inUse' = inUse \cup {s} /\ live' = live \cup {s} /\ s \in Fresh
        /\ c \notin Leased /\ c \notin Tearing
        /\ ws' = [ws EXCEPT ![c] = s]
        /\ UNCHANGED <<free, sweeper, warmer, closer, cut>>
    BY <1>3 DEF ProvisionDone, Leased, Tearing
  <2>2. /\ Leased' = Leased \cup {c} /\ Tearing' = Tearing
        /\ \A d \in Callers : ws'[d] = IF d = c THEN s ELSE ws[d]
    BY <1>3 DEF ProvisionDone, Leased, Tearing, TypeOK
  <2>3. Closing' = Closing /\ FreeSet' = FreeSet
    BY <2>1, <2>2, ClosingIs, ClosingIsNext DEF Surplus, Tearing, FreeSet
  <2>4. s \notin Closing /\ s \notin FreeSet
    BY <2>1 DEF Fresh, Ownership, KnownLive
  <2>5. InUseApart' /\ NothingLost'
    BY <2>1, <2>3, <2>4 DEF Accounts, InUseApart, NothingLost
  <2>6. InUseIsLeased'
    BY <2>1, <2>2 DEF Accounts, InUseIsLeased, Leased
  <2> QED
    BY <2>5, <2>6 DEF Accounts
<1>4. CASE ProbeFailed(c) \/ ReleaseTeardown(c)
  <2>1. /\ inUse' = inUse \ {ws[c]}
        /\ UNCHANGED <<free, live, ws, sweeper, warmer, closer, cut>>
    BY <1>4 DEF ProbeFailed, ReleaseTeardown
  <2>2. Leased' = Leased \ {c} /\ Tearing' = Tearing \cup {c}
    BY <1>4 DEF ProbeFailed, ReleaseTeardown, Leased, Tearing, TypeOK
  <2>3. Closing' = Closing \cup {ws[c]} /\ FreeSet' = FreeSet
    BY <2>1, <2>2, ClosingIs, ClosingIsNext DEF Surplus, FreeSet
  <2> QED
    BY <2>1, <2>2, <2>3 DEF Accounts, InUseApart, NothingLost, InUseIsLeased
<1>5. CASE CallerCancelled(c)
  <2>1. /\ cut' = cut \cup ({ws[c]} \cap live)
        /\ ws' = [ws EXCEPT ![c] = NoSandbox]
        /\ UNCHANGED <<free, inUse, live, sweeper, warmer, closer>>
    BY <1>5 DEF CallerCancelled
  <2>2. /\ Leased' = Leased \ {c} /\ Tearing' = Tearing \ {c}
        /\ \A d \in Callers : ws'[d] = IF d = c THEN NoSandbox ELSE ws[d]
    BY <1>5 DEF CallerCancelled, Leased, Tearing, TypeOK
  <2>3. /\ Closing' \subseteq Closing /\ Closing \subseteq Closing' \cup {ws[c]}
        /\ FreeSet' = FreeSet
    BY <2>1, <2>2, ClosingIs, ClosingIsNext DEF Surplus, FreeSet, Tearing
  <2>4. InUseApart' /\ NothingLost'
    BY <2>1, <2>3 DEF Accounts, InUseApart, NothingLost
  <2>5. InUseIsLeased'
    BY <2>1, <2>2 DEF Accounts, InUseApart, InUseIsLeased, Leased
  <2> QED
    BY <2>4, <2>5 DEF Accounts
<1>6. CASE ReleaseUnknown(c)
  <2>1. /\ ws[c] \notin inUse /\ ws' = [ws EXCEPT ![c] = NoSandbox]
        /\ UNCHANGED <<free, inUse, live, sweeper, warmer, closer, cut>>
    BY <1>6 DEF ReleaseUnknown
  <2>2. /\ Leased' = Leased \ {c} /\ Tearing' = Tearing /\ c \notin Tearing
        /\ \A d \in Callers : ws'[d] = IF d = c THEN NoSandbox ELSE ws[d]
    BY <1>6 DEF ReleaseUnknown, Leased, Tearing, TypeOK
  <2>3. Closing' = Closing /\ FreeSet' = FreeSet
    BY <2>1, <2>2, ClosingIs, ClosingIsNext DEF Surplus, FreeSet, Tearing
  <2> QED
    BY <2>1, <2>2, <2>3 DEF Accounts, InUseApart, NothingLost, InUseIsLeased, Leased
<1>7. CASE ReleaseToPool(c)
  <2>1. /\ inUse' = inUse \ {ws[c]} /\ free' = Append(free, ws[c])
        /\ ws[c] \in Sandboxes /\ ws[c] \notin FreeSet
        /\ ws' = [ws EXCEPT ![c] = NoSandbox]
        /\ UNCHANGED <<live, sweeper, warmer, closer, cut>>
    BY <1>7, <1>0 DEF ReleaseToPool, Ownership, PlacesApart
  <2>2. /\ Leased' = Leased \ {c} /\ Tearing' = Tearing /\ c \notin Tearing
        /\ \A d \in Callers : ws'[d] = IF d = c THEN NoSandbox ELSE ws[d]
    BY <1>7 DEF ReleaseToPool, NotifyAll, Leased, Tearing, TypeOK
  <2>3. Closing' = Closing
    BY <2>1, <2>2, ClosingIs, ClosingIsNext DEF Surplus, Tearing
  <2>4. FreeSet' = FreeSet \cup {ws[c]}
    BY <2>1, AppendMoves DEF Ownership
  <2> QED
    BY <2>1, <2>2, <2>3, <2>4
       DEF Accounts, InUseApart, NothingLost, InUseIsLeased, Leased
<1>8. CASE CallerClosed(c)
  <2>1. /\ live' = live \ {ws[c]} /\ ws' = [ws EXCEPT ![c] = NoSandbox]
        /\ c \in Tearing
        /\ UNCHANGED <<free, inUse, sweeper, warmer, closer, cut>>
    BY <1>8 DEF CallerClosed, Tearing
  <2>2. /\ Leased' = Leased /\ Tearing' = Tearing \ {c} /\ c \notin Leased
        /\ \A d \in Callers : ws'[d] = IF d = c THEN NoSandbox ELSE ws[d]
    BY <1>8 DEF CallerClosed, Leased, Tearing, TypeOK
  <2>3. /\ Closing' \subseteq Closing /\ Closing \subseteq Closing' \cup {ws[c]}
        /\ FreeSet' = FreeSet /\ ws[c] \in Closing
    BY <2>1, <2>2, ClosingIs, ClosingIsNext DEF Surplus, FreeSet, Tearing
  <2> QED
    BY <2>1, <2>2, <2>3
       DEF Accounts, InUseApart, NothingLost, InUseIsLeased, Leased
<1> QED
  BY <1>1, <1>2, <1>3, <1>4, <1>5, <1>6, <1>7, <1>8 DEF Acquire, Release

(* What the sweeper, the pre-warmer and aclose do to them.                  *)
LEMMA BackgroundKeepsAccounts ==
    ASSUME TypeOK, Ownership, Accounts, Sweeper \/ Warmer \/ Closer
    PROVE  Accounts'
<1> USE DEF poolVars
<1>1. ASSUME NEW n \in 1..Len(free), Sweep(n) PROVE Accounts'
  <2>1. /\ sweeper.todo = {} /\ sweeper'.todo = {free[i] : i \in 1..n}
        /\ free' = SubSeq(free, n + 1, Len(free))
        /\ UNCHANGED <<inUse, live, pc, ws, warmer, closer, cut>>
    BY <1>1 DEF Sweep, Ownership, CloserConsistent
  <2>2. /\ FreeSet' = FreeSet \ {free[i] : i \in 1..n}
        /\ {free[i] : i \in 1..n} \subseteq FreeSet
    <3>1. \A i \in 1..n : i \in DOMAIN free
      BY LenProperties DEF TypeOK
    <3> QED
      BY <2>1, <3>1, EvictMoves DEF Ownership, FreeSet
  <2>3. Leased' = Leased /\ Tearing' = Tearing
    BY <2>1 DEF Leased, Tearing
  <2>4. Closing' = Closing \cup {free[i] : i \in 1..n}
    BY <2>1, <2>3, ClosingIs, ClosingIsNext DEF Surplus
  <2> QED
    BY <2>1, <2>2, <2>3, <2>4 DEF Accounts, InUseApart, NothingLost, InUseIsLeased
<1>2. ASSUME NEW s \in Sandboxes, SweeperClosed(s) \/ CloserClosed(s) PROVE Accounts'
  <2>1. /\ live' = live \ {s} /\ s \in sweeper.todo \cup closer.todo
        /\ \/ sweeper'.todo = sweeper.todo \ {s} /\ closer' = closer
           \/ closer'.todo = closer.todo \ {s} /\ sweeper' = sweeper
        /\ UNCHANGED <<free, inUse, pc, ws, warmer, cut>>
    BY <1>2 DEF SweeperClosed, CloserClosed, TypeOK
  <2>2. Leased' = Leased /\ Tearing' = Tearing /\ FreeSet' = FreeSet
    BY <2>1 DEF Leased, Tearing, FreeSet
  <2>3. /\ Closing' \subseteq Closing /\ Closing \subseteq Closing' \cup {s}
        /\ s \in Closing
    BY <2>1, <2>2, ClosingIs, ClosingIsNext DEF Surplus
  <2> QED
    BY <2>1, <2>2, <2>3 DEF Accounts, InUseApart, NothingLost, InUseIsLeased
<1>3. CASE PrewarmTick \/ WarmerEntersFactory \/ PrewarmFailed \/ CloseReturns
  <2>1. /\ UNCHANGED <<free, inUse, live, pc, ws, cut, sweeper>>
        /\ closer'.todo = closer.todo
        /\ Surplus' = Surplus
    <3>1. CASE PrewarmTick \/ WarmerEntersFactory \/ PrewarmFailed
      <4>1. warmer.pc # "surplus" /\ warmer'.pc # "surplus"
        BY <3>1 DEF PrewarmTick, WarmerEntersFactory, PrewarmFailed,
           ProvisionEntry, TypeOK
      <4> QED
        BY <3>1, <4>1 DEF PrewarmTick, WarmerEntersFactory, PrewarmFailed, Surplus
    <3>2. CASE CloseReturns
      BY <3>2 DEF CloseReturns, Surplus, TypeOK
    <3> QED
      BY <1>3, <3>1, <3>2
  <2>2. Leased' = Leased /\ Tearing' = Tearing /\ FreeSet' = FreeSet
    BY <2>1 DEF Leased, Tearing, FreeSet
  <2>3. Closing' = Closing
    BY <2>1, <2>2, ClosingIs, ClosingIsNext
  <2> QED
    BY <2>1, <2>2, <2>3 DEF Accounts, InUseApart, NothingLost, InUseIsLeased
<1>4. ASSUME NEW s \in Sandboxes, PrewarmDone(s) PROVE Accounts'
  <2>1. /\ free' = Append(free, s) /\ live' = live \cup {s} /\ s \in Fresh
        /\ pc' = NotifyAll /\ Surplus' = {} /\ Surplus = {}
        /\ UNCHANGED <<inUse, ws, sweeper, closer, cut>>
    BY <1>4 DEF PrewarmDone, Surplus
  <2>2. s \notin FreeSet /\ s \notin inUse
    BY <2>1 DEF Fresh, Ownership, KnownLive
  <2>3. FreeSet' = FreeSet \cup {s}
    BY <2>1, <2>2, AppendMoves DEF Ownership
  <2>4. Leased' = Leased /\ Tearing' = Tearing
    BY <2>1 DEF NotifyAll, Leased, Tearing, TypeOK
  <2>5. Closing' = Closing
    BY <2>1, <2>4, ClosingIs, ClosingIsNext
  <2> QED
    BY <2>1, <2>2, <2>3, <2>4, <2>5
       DEF Accounts, InUseApart, NothingLost, InUseIsLeased
<1>5. ASSUME NEW s \in Sandboxes, PrewarmSurplus(s) PROVE Accounts'
  <2>1. /\ live' = live \cup {s} /\ s \in Fresh
        /\ Surplus' = {s} /\ Surplus = {}
        /\ UNCHANGED <<free, inUse, pc, ws, sweeper, closer, cut>>
    BY <1>5 DEF PrewarmSurplus, Surplus
  <2>2. Leased' = Leased /\ Tearing' = Tearing /\ FreeSet' = FreeSet
    BY <2>1 DEF Leased, Tearing, FreeSet
  <2>3. Closing' = Closing \cup {s} /\ s \notin inUse
    BY <2>1, <2>2, ClosingIs, ClosingIsNext DEF Fresh
  <2> QED
    BY <2>1, <2>2, <2>3 DEF Accounts, InUseApart, NothingLost, InUseIsLeased
<1>6. CASE WarmerClosed
  <2>1. /\ live' = live \ Surplus /\ Surplus' = {}
        /\ UNCHANGED <<free, inUse, pc, ws, sweeper, closer, cut>>
    BY <1>6 DEF WarmerClosed, Surplus
  <2>2. Leased' = Leased /\ Tearing' = Tearing /\ FreeSet' = FreeSet
    BY <2>1 DEF Leased, Tearing, FreeSet
  <2>3. /\ Closing' \subseteq Closing /\ Closing \subseteq Closing' \cup Surplus
        /\ Surplus \subseteq Closing
    BY <2>1, <2>2, ClosingIs, ClosingIsNext
  <2> QED
    BY <2>1, <2>2, <2>3 DEF Accounts, InUseApart, NothingLost, InUseIsLeased
<1>7. CASE Close \/ CancelPrewarm
  <2>1. /\ UNCHANGED <<free, inUse, live, pc, ws>>
        /\ closer'.todo = closer.todo
        /\ \/ /\ sweeper'.todo = {} /\ warmer' = warmer
              /\ cut' = cut \cup sweeper.todo
           \/ /\ sweeper' = sweeper /\ Surplus' = {}
              /\ cut' = cut \cup ({warmer.ws} \cap live)
    BY <1>7 DEF Close, CancelPrewarm, Surplus, TypeOK
  <2>2. Leased' = Leased /\ Tearing' = Tearing /\ FreeSet' = FreeSet
    BY <2>1 DEF Leased, Tearing, FreeSet
  <2>3. /\ Closing' \subseteq Closing /\ cut \subseteq cut'
        /\ Closing \cap live \subseteq Closing' \cup cut'
    BY <2>1, <2>2, ClosingIs, ClosingIsNext DEF Surplus
  <2> QED
    BY <2>1, <2>2, <2>3 DEF Accounts, InUseApart, NothingLost, InUseIsLeased
<1>8. CASE Drain
  <2>1. /\ inUse' = {} /\ closer'.todo = FreeSet \cup inUse /\ closer.todo = {}
        /\ pc' = NotifyAll
        /\ UNCHANGED <<live, ws, sweeper, warmer, cut>>
    BY <1>8 DEF Drain, Ownership, CloserConsistent
  <2>2. Tearing' = Tearing
    BY <2>1 DEF NotifyAll, Tearing, TypeOK
  <2>3. Closing' = Closing \cup FreeSet \cup inUse
    BY <2>1, <2>2, ClosingIs, ClosingIsNext DEF Surplus
  <2> QED
    BY <2>1, <2>3 DEF Accounts, InUseApart, NothingLost, InUseIsLeased
<1> QED
  BY <1>1, <1>2, <1>3, <1>4, <1>5, <1>6, <1>7, <1>8 DEF Sweeper, Warmer, Closer

LEMMA AccountsInit == Init => Accounts
BY DEF Init, Accounts, InUseApart, NothingLost, InUseIsLeased

LEMMA AccountsStep == TypeOK /\ Ownership /\ Accounts /\ [Next]_vars => Accounts'
<1>1. ASSUME Accounts, UNCHANGED vars PROVE Accounts'
  <2>1. Leased' = Leased /\ Tearing' = Tearing /\ Surplus' = Surplus
    BY <1>1 DEF vars, Leased, Tearing, Surplus
  <2> QED
    BY <1>1, <2>1, QuietKeepsAccounts DEF vars
<1> QED
  BY <1>1, CallerKeepsAccounts, BackgroundKeepsAccounts DEF Next

(* Every step of _pool.py moves a sandbox from one known place to another.  *)
THEOREM PoolAccounts == Spec => []Accounts
BY PoolTypes, PoolOwnership, AccountsInit, AccountsStep, PTL DEF Spec

(* Every live sandbox is in a list of the pool, in the hands of a task that *)
(* closes it, or was cut loose by a cancellation (acquire, release,        *)
(* _sweep_once, _prewarm_once and aclose drop none).                       *)
THEOREM PoolNothingLost == Spec => []NothingLost
<1>1. Accounts => NothingLost
  BY DEF Accounts
<1> QED
  BY <1>1, PoolAccounts, PTL

(* A slot of _in_use is the lease of a caller, save a cancelled probe's.    *)
THEOREM PoolInUseIsLeased == Spec => []InUseIsLeased
<1>1. Accounts => InUseIsLeased
  BY DEF Accounts
<1> QED
  BY <1>1, PoolAccounts, PTL

(***************************************************************************)
(* No sleeper beside a free sandbox: whatever puts one there notifies, and *)
(* a task goes to sleep only when there is none.                           *)
(***************************************************************************)

LEMMA NoMissedReturnStep ==
    ASSUME TypeOK, NoMissedReturn, Next
    PROVE  NoMissedReturn'
<1> USE DEF poolVars, taskVars, NoMissedReturn
<1>1. ASSUME NEW c \in Callers, WokenToLoop(c) \/ AcquireClosed(c) \/ AcquireGrow(c)
                    \/ AcquireTimeout(c) \/ EnterFactory(c) \/ ProvisionFailed(c)
                    \/ ProbeOk(c) \/ ProbeFailed(c) \/ CallerCancelled(c)
                    \/ ReleaseUnknown(c) \/ ReleaseTeardown(c) \/ CallerClosed(c)
                    \/ \E s \in Sandboxes : ProvisionDone(c, s)
      PROVE  NoMissedReturn'
  <2>1. UNCHANGED free /\ \E v : v # "wait" /\ pc' = [pc EXCEPT ![c] = v]
    BY <1>1 DEF WokenToLoop, AcquireClosed, AcquireGrow, AcquireTimeout,
       EnterFactory, ProvisionFailed, ProbeOk, ProbeFailed, CallerCancelled,
       ReleaseUnknown, ReleaseTeardown, CallerClosed, ProvisionDone, ProvisionEntry
  <2> QED
    BY <2>1 DEF TypeOK
<1>2. ASSUME NEW c \in Callers, SleepAgain(c) \/ AcquireWait(c) PROVE NoMissedReturn'
  BY <1>2 DEF SleepAgain, AcquireWait
<1>3. ASSUME NEW c \in Callers, AcquireWarm(c) PROVE NoMissedReturn'
  <2>1. \A d \in Callers : pc[d] # "wait"
    BY <1>3 DEF AcquireWarm
  <2> QED
    BY <1>3, <2>1 DEF AcquireWarm, TypeOK
<1>4. ASSUME NEW c \in Callers, ReleaseToPool(c) PROVE NoMissedReturn'
  BY <1>4 DEF ReleaseToPool, NotifyAll, TypeOK
<1>5. ASSUME NEW n \in 1..Len(free), Sweep(n) PROVE NoMissedReturn'
  <2>1. free # <<>>
    BY <1>5, EmptySeq
  <2> QED
    BY <1>5, <2>1 DEF Sweep
<1>6. ASSUME NEW s \in Sandboxes, PrewarmDone(s) PROVE NoMissedReturn'
  BY <1>6 DEF PrewarmDone, NotifyAll, TypeOK
<1>7. CASE Drain
  BY <1>7 DEF Drain
<1>8. ASSUME UNCHANGED <<free, pc>> PROVE NoMissedReturn'
  BY <1>8
<1>9. ASSUME NEW s \in Sandboxes,
             SweeperClosed(s) \/ PrewarmSurplus(s) \/ CloserClosed(s)
      PROVE  UNCHANGED <<free, pc>>
  BY <1>9 DEF SweeperClosed, PrewarmSurplus, CloserClosed
<1>10. ASSUME PrewarmTick \/ WarmerEntersFactory \/ WarmerClosed \/ PrewarmFailed
              \/ Close \/ CancelPrewarm \/ CloseReturns
       PROVE  UNCHANGED <<free, pc>>
  BY <1>10 DEF PrewarmTick, WarmerEntersFactory, WarmerClosed, PrewarmFailed, Close,
     CancelPrewarm, CloseReturns
<1> QED
  BY <1>1, <1>2, <1>3, <1>4, <1>5, <1>6, <1>7, <1>8, <1>9, <1>10
     DEF Next, Acquire, Release, Sweeper, Warmer, Closer

(* release and the pre-warmer notify whenever they put a sandbox in the     *)
(* free list, so no caller sleeps on the condition beside one.             *)
THEOREM PoolNoMissedReturn == Spec => []NoMissedReturn
<1>1. Init => NoMissedReturn
  BY DEF Init, NoMissedReturn
<1>2. TypeOK /\ NoMissedReturn /\ [Next]_vars => NoMissedReturn'
  BY NoMissedReturnStep DEF vars, NoMissedReturn
<1> QED
  BY <1>1, <1>2, PoolTypes, PTL DEF Spec

(***************************************************************************)
(* The semaphore.                                                          *)
(***************************************************************************)

InBoot == {c \in Callers : pc[c] = "factory"}

LEMMA InBootFinite ==
    /\ IsFiniteSet(InBoot) /\ Cardinality(InBoot) \in Nat
    /\ InFactory = Cardinality(InBoot) + (IF warmer.pc = "factory" THEN 1 ELSE 0)
BY PoolAssumption, FS_Subset, FS_CardinalityType DEF InBoot, InFactory

LEMMA InBootFiniteNext ==
    /\ IsFiniteSet(InBoot') /\ Cardinality(InBoot') \in Nat
    /\ InFactory' = Cardinality(InBoot') + (IF warmer'.pc = "factory" THEN 1 ELSE 0)
BY PoolAssumption, FS_Subset, FS_CardinalityType DEF InBoot, InFactory

(* A task that is not in the factory enters it only past the semaphore.     *)
LEMMA ProvisionCapStep ==
    ASSUME TypeOK, ProvisionCap, Next
    PROVE  ProvisionCap'
<1> USE DEF poolVars, taskVars, ProvisionCap
<1>0. MaxProvisions \in Nat
  BY PoolAssumption
<1>1. ASSUME InBoot' \subseteq InBoot,
             warmer'.pc = "factory" => warmer.pc = "factory"
      PROVE  ProvisionCap'
  <2>1. Cardinality(InBoot') <= Cardinality(InBoot)
    BY <1>1, InBootFinite, FS_Subset
  <2> QED
    BY <1>0, <1>1, <2>1, InBootFinite, InBootFiniteNext
<1>2. ASSUME NEW c \in Callers, InBoot' \subseteq InBoot \cup {c},
             UNCHANGED warmer, PermitFree
      PROVE  ProvisionCap'
  <2>1. Cardinality(InBoot') <= Cardinality(InBoot \cup {c})
    BY <1>2, InBootFinite, AddOne, FS_Subset
  <2>2. Cardinality(InBoot \cup {c}) <= Cardinality(InBoot) + 1
    BY InBootFinite, AddOne
  <2> QED
    BY <1>0, <1>2, <2>1, <2>2, InBootFinite, InBootFiniteNext, AddOne DEF PermitFree
<1>3. ASSUME InBoot' = InBoot, warmer.pc # "factory", PermitFree
      PROVE  ProvisionCap'
  BY <1>0, <1>3, InBootFinite, InBootFiniteNext DEF PermitFree
<1>4. ASSUME NEW c \in Callers, Acquire(c) \/ Release(c) PROVE ProvisionCap'
  <2>1. CASE AcquireGrow(c) \/ EnterFactory(c)
    <3>1. /\ UNCHANGED warmer
          /\ \/ PermitFree
             \/ pc' = [pc EXCEPT ![c] = "permit"]
          /\ \E v : pc' = [pc EXCEPT ![c] = v]
      BY <2>1 DEF AcquireGrow, EnterFactory, ProvisionEntry
    <3>2. InBoot' \subseteq InBoot \cup {c}
      BY <3>1 DEF InBoot, TypeOK
    <3>3. pc' = [pc EXCEPT ![c] = "permit"] => InBoot' \subseteq InBoot
      BY DEF InBoot, TypeOK
    <3> QED
      BY <1>1, <1>2, <3>1, <3>2, <3>3
  <2>2. CASE ~(AcquireGrow(c) \/ EnterFactory(c))
    <3>1. UNCHANGED warmer /\ InBoot' \subseteq InBoot
      <4>1. CASE ReleaseToPool(c)
        BY <4>1 DEF ReleaseToPool, NotifyAll, InBoot, TypeOK
      <4>2. CASE ~ReleaseToPool(c)
        <5>1. UNCHANGED warmer /\ \E v : v # "factory" /\ pc' = [pc EXCEPT ![c] = v]
          BY <1>4, <2>2, <4>2 DEF Acquire, Release, WokenToLoop, SleepAgain,
             AcquireClosed, AcquireWarm, AcquireWait, AcquireTimeout, ProvisionDone,
             ProvisionFailed, ProbeOk, ProbeFailed, CallerCancelled,
             ReleaseUnknown, ReleaseTeardown, CallerClosed
        <5> QED
          BY <5>1 DEF InBoot, TypeOK
      <4> QED
        BY <4>1, <4>2
    <3> QED
      BY <1>1, <3>1
  <2> QED
    BY <2>1, <2>2
<1>5. CASE PrewarmTick \/ WarmerEntersFactory
  <2>1. /\ UNCHANGED pc /\ warmer.pc # "factory"
        /\ warmer'.pc = "factory" => PermitFree
    BY <1>5 DEF PrewarmTick, WarmerEntersFactory, ProvisionEntry, TypeOK
  <2>2. InBoot' = InBoot
    BY <2>1 DEF InBoot
  <2> QED
    BY <1>1, <1>3, <2>1, <2>2
<1>6. ASSUME NEW s \in Sandboxes, PrewarmDone(s) PROVE ProvisionCap'
  <2>1. pc' = NotifyAll /\ warmer.pc = "factory"
    BY <1>6 DEF PrewarmDone
  <2>2. InBoot' = InBoot
    BY <2>1 DEF InBoot, NotifyAll, TypeOK
  <2> QED
    BY <1>1, <2>1, <2>2
<1>7. ASSUME NEW s \in Sandboxes,
             SweeperClosed(s) \/ PrewarmSurplus(s) \/ CloserClosed(s)
      PROVE  ProvisionCap'
  <2>1. UNCHANGED pc /\ (warmer'.pc = "factory" => warmer.pc = "factory")
    BY <1>7 DEF SweeperClosed, PrewarmSurplus, CloserClosed
  <2> QED
    BY <1>1, <2>1 DEF InBoot
<1>8. CASE WarmerClosed \/ PrewarmFailed \/ Close \/ CancelPrewarm \/ CloseReturns
  <2>1. UNCHANGED pc /\ (warmer'.pc = "factory" => warmer.pc = "factory")
    BY <1>8 DEF WarmerClosed, PrewarmFailed, Close, CancelPrewarm, CloseReturns
  <2> QED
    BY <1>1, <2>1 DEF InBoot
<1>9. CASE Drain
  <2>1. pc' = NotifyAll /\ UNCHANGED warmer
    BY <1>9 DEF Drain
  <2> QED
    BY <1>1, <2>1 DEF InBoot, NotifyAll, TypeOK
<1>10. ASSUME NEW n \in 1..Len(free), Sweep(n) PROVE ProvisionCap'
  <2>1. UNCHANGED <<pc, warmer>>
    BY <1>10 DEF Sweep
  <2> QED
    BY <1>1, <2>1 DEF InBoot
<1> QED
  BY <1>4, <1>5, <1>6, <1>7, <1>8, <1>9, <1>10 DEF Next, Sweeper, Warmer, Closer

(* At most max_concurrent_provisions factory calls run at a time, callers   *)
(* and pre-warmer together (_call_factory_bounded).                        *)
THEOREM PoolProvisionCap == Spec => []ProvisionCap
<1>1. Init => ProvisionCap
  <2> SUFFICES ASSUME Init PROVE ProvisionCap
    OBVIOUS
  <2>1. InBoot = {} /\ warmer.pc # "factory"
    BY DEF Init, InBoot
  <2> QED
    BY <2>1, PoolAssumption, InBootFinite, FS_EmptySet DEF ProvisionCap
<1>2. TypeOK /\ ProvisionCap /\ [Next]_vars => ProvisionCap'
  <2>1. ASSUME ProvisionCap, UNCHANGED vars PROVE ProvisionCap'
    BY <2>1 DEF vars, ProvisionCap, InFactory
  <2> QED
    BY <2>1, ProvisionCapStep
<1> QED
  BY <1>1, <1>2, PoolTypes, PTL DEF Spec

(***************************************************************************)
(* The counters bound what exists.                                         *)
(***************************************************************************)

LEMMA FreeSetBound ==
    ASSUME TypeOK
    PROVE  IsFiniteSet(FreeSet) /\ Cardinality(FreeSet) <= Len(free)
<1> DEFINE f == [i \in 1..Len(free) |-> free[i]]
<1>1. Len(free) \in Nat /\ DOMAIN free = 1..Len(free)
  BY LenProperties DEF TypeOK
<1>2. f \in Surjection(1..Len(free), FreeSet)
  BY <1>1 DEF Surjection, FreeSet
<1>3. IsFiniteSet(1..Len(free)) /\ Cardinality(1..Len(free)) = Len(free)
  <2>1. ASSUME NEW n \in Nat PROVE IsFiniteSet(1..n) /\ Cardinality(1..n) = n
    <3>1. 1 \in Int /\ n \in Int /\ (1 > n => n = 0)
      OBVIOUS
    <3> QED
      BY <3>1, FS_Interval
  <2> QED
    BY <1>1, <2>1
<1> HIDE DEF f
<1> QED
  BY <1>1, <1>2, <1>3, FS_Surjection

(* max_size bounds the sandboxes that exist, not only the counters: each    *)
(* live sandbox nobody is tearing down has a slot, and so has each boot in  *)
(* flight.                                                                 *)
THEOREM PoolLiveBound == Spec => []LiveBound
<1>1. Counters /\ Accounts => LiveBound
  <2> SUFFICES ASSUME Counters, Accounts,
                      NEW S, S = live \ (Closing \cup (cut \ inUse))
               PROVE  Cardinality(S) + Cardinality(Provisioning) + WarmerProvisions
                        <= MaxSize
    BY DEF LiveBound
  <2>1. TypeOK /\ CapacityBound /\ PendingExact /\ pending \in Nat
        /\ Len(free) \in Nat /\ MaxSize \in Nat
    BY PoolAssumption, LenProperties DEF Counters, TypeOK
  <2>2. S \subseteq FreeSet \cup inUse
    BY DEF Accounts, NothingLost
  <2>3. /\ IsFiniteSet(FreeSet \cup inUse)
        /\ Cardinality(FreeSet \cup inUse) <= Cardinality(FreeSet) + Cardinality(inUse)
    <3>1. /\ IsFiniteSet(FreeSet) /\ IsFiniteSet(inUse) /\ IsFiniteSet(FreeSet \cap inUse)
      BY <2>1, FreeSetBound, InUseFinite, FS_Subset
    <3>2. /\ Cardinality(FreeSet) \in Nat /\ Cardinality(inUse) \in Nat
          /\ Cardinality(FreeSet \cap inUse) \in Nat
      BY <3>1, FS_CardinalityType
    <3>3. /\ IsFiniteSet(FreeSet \cup inUse)
          /\ Cardinality(FreeSet \cup inUse)
               = Cardinality(FreeSet) + Cardinality(inUse)
                   - Cardinality(FreeSet \cap inUse)
      BY <3>1, FS_Union, Zenon
    <3> QED
      BY <3>2, <3>3
  <2>4. /\ Cardinality(S) <= Cardinality(FreeSet \cup inUse)
        /\ Cardinality(S) \in Nat /\ Cardinality(FreeSet \cup inUse) \in Nat
    BY <2>2, <2>3, FS_Subset, FS_CardinalityType
  <2>5. Cardinality(S) <= Len(free) + Cardinality(inUse)
    BY <2>1, <2>3, <2>4, FreeSetBound, InUseFinite, FS_CardinalityType
  <2>6. /\ Cardinality(Provisioning) \in Nat /\ WarmerProvisions \in {0, 1}
        /\ Cardinality(Provisioning) + WarmerProvisions <= pending
    BY <2>1, ProvisioningFinite DEF PendingExact, WarmerProvisions
  <2> QED
    BY <2>1, <2>4, <2>5, <2>6, InUseFinite DEF CapacityBound
<1> QED
  BY <1>1, PoolCounters, PoolAccounts, PTL
=============================================================================
