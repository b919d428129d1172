------------------------ MODULE WorkspaceManagerProofs -------------------------
(* Proofs about WorkspaceManager, for any number of callers, ids, workspaces *)
(* and any size of the pool.                                               *)
EXTENDS WorkspaceManager, TLAPS

(***************************************************************************)
(* The inductive invariant.                                                *)
(***************************************************************************)

(* What a call has in its variables where it is suspended.                  *)
CallShape ==
    \A c \in Callers :
        /\ pc[c] \in {"acquire", "store", "direct", "build"} => id[c] \in Ids
        /\ ws[c] # None <=> pc[c] \in {"store", "close"}
        /\ pc[c] = "build" => cache[id[c]] = None

(* __aexit__ closes one thing at a time; once the pool is drained, or where   *)
(* there is none, nothing is on its free list.                              *)
ExitShape ==
    /\ stage \in {"open", "shut", "last"} => closing = {}
    /\ stage \notin {"open", "shut"} \/ PoolSize = 0 =>
          \A w \in WS : pool[w] # "free"

IInv ==
    /\ TypeOK /\ CallShape /\ ExitShape
    /\ OneOwner /\ NothingLost /\ ReturnedIsLive

(***************************************************************************)
(* One lemma per part of the invariant, one step per action.               *)
(***************************************************************************)

(* Only the holder of the lock builds, and the id it builds for stays        *)
(* uncached, as all who write the cache need the lock.                      *)
LEMMA ShapeStep ==
    ASSUME TypeOK, CallShape, Next
    PROVE  TypeOK' /\ CallShape'
<1> USE ManagerAssumption DEF TypeOK, CallShape, Cached, Held, Pcs, Stages,
     Goto, callVars, exitVars
<1>1. ASSUME NEW c \in Callers, NEW i \in Ids, GetMiss(c, i)
     PROVE  TypeOK' /\ CallShape'
  BY <1>1 DEF GetMiss, HasPool
<1>2. ASSUME NEW c \in Callers, NEW w \in WS, Acquired(c, w)
     PROVE  TypeOK' /\ CallShape'
  BY <1>2 DEF Acquired, Fresh
<1>3. ASSUME NEW c \in Callers, AcquireTimedOut(c)
     PROVE  TypeOK' /\ CallShape'
  BY <1>3 DEF AcquireTimedOut
<1>4. ASSUME NEW c \in Callers, AcquireFailed(c)
     PROVE  TypeOK' /\ CallShape'
  BY <1>4 DEF AcquireFailed, Leaves
<1>5. ASSUME NEW c \in Callers, Stored(c)
     PROVE  TypeOK' /\ CallShape'
  BY <1>5 DEF Stored, Leaves, Lose
<1>6. ASSUME NEW c \in Callers, StoreCancelled(c)
     PROVE  TypeOK' /\ CallShape'
  BY <1>6 DEF StoreCancelled, Leaves, Lose
<1>7. ASSUME NEW c \in Callers, DirectHit(c)
     PROVE  TypeOK' /\ CallShape'
  BY <1>7 DEF DirectHit, Leaves
<1>8. ASSUME NEW c \in Callers, BuildBegins(c)
     PROVE  TypeOK' /\ CallShape'
  BY <1>8 DEF BuildBegins
<1>9. ASSUME NEW c \in Callers, Built(c)
     PROVE  TypeOK' /\ CallShape'
  BY <1>9 DEF Built, Fresh, Leaves
<1>10. ASSUME NEW c \in Callers, BuildFailed(c)
      PROVE  TypeOK' /\ CallShape'
  BY <1>10 DEF BuildFailed, Leaves
<1>11. ASSUME NEW c \in Callers, DirectCancelled(c)
      PROVE  TypeOK' /\ CallShape'
  BY <1>11 DEF DirectCancelled, Leaves
<1>12. ASSUME NEW c \in Callers, NEW i \in Ids, CloseReleases(c, i)
      PROVE  TypeOK' /\ CallShape'
  BY <1>12 DEF CloseReleases, HasPool, Pops, Lose
<1>13. ASSUME NEW c \in Callers, NEW i \in Ids, CloseCloses(c, i)
      PROVE  TypeOK' /\ CallShape'
  BY <1>13 DEF CloseCloses, HasPool, Pops
<1>14. ASSUME NEW c \in Callers, CallerCloses(c)
      PROVE  TypeOK' /\ CallShape'
  BY <1>14 DEF CallerCloses, Leaves, Dies
<1>15. ASSUME NEW c \in Callers, CloseCancelled(c)
      PROVE  TypeOK' /\ CallShape'
  BY <1>15 DEF CloseCancelled, Leaves, Lose
<1>16. ASSUME NEW I \in SUBSET Ids, Sweep(I)
      PROVE  TypeOK' /\ CallShape'
  BY <1>16 DEF Sweep, Pops
<1>17. ASSUME NEW w \in WS, SweeperCloses(w)
      PROVE  TypeOK' /\ CallShape'
  BY <1>17 DEF SweeperCloses, Dies
<1>18. CASE Exit
  BY <1>18 DEF Exit, Lose
<1>19. CASE Drain
  BY <1>19 DEF Drain
<1>20. ASSUME NEW w \in WS, Closed(w)
      PROVE  TypeOK' /\ CallShape'
  BY <1>20 DEF Closed, Dies
<1>21. CASE Drained
  BY <1>21 DEF Drained
<1>22. CASE CloseAll
  BY <1>22 DEF CloseAll
<1>23. ASSUME NEW w \in WS, PoolEvicts(w)
      PROVE  TypeOK' /\ CallShape'
  BY <1>23 DEF PoolEvicts, Dies
<1> QED
  BY <1>1, <1>2, <1>3, <1>4, <1>5, <1>6, <1>7, <1>8, <1>9, <1>10, <1>11,
     <1>12, <1>13, <1>14, <1>15, <1>16, <1>17, <1>18, <1>19, <1>20, <1>21,
     <1>22, <1>23
     DEF Next, Get, Close

(* Only CloseReleases fills the free list, and only while there is a pool.   *)
LEMMA ExitStep ==
    ASSUME TypeOK, ExitShape, Next
    PROVE  ExitShape'
<1> USE ManagerAssumption DEF TypeOK, ExitShape, Goto, callVars, exitVars
<1>1. ASSUME NEW c \in Callers, NEW i \in Ids, GetMiss(c, i)
     PROVE  ExitShape'
  BY <1>1 DEF GetMiss, HasPool
<1>2. ASSUME NEW c \in Callers, NEW w \in WS, Acquired(c, w)
     PROVE  ExitShape'
  BY <1>2 DEF Acquired, Fresh
<1>3. ASSUME NEW c \in Callers, AcquireTimedOut(c)
     PROVE  ExitShape'
  BY <1>3 DEF AcquireTimedOut
<1>4. ASSUME NEW c \in Callers, AcquireFailed(c)
     PROVE  ExitShape'
  BY <1>4 DEF AcquireFailed, Leaves
<1>5. ASSUME NEW c \in Callers, Stored(c)
     PROVE  ExitShape'
  BY <1>5 DEF Stored, Leaves, Lose
<1>6. ASSUME NEW c \in Callers, StoreCancelled(c)
     PROVE  ExitShape'
  BY <1>6 DEF StoreCancelled, Leaves, Lose
<1>7. ASSUME NEW c \in Callers, DirectHit(c)
     PROVE  ExitShape'
  BY <1>7 DEF DirectHit, Leaves
<1>8. ASSUME NEW c \in Callers, BuildBegins(c)
     PROVE  ExitShape'
  BY <1>8 DEF BuildBegins
<1>9. ASSUME NEW c \in Callers, Built(c)
     PROVE  ExitShape'
  BY <1>9 DEF Built, Fresh, Leaves
<1>10. ASSUME NEW c \in Callers, BuildFailed(c)
      PROVE  ExitShape'
  BY <1>10 DEF BuildFailed, Leaves
<1>11. ASSUME NEW c \in Callers, DirectCancelled(c)
      PROVE  ExitShape'
  BY <1>11 DEF DirectCancelled, Leaves
<1>12. ASSUME NEW c \in Callers, NEW i \in Ids, CloseReleases(c, i)
      PROVE  ExitShape'
  BY <1>12 DEF CloseReleases, HasPool, Pops, Lose
<1>13. ASSUME NEW c \in Callers, NEW i \in Ids, CloseCloses(c, i)
      PROVE  ExitShape'
  BY <1>13 DEF CloseCloses, HasPool, Pops
<1>14. ASSUME NEW c \in Callers, CallerCloses(c)
      PROVE  ExitShape'
  BY <1>14 DEF CallerCloses, Leaves, Dies
<1>15. ASSUME NEW c \in Callers, CloseCancelled(c)
      PROVE  ExitShape'
  BY <1>15 DEF CloseCancelled, Leaves, Lose
<1>16. ASSUME NEW I \in SUBSET Ids, Sweep(I)
      PROVE  ExitShape'
  BY <1>16 DEF Sweep, Pops
<1>17. ASSUME NEW w \in WS, SweeperCloses(w)
      PROVE  ExitShape'
  BY <1>17 DEF SweeperCloses, Dies
<1>18. CASE Exit
  BY <1>18 DEF Exit, Lose
<1>19. CASE Drain
  BY <1>19 DEF Drain
<1>20. ASSUME NEW w \in WS, Closed(w)
      PROVE  ExitShape'
  BY <1>20 DEF Closed, Dies
<1>21. CASE Drained
  BY <1>21 DEF Drained
<1>22. CASE CloseAll
  BY <1>22 DEF CloseAll
<1>23. ASSUME NEW w \in WS, PoolEvicts(w)
      PROVE  ExitShape'
  BY <1>23 DEF PoolEvicts, Dies
<1> QED
  BY <1>1, <1>2, <1>3, <1>4, <1>5, <1>6, <1>7, <1>8, <1>9, <1>10, <1>11,
     <1>12, <1>13, <1>14, <1>15, <1>16, <1>17, <1>18, <1>19, <1>20, <1>21,
     <1>22, <1>23
     DEF Next, Get, Close

(* OneOwner, said of ids, calls and workspaces and not of sets of them.       *)
Owners ==
    /\ \A i, j \in Ids : cache[i] = cache[j] /\ cache[i] # None => i = j
    /\ \A c, d \in Callers : ws[c] = ws[d] /\ ws[c] # None => c = d
    /\ \A i \in Ids, c \in Callers : cache[i] = ws[c] => cache[i] = None
    /\ \A i \in Ids : cache[i] # None => cache[i] \notin sweeping
    /\ \A c \in Callers : ws[c] # None => ws[c] \notin sweeping
    /\ \A w \in WS : pool[w] = "free" =>
          /\ w \in live /\ w \notin sweeping
          /\ \A i \in Ids : cache[i] # w
          /\ \A c \in Callers : ws[c] # w

LEMMA OwnersAreOneOwner == OneOwner => Owners
BY ManagerAssumption DEF OneOwner, Owners, Cached, Held

LEMMA OwnersStayOneOwner == Owners' => OneOwner'
BY ManagerAssumption DEF OneOwner, Owners, Cached, Held

(* A step that puts a workspace in no place it was not in, and closes none    *)
(* that is on the free list, leaves each with the owner it had.             *)
LEMMA NoNewPlace ==
    ASSUME Owners,
           \A i \in Ids : cache'[i] \in {cache[i], None},
           \A c \in Callers : ws'[c] \in {ws[c], None},
           sweeping' \subseteq sweeping,
           \A w \in WS : pool'[w] = "free" => pool[w] = "free" /\ w \in live'
    PROVE  Owners'
BY ManagerAssumption DEF Owners

(* A workspace moves from one place to another in one step; a new one is in   *)
(* none.                                                                   *)
LEMMA OwnerStep ==
    ASSUME TypeOK, CallShape, ExitShape, OneOwner, Next
    PROVE  OneOwner'
<1> USE ManagerAssumption DEF TypeOK, CallShape, ExitShape, Goto, callVars, exitVars
<1>o. Owners
  BY OwnersAreOneOwner
<1>0. \A w \in WS : pool[w] = "free" =>
         w \in live /\ w \notin sweeping /\ \A c \in Callers : ws[c] # w
  BY <1>o DEF Owners
<1>1. ASSUME NEW c \in Callers, NEW i \in Ids, GetMiss(c, i)
     PROVE  Owners'
  BY <1>0, <1>1, <1>o, NoNewPlace DEF GetMiss, HasPool
<1>2. ASSUME NEW c \in Callers, NEW w \in WS, Acquired(c, w)
     PROVE  Owners'
  <2>1. /\ ws' = [ws EXCEPT ![c] = w] /\ pool' = [pool EXCEPT ![w] = "leased"]
        /\ cache' = cache /\ sweeping' = sweeping /\ live \subseteq live'
    BY <1>2 DEF Acquired
  <2>2. /\ \A i \in Ids : cache[i] # w
        /\ \A d \in Callers : ws[d] # w
        /\ w \notin sweeping
    BY <1>o, <1>2 DEF Acquired, Fresh, Cached, Held, Owners
  <2> QED
    BY <1>o, <2>1, <2>2 DEF Owners
<1>3. ASSUME NEW c \in Callers, AcquireTimedOut(c)
     PROVE  Owners'
  BY <1>0, <1>3, <1>o, NoNewPlace DEF AcquireTimedOut
<1>4. ASSUME NEW c \in Callers, AcquireFailed(c)
     PROVE  Owners'
  BY <1>0, <1>4, <1>o, NoNewPlace DEF AcquireFailed, Leaves
<1>5. ASSUME NEW c \in Callers, Stored(c)
     PROVE  Owners'
  <2> DEFINE w == ws[c]
  <2>1. /\ ws' = [ws EXCEPT ![c] = None] /\ cache' = [cache EXCEPT ![id[c]] = w]
        /\ pool' = pool /\ sweeping' = sweeping /\ live' = live
    BY <1>5 DEF Stored, Leaves
  <2>2. /\ w \in WS /\ w \notin sweeping /\ pool[w] # "free"
        /\ \A i \in Ids : cache[i] # w
        /\ \A d \in Callers \ {c} : ws[d] # w
    BY <1>o, <1>5 DEF Stored, Owners
  <2> HIDE DEF w
  <2> QED
    BY <1>o, <2>1, <2>2 DEF Owners
<1>6. ASSUME NEW c \in Callers, StoreCancelled(c)
     PROVE  Owners'
  BY <1>0, <1>6, <1>o, NoNewPlace DEF StoreCancelled, Leaves, Lose
<1>7. ASSUME NEW c \in Callers, DirectHit(c)
     PROVE  Owners'
  BY <1>0, <1>7, <1>o, NoNewPlace DEF DirectHit, Leaves
<1>8. ASSUME NEW c \in Callers, BuildBegins(c)
     PROVE  Owners'
  BY <1>0, <1>8, <1>o, NoNewPlace DEF BuildBegins
<1>9. ASSUME NEW c \in Callers, Built(c)
     PROVE  Owners'
  <2>1. PICK w \in Fresh :
           live' = live \cup {w} /\ cache' = [cache EXCEPT ![id[c]] = w] /\ Leaves(c)
    BY <1>9 DEF Built
  <2>2. /\ ws' = [ws EXCEPT ![c] = None] /\ pool' = pool /\ sweeping' = sweeping
    BY <1>9, <2>1 DEF Built, Leaves
  <2>3. /\ w \in WS /\ w \notin sweeping /\ pool[w] # "free"
        /\ \A i \in Ids : cache[i] # w
        /\ \A d \in Callers : ws[d] # w
    BY ManagerAssumption DEF Fresh, Cached, Held
  <2> QED
    BY <1>o, <2>1, <2>2, <2>3 DEF Owners
<1>10. ASSUME NEW c \in Callers, BuildFailed(c)
      PROVE  Owners'
  BY <1>0, <1>10, <1>o, NoNewPlace DEF BuildFailed, Leaves
<1>11. ASSUME NEW c \in Callers, DirectCancelled(c)
      PROVE  Owners'
  BY <1>0, <1>11, <1>o, NoNewPlace DEF DirectCancelled, Leaves
<1>12. ASSUME NEW c \in Callers, NEW i \in Ids, CloseReleases(c, i)
      PROVE  Owners'
  <2> DEFINE w == cache[i]
  <2>1. /\ cache' = [k \in Ids |-> IF k = i THEN None ELSE cache[k]]
        /\ pool' = IF pool[w] = "leased" THEN [pool EXCEPT ![w] = "free"] ELSE pool
        /\ ws' = ws /\ sweeping' = sweeping /\ live' = live
    BY <1>12 DEF CloseReleases, Pops
  <2>2. /\ w \in WS /\ w \in live /\ w \notin sweeping
        /\ \A k \in Ids \ {i} : cache[k] # w
        /\ \A d \in Callers : ws[d] # w
    BY <1>o, <1>12 DEF CloseReleases, Owners
  <2> HIDE DEF w
  <2> QED
    BY <1>o, <2>1, <2>2 DEF Owners
<1>13. ASSUME NEW c \in Callers, NEW i \in Ids, CloseCloses(c, i)
      PROVE  Owners'
  <2> DEFINE w == cache[i]
  <2>1. /\ cache' = [k \in Ids |-> IF k = i THEN None ELSE cache[k]]
        /\ pool' = IF stage # "open" THEN [pool EXCEPT ![w] = "none"] ELSE pool
        /\ ws' = [ws EXCEPT ![c] = w] /\ sweeping' = sweeping /\ live' = live
    BY <1>13 DEF CloseCloses, Pops
  <2>2. /\ w \in WS /\ w \notin sweeping /\ pool[w] # "free"
        /\ \A k \in Ids \ {i} : cache[k] # w
        /\ \A d \in Callers : ws[d] # w
    BY <1>o, <1>13 DEF CloseCloses, Owners
  <2> HIDE DEF w
  <2> QED
    BY <1>o, <2>1, <2>2 DEF Owners
<1>14. ASSUME NEW c \in Callers, CallerCloses(c)
      PROVE  Owners'
  BY <1>0, <1>14, <1>o, NoNewPlace DEF CallerCloses, Leaves, Dies
<1>15. ASSUME NEW c \in Callers, CloseCancelled(c)
      PROVE  Owners'
  BY <1>0, <1>15, <1>o, NoNewPlace DEF CloseCancelled, Leaves, Lose
<1>16. ASSUME NEW I \in SUBSET Ids, Sweep(I)
      PROVE  Owners'
  BY <1>o, <1>16 DEF Owners, Sweep, Pops
<1>17. ASSUME NEW w \in WS, SweeperCloses(w)
      PROVE  Owners'
  BY <1>0, <1>17, <1>o, NoNewPlace DEF SweeperCloses, Dies
<1>18. ASSUME Exit PROVE Owners'
  BY <1>0, <1>18, <1>o, NoNewPlace DEF Exit, Lose
<1>19. ASSUME Drain PROVE Owners'
  BY <1>0, <1>19, <1>o, NoNewPlace DEF Drain
<1>20. ASSUME NEW w \in WS, Closed(w)
      PROVE  Owners'
  BY <1>0, <1>20, <1>o, NoNewPlace DEF Closed, Dies
<1>21. ASSUME Drained PROVE Owners'
  BY <1>0, <1>21, <1>o, NoNewPlace DEF Drained
<1>22. ASSUME CloseAll PROVE Owners'
  BY <1>0, <1>22, <1>o, NoNewPlace DEF CloseAll
<1>23. ASSUME NEW w \in WS, PoolEvicts(w)
      PROVE  Owners'
  BY <1>0, <1>23, <1>o, NoNewPlace DEF PoolEvicts, Dies
<1> QED
  BY OwnersStayOneOwner, <1>1, <1>2, <1>3, <1>4, <1>5, <1>6, <1>7, <1>8, <1>9, <1>10, <1>11,
     <1>12, <1>13, <1>14, <1>15, <1>16, <1>17, <1>18, <1>19, <1>20, <1>21,
     <1>22, <1>23
     DEF Next, Get, Close

(* What leaves a place goes to the next, dies, or is recorded as lost.       *)
LEMMA LostStep ==
    ASSUME TypeOK, CallShape, ExitShape, OneOwner, NothingLost, Next
    PROVE  NothingLost'
<1> USE ManagerAssumption DEF TypeOK, CallShape, ExitShape, OneOwner,
     NothingLost, Cached, Held, Goto, callVars, exitVars
<1>1. ASSUME NEW c \in Callers, NEW i \in Ids, GetMiss(c, i)
     PROVE  NothingLost'
  BY <1>1 DEF GetMiss, HasPool
<1>2. ASSUME NEW c \in Callers, NEW w \in WS, Acquired(c, w)
     PROVE  NothingLost'
  BY <1>2 DEF Acquired, Fresh
<1>3. ASSUME NEW c \in Callers, AcquireTimedOut(c)
     PROVE  NothingLost'
  BY <1>3 DEF AcquireTimedOut
<1>4. ASSUME NEW c \in Callers, AcquireFailed(c)
     PROVE  NothingLost'
  BY <1>4 DEF AcquireFailed, Leaves
<1>5. ASSUME NEW c \in Callers, Stored(c)
     PROVE  NothingLost'
  BY <1>5 DEF Stored, Leaves, Lose
<1>6. ASSUME NEW c \in Callers, StoreCancelled(c)
     PROVE  NothingLost'
  BY <1>6 DEF StoreCancelled, Leaves, Lose
<1>7. ASSUME NEW c \in Callers, DirectHit(c)
     PROVE  NothingLost'
  BY <1>7 DEF DirectHit, Leaves
<1>8. ASSUME NEW c \in Callers, BuildBegins(c)
     PROVE  NothingLost'
  BY <1>8 DEF BuildBegins
<1>9. ASSUME NEW c \in Callers, Built(c)
     PROVE  NothingLost'
  BY <1>9 DEF Built, Fresh, Leaves
<1>10. ASSUME NEW c \in Callers, BuildFailed(c)
      PROVE  NothingLost'
  BY <1>10 DEF BuildFailed, Leaves
<1>11. ASSUME NEW c \in Callers, DirectCancelled(c)
      PROVE  NothingLost'
  BY <1>11 DEF DirectCancelled, Leaves
<1>12. ASSUME NEW c \in Callers, NEW i \in Ids, CloseReleases(c, i)
      PROVE  NothingLost'
  BY <1>12 DEF CloseReleases, HasPool, Pops, Lose
<1>13. ASSUME NEW c \in Callers, NEW i \in Ids, CloseCloses(c, i)
      PROVE  NothingLost'
  BY <1>13 DEF CloseCloses, HasPool, Pops
<1>14. ASSUME NEW c \in Callers, CallerCloses(c)
      PROVE  NothingLost'
  BY <1>14 DEF CallerCloses, Leaves, Dies
<1>15. ASSUME NEW c \in Callers, CloseCancelled(c)
      PROVE  NothingLost'
  BY <1>15 DEF CloseCancelled, Leaves, Lose
<1>16. ASSUME NEW I \in SUBSET Ids, Sweep(I)
      PROVE  NothingLost'
  BY <1>16 DEF Sweep, Pops
<1>17. ASSUME NEW w \in WS, SweeperCloses(w)
      PROVE  NothingLost'
  BY <1>17 DEF SweeperCloses, Dies
<1>18. CASE Exit
  BY <1>18 DEF Exit, Lose
<1>19. CASE Drain
  BY <1>19 DEF Drain
<1>20. ASSUME NEW w \in WS, Closed(w)
      PROVE  NothingLost'
  BY <1>20 DEF Closed, Dies
<1>21. CASE Drained
  BY <1>21 DEF Drained
<1>22. CASE CloseAll
  BY <1>22 DEF CloseAll
<1>23. ASSUME NEW w \in WS, PoolEvicts(w)
      PROVE  NothingLost'
  BY <1>23 DEF PoolEvicts, Dies
<1> QED
  BY <1>1, <1>2, <1>3, <1>4, <1>5, <1>6, <1>7, <1>8, <1>9, <1>10, <1>11,
     <1>12, <1>13, <1>14, <1>15, <1>16, <1>17, <1>18, <1>19, <1>20, <1>21,
     <1>22, <1>23
     DEF Next, Get, Close

(* What dies was in the hands of whoever closed it, hence not in the cache.   *)
LEMMA LiveStep ==
    ASSUME TypeOK, CallShape, ExitShape, OneOwner, ReturnedIsLive, Next
    PROVE  ReturnedIsLive'
<1> USE ManagerAssumption DEF TypeOK, CallShape, ExitShape, OneOwner,
     ReturnedIsLive, Cached, Held, Goto, callVars, exitVars
<1>1. ASSUME NEW c \in Callers, NEW i \in Ids, GetMiss(c, i)
     PROVE  ReturnedIsLive'
  BY <1>1 DEF GetMiss, HasPool
<1>2. ASSUME NEW c \in Callers, NEW w \in WS, Acquired(c, w)
     PROVE  ReturnedIsLive'
  BY <1>2 DEF Acquired, Fresh
<1>3. ASSUME NEW c \in Callers, AcquireTimedOut(c)
     PROVE  ReturnedIsLive'
  BY <1>3 DEF AcquireTimedOut
<1>4. ASSUME NEW c \in Callers, AcquireFailed(c)
     PROVE  ReturnedIsLive'
  BY <1>4 DEF AcquireFailed, Leaves
<1>5. ASSUME NEW c \in Callers, Stored(c)
     PROVE  ReturnedIsLive'
  BY <1>5 DEF Stored, Leaves, Lose
<1>6. ASSUME NEW c \in Callers, StoreCancelled(c)
     PROVE  ReturnedIsLive'
  BY <1>6 DEF StoreCancelled, Leaves, Lose
<1>7. ASSUME NEW c \in Callers, DirectHit(c)
     PROVE  ReturnedIsLive'
  BY <1>7 DEF DirectHit, Leaves
<1>8. ASSUME NEW c \in Callers, BuildBegins(c)
     PROVE  ReturnedIsLive'
  BY <1>8 DEF BuildBegins
<1>9. ASSUME NEW c \in Callers, Built(c)
     PROVE  ReturnedIsLive'
  BY <1>9 DEF Built, Fresh, Leaves
<1>10. ASSUME NEW c \in Callers, BuildFailed(c)
      PROVE  ReturnedIsLive'
  BY <1>10 DEF BuildFailed, Leaves
<1>11. ASSUME NEW c \in Callers, DirectCancelled(c)
      PROVE  ReturnedIsLive'
  BY <1>11 DEF DirectCancelled, Leaves
<1>12. ASSUME NEW c \in Callers, NEW i \in Ids, CloseReleases(c, i)
      PROVE  ReturnedIsLive'
  BY <1>12 DEF CloseReleases, HasPool, Pops, Lose
<1>13. ASSUME NEW c \in Callers, NEW i \in Ids, CloseCloses(c, i)
      PROVE  ReturnedIsLive'
  BY <1>13 DEF CloseCloses, HasPool, Pops
<1>14. ASSUME NEW c \in Callers, CallerCloses(c)
      PROVE  ReturnedIsLive'
  <2>1. ws[c] # None /\ ws[c] \notin Cached
    BY <1>14 DEF CallerCloses
  <2>2. ASSUME NEW d \in Callers, pc'[d] = "store"
        PROVE  d # c /\ pc[d] = "store" /\ ws'[d] = ws[d] /\ ws[d] # ws[c]
    BY <1>14, <2>1, <2>2 DEF CallerCloses, Leaves
  <2>3. ASSUME stage = "open", NEW d \in Callers, pc'[d] = "store"
        PROVE  ws'[d] \in live'
    BY <1>14, <2>2, <2>3 DEF CallerCloses, Dies
  <2>4. stage = "open" => Cached' \subseteq live'
    BY <1>14, <2>1 DEF CallerCloses, Dies
  <2> QED
    BY <1>14, <2>3, <2>4 DEF CallerCloses
<1>15. ASSUME NEW c \in Callers, CloseCancelled(c)
      PROVE  ReturnedIsLive'
  BY <1>15 DEF CloseCancelled, Leaves, Lose
<1>16. ASSUME NEW I \in SUBSET Ids, Sweep(I)
      PROVE  ReturnedIsLive'
  BY <1>16 DEF Sweep, Pops
<1>17. ASSUME NEW w \in WS, SweeperCloses(w)
      PROVE  ReturnedIsLive'
  BY <1>17 DEF SweeperCloses, Dies
<1>18. CASE Exit
  BY <1>18 DEF Exit, Lose
<1>19. CASE Drain
  BY <1>19 DEF Drain
<1>20. ASSUME NEW w \in WS, Closed(w)
      PROVE  ReturnedIsLive'
  BY <1>20 DEF Closed, Dies
<1>21. CASE Drained
  BY <1>21 DEF Drained
<1>22. CASE CloseAll
  BY <1>22 DEF CloseAll
<1>23. ASSUME NEW w \in WS, PoolEvicts(w)
      PROVE  ReturnedIsLive'
  BY <1>23 DEF PoolEvicts, Dies
<1> QED
  BY <1>1, <1>2, <1>3, <1>4, <1>5, <1>6, <1>7, <1>8, <1>9, <1>10, <1>11,
     <1>12, <1>13, <1>14, <1>15, <1>16, <1>17, <1>18, <1>19, <1>20, <1>21,
     <1>22, <1>23
     DEF Next, Get, Close

(***************************************************************************)
(* The theorems.                                                           *)
(***************************************************************************)

(* Everything above holds always.                                          *)
THEOREM Invariant == Spec => []IInv
<1>1. Init => IInv
  BY ManagerAssumption
     DEF Init, IInv, TypeOK, CallShape, ExitShape, OneOwner, NothingLost,
         ReturnedIsLive, Cached, Held, Pcs, Stages
<1>2. IInv /\ [Next]_vars => IInv'
  <2>1. ASSUME IInv, Next
        PROVE  IInv'
    BY <2>1, ShapeStep, ExitStep, OwnerStep, LostStep, LiveStep DEF IInv
  <2>2. ASSUME IInv, UNCHANGED vars
        PROVE  IInv'
    BY <2>2 DEF IInv, TypeOK, CallShape, ExitShape, OneOwner, NothingLost,
                ReturnedIsLive, Cached, Held, vars
  <2> QED
    BY <2>1, <2>2
<1> QED
  BY <1>1, <1>2, PTL DEF Spec

(* Every variable of the manager keeps its type; at most one call builds, and *)
(* it holds the lock.                                                      *)
THEOREM ManagerTypes == Spec => []TypeOK
<1>1. IInv => TypeOK
  BY DEF IInv
<1> QED
  BY <1>1, Invariant, PTL

(* A workspace is cached under one id, or held by one call, or being swept, or *)
(* on the pool's free list, and in no two of these places.                  *)
THEOREM WorkspaceHasOneOwner == Spec => []OneOwner
<1>1. IInv => OneOwner
  BY DEF IInv
<1> QED
  BY <1>1, Invariant, PTL

(* Only what the code drops (an overwritten cache entry, a release the pool    *)
(* ignores, a cancelled close) is live and nobody's.                        *)
THEOREM WorkspaceNotLost == Spec => []NothingLost
<1>1. IInv => NothingLost
  BY DEF IInv
<1> QED
  BY <1>1, Invariant, PTL

(* Until __aexit__ begins, what get_workspace has cached or is about to cache  *)
(* is live.                                                                *)
THEOREM ReturnedWorkspaceIsLive == Spec => []ReturnedIsLive
<1>1. IInv => ReturnedIsLive
  BY DEF IInv
<1> QED
  BY <1>1, Invariant, PTL

(* The id a build is for.                                                   *)
BuiltIdIsUncached ==
    \A c \in Callers : pc[c] = "build" =>
        /\ builder = c /\ id[c] \in Ids /\ cache[id[c]] = None
        /\ \A d \in Callers : pc[d] = "build" => d = c

(* What the build path caches overwrites nothing, although it waits for the     *)
(* lock after it looked and the pool path stores without looking: only the    *)
(* latter can drop a cached workspace (get_workspace).                       *)
THEOREM BuildOverwritesNothing == Spec => []BuiltIdIsUncached
<1>1. IInv => BuiltIdIsUncached
  BY DEF IInv, TypeOK, CallShape, BuiltIdIsUncached
<1> QED
  BY <1>1, Invariant, PTL
================================================================================
