--------------------------- MODULE WorkspaceManager ---------------------------
(***************************************************************************)
(* The workspace managers: DockerRuntimeWorkspaceManagerBase               *)
(* (_docker_runtime/_base_manager.py), from which the gVisor, Kata and     *)
(* Sysbox managers differ only in the workspace they construct, and        *)
(* FirecrackerWorkspaceManager (_firecracker/_manager.py), which is the    *)
(* same code again.                                                        *)
(*                                                                         *)
(* The SandboxPool is seen through its interface: what it has on its free  *)
(* list and what it counts as in use; module SandboxPool has the rest.     *)
(***************************************************************************)
EXTENDS FiniteSets, Naturals

CONSTANTS
    Callers,    \* tasks calling get_workspace and close
    Ids,        \* workspace ids
    WS,         \* identities of workspaces
    PoolSize,   \* pool_max_size; 0 for enable_pool = False
    None

ASSUME ManagerAssumption ==
    /\ PoolSize \in Nat
    /\ None \notin Callers \cup Ids \cup WS
    /\ IsFiniteSet(WS)

VARIABLES
    cache,     \* _cache, without the time of the last access
    builder,   \* who holds _lock across a build; nobody else suspends in it
    pc,        \* where each caller is suspended
    id,        \* the id it asked for
    ws,        \* the workspace in its local variable
    pool,      \* where the pool has each workspace
    stage,     \* how far __aexit__ is
    sweeping,  \* what the sweeper's gather is closing
    closing,   \* what __aexit__ is closing
    live,      \* workspaces whose sandbox exists
    lost       \* history: live workspaces that have no owner any more

vars == <<cache, builder, pc, id, ws, pool, stage, sweeping, closing,
          live, lost>>

callVars == <<pc, id, ws>>
exitVars == <<stage, closing>>

Pcs == {"idle", "acquire", "store", "direct", "build", "close"}
Stages == {"open", "shut", "drain", "last", "exited"}

Cached == {cache[i] : i \in Ids} \ {None}
Held == {ws[c] : c \in Callers} \ {None}
Fresh == {w \in WS : /\ w \notin live \cup Cached \cup Held \cup sweeping \cup closing
                     /\ pool[w] = "none"}

(* self._pool is not None *)
HasPool == PoolSize > 0 /\ stage \in {"open", "shut", "drain"}

Init ==
    /\ cache = [i \in Ids |-> None] /\ builder = None
    /\ pc = [c \in Callers |-> "idle"]
    /\ id = [c \in Callers |-> None] /\ ws = [c \in Callers |-> None]
    /\ pool = [w \in WS |-> "none"]
    /\ stage = "open" /\ sweeping = {} /\ closing = {}
    /\ live = {} /\ lost = {}

Goto(c, point) == pc' = [pc EXCEPT ![c] = point]
Leaves(c) ==
    /\ Goto(c, "idle")
    /\ id' = [id EXCEPT ![c] = None]
    /\ ws' = [ws EXCEPT ![c] = None]

(* A live workspace that nobody is closing loses its last owner.            *)
Lose(W) == lost' = lost \cup ((W \cap live) \ closing)
Dies(W) ==
    /\ live' = live \ W
    /\ lost' = lost \ W

-----------------------------------------------------------------------------
(* get_workspace.  A call that finds its id in the cache changes only the    *)
(* time of the last access, and the sweeper here may evict any entry.       *)
(* A definition X_Y is X with one fault Y; no specification uses it.         *)

(* A pool that is closed raises.                                            *)
GetMiss(c, i) ==
    /\ pc[c] = "idle" /\ builder = None /\ cache[i] = None
    /\ HasPool => stage = "open"
    /\ id' = [id EXCEPT ![c] = i]
    /\ Goto(c, IF HasPool THEN "acquire" ELSE "direct")
    /\ UNCHANGED <<cache, builder, ws, pool, exitVars, sweeping, live, lost>>

(* pool.acquire() returned a warm sandbox or one it built, which it hands    *)
(* out also when __aexit__ closed the pool in the meantime.                  *)
Acquired(c, w) ==
    /\ pc[c] = "acquire"
    /\ \/ pool[w] = "free" /\ stage = "open" /\ live' = live
       \/ /\ w \in Fresh
          /\ Cardinality({v \in WS : pool[v] # "none"}) < PoolSize
          /\ live' = live \cup {w}
    /\ pool' = [pool EXCEPT ![w] = "leased"]
    /\ ws' = [ws EXCEPT ![c] = w]
    /\ Goto(c, "store")
    /\ UNCHANGED <<cache, builder, id, exitVars, sweeping, lost>>

AcquireTimedOut_WhileOpen(c) ==
    /\ pc[c] = "acquire" /\ stage = "open"
    /\ Goto(c, "direct")
    /\ UNCHANGED <<cache, builder, id, ws, pool, exitVars, sweeping, live, lost>>
AcquireTimedOut(c) ==
    /\ pc[c] = "acquire"
    /\ Goto(c, "direct")
    /\ UNCHANGED <<cache, builder, id, ws, pool, exitVars, sweeping, live, lost>>

(* The pool was closed, its factory raised, or the caller was cancelled.   *)
AcquireFailed(c) ==
    /\ pc[c] = "acquire"
    /\ Leaves(c)
    /\ UNCHANGED <<cache, builder, pool, exitVars, sweeping, live, lost>>

(* The pool path stores its workspace over whatever the cache has by now.  *)
Stored(c) ==
    /\ pc[c] = "store" /\ builder = None
    /\ cache' = [cache EXCEPT ![id[c]] = ws[c]]
    /\ Lose({cache[id[c]]})
    /\ Leaves(c)
    /\ UNCHANGED <<builder, pool, exitVars, sweeping, live>>

StoreCancelled(c) ==
    /\ pc[c] = "store" /\ builder # None
    /\ Lose({ws[c]})
    /\ Leaves(c)
    /\ UNCHANGED <<cache, builder, pool, exitVars, sweeping, live>>

DirectHit(c) ==
    /\ pc[c] = "direct" /\ builder = None /\ cache[id[c]] # None
    /\ Leaves(c)
    /\ UNCHANGED <<cache, builder, pool, exitVars, sweeping, live, lost>>

BuildBegins(c) ==
    /\ pc[c] = "direct" /\ builder = None /\ cache[id[c]] = None
    /\ builder' = c
    /\ Goto(c, "build")
    /\ UNCHANGED <<cache, id, ws, pool, exitVars, sweeping, live, lost>>

Built(c) ==
    /\ pc[c] = "build"
    /\ \E w \in Fresh :
          /\ live' = live \cup {w}
          /\ cache' = [cache EXCEPT ![id[c]] = w]
          /\ Leaves(c)
    /\ builder' = None
    /\ UNCHANGED <<pool, exitVars, sweeping, lost>>

(* _build_and_start raised, or the caller was cancelled in it.             *)
BuildFailed_KeepsLock(c) ==
    /\ pc[c] = "build"
    /\ Leaves(c)
    /\ UNCHANGED <<cache, builder, pool, exitVars, sweeping, live, lost>>
BuildFailed(c) ==
    /\ pc[c] = "build"
    /\ builder' = None
    /\ Leaves(c)
    /\ UNCHANGED <<cache, pool, exitVars, sweeping, live, lost>>

DirectCancelled(c) ==
    /\ pc[c] = "direct" /\ builder # None
    /\ Leaves(c)
    /\ UNCHANGED <<cache, builder, pool, exitVars, sweeping, live, lost>>

-----------------------------------------------------------------------------
(* close                                                                   *)

Pops(I) == cache' = [i \in Ids |-> IF i \in I THEN None ELSE cache[i]]

(* pool.release: a workspace the pool does not know is ignored.             *)
CloseReleases_KeepsEntry(c, i) ==
    LET w == cache[i] IN
    /\ pc[c] = "idle" /\ builder = None /\ w # None
    /\ HasPool /\ w \in live
    /\ ~(pool[w] = "leased" /\ stage # "open")
    /\ pool' = IF pool[w] = "leased" THEN [pool EXCEPT ![w] = "free"] ELSE pool
    /\ lost' = lost
    /\ UNCHANGED <<cache, builder, callVars, exitVars, sweeping, live>>
CloseReleases(c, i) ==
    LET w == cache[i] IN
    /\ pc[c] = "idle" /\ builder = None /\ w # None
    /\ HasPool /\ w \in live
    /\ ~(pool[w] = "leased" /\ stage # "open")
    /\ Pops({i})
    /\ IF pool[w] = "leased"
       THEN pool' = [pool EXCEPT ![w] = "free"] /\ lost' = lost
       ELSE pool' = pool /\ Lose({w})
    /\ UNCHANGED <<builder, callVars, exitVars, sweeping, live>>

(* No pool, a dead workspace, or a closed pool, whose release tears the      *)
(* sandbox down.                                                            *)
CloseCloses(c, i) ==
    LET w == cache[i] IN
    /\ pc[c] = "idle" /\ builder = None /\ w # None
    /\ ~HasPool \/ w \notin live \/ (pool[w] = "leased" /\ stage # "open")
    /\ Pops({i})
    /\ pool' = IF stage # "open" THEN [pool EXCEPT ![w] = "none"] ELSE pool
    /\ ws' = [ws EXCEPT ![c] = w]
    /\ Goto(c, "close")
    /\ UNCHANGED <<builder, id, exitVars, sweeping, live, lost>>

CallerCloses(c) ==
    /\ pc[c] = "close"
    /\ Dies({ws[c]})
    /\ Leaves(c)
    /\ UNCHANGED <<cache, builder, pool, exitVars, sweeping>>

CloseCancelled(c) ==
    /\ pc[c] = "close"
    /\ Lose({ws[c]})
    /\ Leaves(c)
    /\ UNCHANGED <<cache, builder, pool, exitVars, sweeping, live>>

-----------------------------------------------------------------------------
(* _sweep_once closes what expired, pooled or not, and never tells the pool. *)

Sweep_KeepsEntries(I) ==
    /\ stage = "open" /\ sweeping = {} /\ builder = None
    /\ I # {} /\ \A i \in I : cache[i] # None
    /\ sweeping' = {cache[i] : i \in I}
    /\ UNCHANGED <<cache, builder, callVars, pool, exitVars, live, lost>>
Sweep(I) ==
    /\ stage = "open" /\ sweeping = {} /\ builder = None
    /\ I # {} /\ \A i \in I : cache[i] # None
    /\ sweeping' = {cache[i] : i \in I}
    /\ Pops(I)
    /\ UNCHANGED <<builder, callVars, pool, exitVars, live, lost>>

SweeperCloses(w) ==
    /\ w \in sweeping
    /\ sweeping' = sweeping \ {w}
    /\ Dies({w})
    /\ UNCHANGED <<cache, builder, callVars, pool, exitVars>>

(* __aexit__ cancels the sweeper, and with it the closes under way.         *)
Exit ==
    /\ stage = "open"
    /\ stage' = IF PoolSize > 0 THEN "shut" ELSE "last"
    /\ sweeping' = {}
    /\ Lose(sweeping)
    /\ UNCHANGED <<cache, builder, callVars, pool, closing, live>>

(* pool.aclose() closes what is free and what is leased, cached or not.     *)
Drain ==
    /\ stage = "shut"
    /\ stage' = "drain"
    /\ closing' = {w \in WS : pool[w] # "none"}
    /\ pool' = [w \in WS |-> "none"]
    /\ UNCHANGED <<cache, builder, callVars, sweeping, live, lost>>

Closed(w) ==
    /\ w \in closing
    /\ closing' = closing \ {w}
    /\ Dies({w})
    /\ UNCHANGED <<cache, builder, callVars, pool, stage, sweeping>>

Drained ==
    /\ stage = "drain" /\ closing = {}
    /\ stage' = "last"
    /\ UNCHANGED <<cache, builder, callVars, pool, sweeping, closing, live, lost>>

CloseAll_Forgets ==
    /\ stage = "last" /\ builder = None
    /\ stage' = "exited"
    /\ closing' = {}
    /\ cache' = [i \in Ids |-> None]
    /\ UNCHANGED <<builder, callVars, pool, sweeping, live, lost>>
CloseAll ==
    /\ stage = "last" /\ builder = None
    /\ stage' = "exited"
    /\ closing' = Cached
    /\ cache' = [i \in Ids |-> None]
    /\ UNCHANGED <<builder, callVars, pool, sweeping, live, lost>>

(* The pool's own sweeper evicts a free sandbox.                           *)
PoolEvicts(w) ==
    /\ stage = "open" /\ pool[w] = "free"
    /\ pool' = [pool EXCEPT ![w] = "none"]
    /\ Dies({w})
    /\ UNCHANGED <<cache, builder, callVars, exitVars, sweeping>>

-----------------------------------------------------------------------------
Get(c) ==
    \/ \E i \in Ids : GetMiss(c, i)
    \/ \E w \in WS : Acquired(c, w)
    \/ AcquireTimedOut(c) \/ AcquireFailed(c)
    \/ Stored(c) \/ StoreCancelled(c)
    \/ DirectHit(c) \/ BuildBegins(c) \/ Built(c) \/ BuildFailed(c) \/ DirectCancelled(c)

Close(c) ==
    \/ \E i \in Ids : CloseReleases(c, i) \/ CloseCloses(c, i)
    \/ CallerCloses(c) \/ CloseCancelled(c)

Next ==
    \/ \E c \in Callers : Get(c) \/ Close(c)
    \/ \E I \in SUBSET Ids : Sweep(I)
    \/ \E w \in WS : SweeperCloses(w) \/ Closed(w) \/ PoolEvicts(w)
    \/ Exit \/ Drain \/ Drained \/ CloseAll

Spec == Init /\ [][Next]_vars

(* A task that can run does run, and builds, the pool's acquire and closes   *)
(* end.                                                                     *)
FairSpec ==
    /\ Spec
    /\ \A c \in Callers :
          /\ WF_vars(AcquireTimedOut(c)) /\ SF_vars(Stored(c))
          /\ WF_vars(Built(c) \/ BuildFailed(c))
          /\ SF_vars(DirectHit(c) \/ BuildBegins(c))

-----------------------------------------------------------------------------
(* The variables hold what the code can put there.                          *)
TypeOK ==
    /\ cache \in [Ids -> WS \cup {None}]
    /\ builder \in Callers \cup {None}
    /\ pc \in [Callers -> Pcs] /\ id \in [Callers -> Ids \cup {None}]
    /\ ws \in [Callers -> WS \cup {None}]
    /\ pool \in [WS -> {"none", "free", "leased"}]
    /\ stage \in Stages
    /\ sweeping \subseteq WS /\ closing \subseteq WS /\ live \subseteq WS
    /\ lost \subseteq live
    /\ \A c \in Callers : (builder = c) <=> (pc[c] = "build")

(* A workspace has one owner: it is cached under one id, or held by one      *)
(* call, or being swept, or on the pool's free list, although get_workspace  *)
(* acquires outside the lock and close, the sweeper and __aexit__ release    *)
(* and close outside it.                                                     *)
OneOwner ==
    /\ \A i, j \in Ids : cache[i] = cache[j] /\ cache[i] # None => i = j
    /\ \A c, d \in Callers : ws[c] = ws[d] /\ ws[c] # None => c = d
    /\ Cached \cap Held = {}
    /\ sweeping \cap (Cached \cup Held) = {}
    /\ \A w \in WS : pool[w] = "free" =>
          w \in live /\ w \notin Cached \cup Held \cup sweeping

(* A live workspace is in the cache, in the hands of a call, the sweeper,    *)
(* __aexit__ or the pool, but for those the code drops: overwritten in the   *)
(* cache by a second get of the same id, ignored by pool.release because     *)
(* they were built after its time-out, or cut off by a cancellation.         *)
NothingLost ==
    \A w \in live :
        \/ w \in Cached \cup Held \cup sweeping \cup closing
        \/ pool[w] = "free"
        \/ w \in lost

(* Until __aexit__ begins, what get_workspace returns or is about to return   *)
(* is live: neither the sweeper nor close nor the pool closed it, however    *)
(* long the call waited for the lock.                                       *)
ReturnedIsLive ==
    stage = "open" =>
        Cached \cup {ws[c] : c \in {d \in Callers : pc[d] = "store"}} \subseteq live

(* A call of get_workspace ends, although builds hold the lock all others    *)
(* need, and although __aexit__ may close the pool it waits on.              *)
GetEnds ==
    \A c \in Callers :
        pc[c] \in {"acquire", "store", "direct", "build"} ~> pc[c] = "idle"
=============================================================================
