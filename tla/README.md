# A verification of agentscope_sandbox_ext

TLA+ models of the concurrent and stateful parts of `agentscope_sandbox_ext`
(`src/src/agentscope_sandbox_ext/` in the repository), the TLC runs that check
them on small instances, and TLAPS proofs of what matters most for every
instance. Paths below are relative to that package.

## 1. The system

The package extends AgentScope with sandboxed workspaces: virtual file systems,
Docker runtimes (gVisor, Kata, Sysbox) and Firecracker microVMs behind one
workspace interface; a pool that keeps sandboxes warm; and an orchestrator that
suspends *actors* to durable snapshots and resumes them on any *worker*.
Everything runs on one asyncio event loop. Tasks interleave at `await`s that
really suspend, and a cancellation may arrive at any of them; locks are asyncio
locks, and the stores shipped with the package are dictionaries in memory.

| component | state | operations | talks to |
|---|---|---|---|
| `SandboxPool` (`_pool.py`) | free list, in-use set, pending counter, closed flag, sweeper and pre-warmer tasks | `acquire`, `release`, `aclose`, `_sweep_once`, `_prewarm_once` | the factory, `health_check` and `ws.close()` (awaits outside its lock), callers waiting on its condition |
| `Orchestrator` (`_orchestration/orchestrator.py`) | template registry, golden snapshots | `create_actor`, `delete_actor`, `resume_actor`, `suspend_actor`, `pause_actor`, `mark_crashed` | stores, `WorkerPool`, `CheckpointBridge`, router, `Singleflight` |
| `WorkerPool`, `Scheduler` (`worker_pool.py`) | warm-idle registry, closed flag, sweeper task | `acquire_worker`, `claim_for_actor`, `release_worker`, `_retire`, `_sweep_once`, `aclose` | worker store, `SandboxPool` |
| stores (`store.py`, `model.py`) | actor and worker records with versions | compare-and-swap `put`, `claim`, `release`, `register`, `delete`, `list_idle` | - |
| `Workflow` (`lifecycle.py`) | context of one resume | runs steps in order, skipping complete ones | the four resume steps |
| `AgentRouter` (`router.py`) | bindings | `bind`, `unbind`, `resolve` | - |
| `Singleflight` (`singleflight.py`) | flights by key | `run` | the leader task and its joiners |
| `CheckpointBridge` (`checkpoint.py`) | - | `checkpoint`, `restore`, `_swap_workdir` | workspace snapshot, snapshot store, file system |
| VFS workspaces (`_vfs/`) | working directory and snapshot directories | `snapshot`, `restore`, `initialize`, `close` | file system |
| snapshot stores (`_runtime/`) | snapshots by reference, tiers | `put_tree`, `restore_tree`, `get`, `delete`, eviction | files, Postgres, MinIO |
| managers (`_docker_runtime/_base_manager.py`, `_firecracker/_manager.py`) | workspaces by id | `get_workspace`, `close`, sweeper, `close_all`, `__aexit__` | workspaces, optionally a `SandboxPool` |
| Firecracker workspace (`_firecracker/_workspace.py`, `_api.py`) | process, API client, socket files | `_provision_backend`, `_teardown_backend` | the firecracker process and its REST API, the guest agent |
| guest agent and its client (`_firecracker/_backend.py`, `_guest_agent.py`) | connections, the executor's jobs | `ping`, `exec_shell`, `read_file`, `write_file` | vsock, the agent in the VM |
| Docker-runtime workspaces (`_gvisor`, `_kata`, `_sysbox`) | a container | `initialize`, `close`, `exec_shell` | Docker |

What is hard here, and what makes each part correct:

* **SandboxPool.** The capacity test happens under the lock, the boots without
  it; a sandbox passes between the free list, the in-use set, local variables of
  suspended tasks and teardown. Correct means: never more than `max_size`, one
  owner per sandbox, no live sandbox nobody knows, no waiter asleep beside a
  free sandbox, everything closed after `aclose`.
* **Orchestrator and WorkerPool.** Long operations (boot, checkpoint, retire)
  work with records they read earlier, while other calls crash, delete, resume
  or sweep the same actor or worker; failures stop in the middle with no
  compensation. Correct means: a RUNNING actor has its worker, no worker has two
  users, a binding leads to its actor's worker, sandboxes are neither lost nor doubled.
* **Singleflight.** Leader and joiners share one task; cancellations and
  time-outs race its end.
* **VFS and checkpoint swaps.** Several renames make one update; the process may
  die between any two.
* **Managers.** A cache of workspaces filled outside its lock, from a pool or by a
  build, while a sweeper, `close` and `__aexit__` empty it. Correct means: one owner
  per workspace, nothing live that nobody knows, no call stuck behind the lock.
* **Tiered snapshot store.** Objects are written to several tiers at once, promoted,
  evicted and deleted by tasks that suspend in between, and what the store knows of
  them is lost when the process dies. Correct means: what was put is found, what is
  stored can be evicted, what was deleted stays away.
* **Firecracker.** A VM takes a dozen steps to come up, any of which may fail or be
  cancelled; each request is three blocking jobs in a shared pool of threads, with
  time-outs on two of them; the agent serves one connection at a time. Correct
  means: no process is left behind, a request reaches the right VM, and what a
  caller gave up does not take effect behind its back.

`PROJECT.json` lists every component with its status and every hazard at its line.

## 2. The modules

| module | models | state and actions |
|---|---|---|
| `SandboxPool` | `_pool.py`, all of it but `metrics` | below |
| `MCPool` | - | symmetry sets of the TLC instances of `SandboxPool` |
| `SandboxPoolProofs` | - | theorems about the counters of `SandboxPool` |
| `SandboxPoolOwnership` | - | theorems about who owns a sandbox, where every sandbox is, wake-ups and the semaphore; extends `SandboxPoolProofs` |
| `Orchestrator` | `_orchestration/` except the joiners of a flight and the workdir swap | below |
| `MCOrchestrator` | - | symmetry sets of the TLC instances of `Orchestrator` |
| `OrchestratorProofs` | - | theorems about `Orchestrator`: all its safety properties |
| `FlightContract` | what `Singleflight.run` promises its callers | below |
| `Singleflight` | `_orchestration/singleflight.py`, implements `FlightContract` | below |
| `MCSingleflight` | - | the TLC instances of `Singleflight` |
| `SingleflightProofs` | - | theorems about `Singleflight`: its invariants and its refinement of `FlightContract` |
| `VFSSnapshot` | `snapshot`, `restore` of `_vfs/_base.py`, `_orchestration/checkpoint.py` | below |
| `MCVFSSnapshot` | - | the TLC instance of `VFSSnapshot` |
| `VFSSnapshotProofs` | - | theorems about `VFSSnapshot`: all its properties |
| `WorkspaceManager` | `_docker_runtime/_base_manager.py`, `_firecracker/_manager.py` | below |
| `MCWorkspaceManager` | - | the TLC instance of `WorkspaceManager` |
| `WorkspaceManagerProofs` | - | theorems about `WorkspaceManager`: its safety properties |
| `SnapshotBackends` | `put`, `get`, `delete` of the local, Postgres and MinIO stores, as outcomes | below |
| `TieredStore` | `_runtime/tiered_store.py`; extends `SnapshotBackends` | below |
| `MCTieredStore` | - | the TLC instance of `TieredStore` |
| `TieredStoreProofs` | - | theorems about `TieredStore`: all its properties |
| `GuestAgent` | `_firecracker/_backend.py`, `_firecracker/_guest_agent.py` | below |
| `MicroVM` | `_firecracker/_workspace.py`, `_firecracker/_api.py`; extends `GuestAgent` and composes it with the life of the VM | below |
| `MCMicroVM` | - | the TLC instance of `MicroVM` |
| `MicroVMProofs` | - | theorems about `GuestAgent` and `MicroVM`: all their properties |

A definition named `X_Y` beside a definition `X` is `X` with one fault `Y` (a
dropped guard, a forgotten update). No specification uses them; they document
which mistakes each property notices, and `PROJECT.json` pairs them.

### SandboxPool

One action is what a task does between two real suspension points. `free`,
`inUse`, `pending` and `closed` are `_free`, `_in_use`, `_pending_count` and
`_closed`. `pc[c]` and `ws[c]` are where a caller is suspended in `acquire` or
`release` and the sandbox in its local variable; `sweeper`, `warmer` and `closer`
are the background tasks and `aclose`, each with what it has still to close.
`live` is the environment: sandboxes the factory built and whose `close()` has not
ended. `cut` is history: sandboxes whose probe or close a cancellation cut.

| code | actions |
|---|---|
| `acquire`, closed check | `AcquireClosed` |
| warm path and health check | `AcquireWarm`, `ProbeOk`, `ProbeFailed`, `CallerClosed` |
| growth path, `_provision_locked`, `_call_factory_bounded` | `AcquireGrow`, `EnterFactory`, `ProvisionDone`, `ProvisionFailed` |
| wait path | `AcquireWait`, `SleepAgain`, `WokenToLoop`, `AcquireTimeout` |
| cancellation of a caller | `CallerCancelled`, `ProvisionFailed` |
| `release` | `ReleaseUnknown`, `ReleaseToPool`, `ReleaseTeardown`, `CallerClosed` |
| `_sweep_once` | `Sweep`, `SweeperClosed` |
| `_prewarm_once` | `PrewarmTick`, `WarmerEntersFactory`, `PrewarmDone`, `PrewarmSurplus`, `WarmerClosed`, `PrewarmFailed` |
| `aclose` | `Close`, `CancelPrewarm`, `Drain`, `CloserClosed`, `CloseReturns` |

Decisions. The model starts after `start()`. Time is abstract: the sweeper evicts
any prefix of the free list (returns are appended in time order, so the expired
ones are a prefix), a waiter may time out whenever it sleeps. The condition is
modelled with the step between the wake-up and the next round of the loop
(`WokenToLoop`), in which another task may take the sandbox. A newcomer does not
overtake the semaphore's queue. A `close()` that raises counts as ended, as
`_safe_close` does. Identities are reused once nothing refers to them (`Fresh`),
as object identities are, so finitely many suffice for runs of any length. A
caller releases a lease once: a second release is a misuse of the API.

### Orchestrator

`actor` and `worker` are the two stores' records (status, version, worker,
whether there is a snapshot; sandbox, version, hosted actor), `warm` is
`_warm_idle_since`, `route` the router, `golden` whether the template's golden
snapshot was captured, `pooled` the sandboxes in the hands of `SandboxPool`.
`flight[a]` is the resume in flight for actor `a` with the local variables of its
workflow, `call[k]` a suspend or pause with its own, `retiring` the list a sweep
or `aclose` works through. `leaked` and `stolen` are history: workers a failure
left claimed with nobody on them, and workers a sweep retired after they were
claimed again. `born` bounds how often an id is created.

| code | actions |
|---|---|
| `create_actor`, `delete_actor`, `mark_crashed` | `CreateActor`, `DeleteActor`, `MarkCrashed` |
| `resume_actor`, `_LoadActorStep` | `Resume`, `ResumeRefused` |
| `_ClaimWorkerStep`, `acquire_worker`, `claim_for_actor` | `ClaimIdle`, `NeedSandbox`, `ClaimFresh`, `AcquireFailed` |
| `_RestoreOrBootStep`, `_FinalizeRunningStep` | `BootFailed`, `Booted`, `Captured` |
| `suspend_actor`, `pause_actor`, `release_worker` | `SuspendBegins`, `CheckpointFailed`, `CheckpointedKeepsWarm`, `CheckpointedRetires`, `FlipAfterRetire`, `FlipCancelled` |
| `WorkerPool._sweep_once`, `aclose` | `SweepTick`, `RetireNext`, `ClosePool`, `CloseWarmPool` |

Decisions. The in-memory stores and the router never suspend, and the asyncio
locks around them are never contended; the suspension points are the start of the
leader task, `SandboxPool.acquire`, checkpoint, restore, the golden capture, and
`SandboxPool.release` of a retired worker (which awaits the teardown when that
pool is closed). So the compare-and-swap of a claim right after `list_idle` cannot
fail here, and the retry loop of `_ClaimWorkerStep` and the conflict branches of
`delete_actor` and `mark_crashed` are unreachable; a remote store would reach
them. There is one template. `Picky` are actors whose selector no worker's labels
satisfy: they ask the pool for a sandbox every time, and a fresh worker is not
tested against the selector. Whether a checkpointed sandbox is dead, which warm
workers expired, which idle worker is picked and which await fails or is
cancelled are nondeterministic.

### Singleflight and FlightContract

`flights` is `_flights`, `task[f]` the leader task of a flight with its key,
`joiners[f]` its `joiner_count`; `pc[c]` and `at[c]` say whether a caller is inside
`run`, as what, and for which flight; `answer[c]` is how its last call ended.
`hit` is history: callers cancelled during their last call.

| code | actions |
|---|---|
| `_run`, up to the first await | `Lead`, `Join` |
| `_lead` | `LeadStarts`, `LeadEnds` |
| `_join`, and the leader's await with `_finalize` | `Return`, `Exhausted` |
| cancellation of a caller | `CancelLeaves`, `CancelPassedOn` |

Decisions. The lock is never held across a suspension, so a call is leader or joiner
in one step. Callers in `Patient` have no budget (`None` and a `default_budget` of
`None`) and await the leader task unshielded, as the first caller of a flight does:
a cancellation of either is passed on to the task, which ends `doomed` if it never
started, or unwinds `fn` and may still return or raise. Time is abstract: a joiner
with a budget may give up at any point, also when the result is already there.
`asyncio.TimeoutError` of `fn` itself becomes `BudgetExhausted` in `_join`.

`FlightContract` knows nothing of tasks, locks or the table: an execution is opened
only when its key has no open one, has one outcome, is cancelled only if one of its
own callers was, and each caller leaves with that outcome, or with its own time-out
or cancellation; nobody joins once the first caller has left. The refinement maps
the flight a caller is in to `owed`, the leaders to `first`, and every state of a
task that has not ended to `"open"`.

### VFSSnapshot

A directory is one value: missing (`"none"`), `"empty"`, only partly there
(`"torn"`), or a whole tree (one of `Contents`). `work` is the working directory,
`aside` and `copy` its siblings, `durable` the tree of the latest checkpoint in the
durable store, `tags` and `tmp` the snapshot directories and the
`<tag>.tmp.*` ones beside them; `op` is the operation under way and the file
operation it is at. `data` (what the user last wrote or restored), `saved` (what
each tag's last completed snapshot held), `broken` (tags an operation has begun to
remove and not replaced) and `mishap` (a removal was cut short; the workspace went
on without its working directory) are history.

| code | actions |
|---|---|
| `snapshot`, `_cleanup_stale_snapshot_dirs` | `SnapshotBegins`, `SnapshotCopied`, `RemovalBegins`, `RemovalEnds`, `Published`, `SnapshotFailed` |
| `restore` | `RestoreBegins`, `RestoreCopied`, then the swap |
| `CheckpointBridge.checkpoint` | `CheckpointBegins`, `FullCopied`, `Degraded`, `Stored`, `StoreFailed` |
| `CheckpointBridge.restore` | `FetchBegins`, `Fetched`, `FetchFailed`, then the swap |
| the swap in both | `ClearBegins`, `ClearEnds`, `MovedOut`, `NothingToMove`, `MovedIn`, `Dropped`, `SwapFailed`, `RolledBack`, `NotRolledBack` |
| death of the process, `AgentFSBackend.__init__` | `Crash`, `Restart` |

Decisions. `copytree` and `rmtree` suspend nowhere, so operations of one workspace do
not interleave; the bridge alone suspends, while the store is read, and user writes,
snapshots and restores may happen meanwhile. `rmtree` of a tag is two steps, so a
crash or an error can stop it half way; the removal of stale temporary directories
is one. `Nested` holds pairs of tags of which the second is named like a temporary
directory of the first. Copies left under a `.restore.*` or `ckpt-restore-*` name
after a crash are never used again and are forgotten. Rename is atomic, and a file
operation that raised did nothing (but for the trees above). The snapshot a FULL
checkpoint makes has a time-stamped tag of its own that nobody restores; only its
copy matters, and the archive is read from it, or from the live directory, without
a suspension. What a restore fetches is that checkpoint or one another workspace of
the same actor made.

### WorkspaceManager

`cache` is `_cache` without its access times, `builder` the call that holds `_lock`
across `_build_and_start` (nothing else suspends under that lock), `pc[c]`, `id[c]`,
`ws[c]` where each caller is with its local variables, `pool[w]` what the
`SandboxPool` has a workspace as, `stage` how far `__aexit__` is, `sweeping` and
`closing` what a gather is closing. `lost` is history: live workspaces that have no
owner any more.

| code | actions |
|---|---|
| `get_workspace` | `GetMiss`, `Acquired`, `AcquireTimedOut`, `AcquireFailed`, `Stored`, `StoreCancelled`, `DirectHit`, `BuildBegins`, `Built`, `BuildFailed`, `DirectCancelled` |
| `close` | `CloseReleases`, `CloseCloses`, `CallerCloses`, `CloseCancelled` |
| `_sweep_once` | `Sweep`, `SweeperCloses` |
| `__aexit__`, `close_all` | `Exit`, `Drain`, `Drained`, `CloseAll`, `Closed` |
| the pool's own sweeper | `PoolEvicts` |

Decisions. The two managers are the same code twice, and the three Docker-runtime
subclasses only construct another workspace. A hit in the cache changes an access
time, and the clock is abstract: any cached entry may be the expired one. The pool
is its interface: `acquire` gives a free or a new workspace, times out or raises,
`release` takes back what it leased and ignores the rest; `SandboxPool` has the
inside. It also hands out what its factory finishes after `__aexit__` closed it, so a
manager may cache a workspace, which nobody then closes, after it was exited.
`_safe_close` never raises and a closed workspace is dead.

### TieredStore and SnapshotBackends

`stored[t][r]` is the object of a reference in a tier (`"none"`, `"whole"`,
`"torn"`) and survives a crash; `tracked`, `meta` and `access` are `_tier_refs`, the
keys of `_meta_cache` and `_access_times` in order of access. `op[a]` is the call of
a client or the sweeper: its reference, tier, the data it holds and where it is;
`writes[j]` the gathered writes of a put, `agenda` what `_evict_tier` still goes
through. The rest is history; `condemned`, `excused` and `forgotten` name the
exceptions of the properties. `SnapshotBackends` gives, for each kind of store, the
set of outcomes (object afterwards, answer) of one call, failures included.

| code | actions |
|---|---|
| a tier's `put`, `get`, `delete` | `Serve`, `Write` |
| `put` | `PutBegins`, `Write`, `Written`, `PutReturns`, `PutRaises`, `PutCancelled` |
| `get`, with `restore_tree` and the read of `copy` | `GetBegins`, `GetMisses`, `GetRaises`, `GetFound`, `Promoted` |
| `delete` | `DeleteBegins`, `DeleteGoesOn`, `DeleteEnds` |
| cancellation of a get or delete | `CallCancelled` |
| `put_tree` | `PutTree` |
| `_sweep_once`, `_evict_tier` | `SweepBegins`, `Evict`, `Evicted`, `SweepNextTier`, `SweepRaises` |
| the process ends and starts again | `Crash` |

Decisions. Only the Postgres store suspends: the local one awaits an uncontended lock,
the MinIO client blocks the event loop. An agent at one of those holds the loop until
it gets further (`Holds`, `Turn`), so interleaving is as fine as the code allows and
no finer. References carry a time stamp and are never reused. `copy` is a `get`
followed by a `put` under a new reference. `put_tree` works on a local tier only
(section 5) and its references are the store's own. A TTL may find any set of
references expired. `PutRaises` is taken when the last gathered write has ended; in
the code `gather` raises at the first failure and the others go on by themselves,
which leaves the same objects and references under a put that returned no reference. A
reference is `excused` from being gone when a promotion's write is carried out after
its delete began, when a crash tears its object, or when a tier failed the delete.
`StoredIsTracked` supposes that the tiers with an eviction policy are `Certain`: their
calls hold the event loop and answer truly, as the local store's do (section 5 has
what an evicting Postgres tier loses).

### GuestAgent and MicroVM

`ex[e]` is one request with its connection: its client, whether the client still
waits, what is asked, which of the three executor jobs (connect, send, receive) it is
in and whether a thread runs it, and how far the agent is with it. `queue` is the
executor's, `backlog` the guest kernel's, `served` the connection the agent is on,
`guest` what is behind the vsock path. In `MicroVM`, `proc` are the firecracker
processes, `path` the one that made the socket file, `handle`, `api`, `bound` are
`_process`, `_api`, `_backend`, `stage` and `puts` where `_provision_backend` or
`_teardown_backend` is; `cut` (history) are processes alive when a cancellation ended
a provision or teardown.

| code | actions |
|---|---|
| `GuestAgentClient._request`, `vsock_connect` | `Ask`, `GoesOn`, `Answered`, `Fails`, `TimesOut`, `RequestCancelled` |
| executor and kernels | `Takes`, `Connects`, `ConnectFails`, `Sends`, `SendFails`, `Receives`, `ReceiveFails` |
| `_guest_agent.py` | `Accepts`, `Handles`, `Replies`, `HangsUp`, `AgentDies` |
| `_provision_backend` | `ProvisionBegins`, `RuntimeMissing`, `Spawned`, `SocketReady`, `SetUp`, `SetUpFails`, `Pings`, `AgentReachable`, `WaitedTooLong`, `TaskCancelled` |
| `_teardown_backend` | `CloseBegins`, `ShutdownSent`, `Reaped` |
| the guest and its process | `AgentStarts`, `ProcessDies` |

Decisions. A time-out or cancellation ends the request, not the thread inside a
blocking call; such a thread keeps its slot and its connection until the call returns.
Requests differ by what their size does: a `"quick"` one fits the buffers, a `"bulk"`
one needs the other end to read, a `"hugeAsk"` or `"hugeAnswer"` exceeds the frame
limit of 64 MiB. A handshake that times out leaves nothing in the guest. The agent's
`bind` succeeds. Provision and teardown of one workspace do not overlap, and only a
workspace with nothing bound is provisioned: the base class calls them. A teardown
that removes the socket file of a process it does not know breaks that process's
connections, as nobody can reach it any more.

## 3. What is checked

| run | instance | shows |
|---|---|---|
| `pool` | 3 callers, 5 identities, `max_size` 2, `min_warm` 2, FIFO, health check, one provision at a time | `TypeOK`, `CapacityBound`, `PendingExact`, `LiveBound`, `ExclusiveLease`, `LeasedIsLive`, `NothingLost`, `InUseIsLeased`, `NoMissedReturn`, `ProvisionCap` |
| `pool_close` | 2 callers, 4 identities, `max_size` 2, `min_warm` 1, LIFO, unlimited provisions, `FairSpec` | `ClosedPoolEmpties` |
| `orchestrator` | 2 actors, one of them created twice and picky, 3 worker ids, 3 sandboxes, 1 suspend/pause call at a time, 2 warm workers, versions to 6, to 4 where the id is reused | `TypeOK`, `RunningHasWorker`, `FlightHasWorker`, `RoutedToOwnWorker`, `IdleIsWarm`, `ClaimIsAccounted`, `WorkerHasOneUser`, `SandboxAccounting`, `WarmIsIdle` |
| `singleflight` | 3 callers, one without a budget, 2 keys, 2 flights, `FairSpec` | `TypeOK`, `OneExecution`, the refinement `KeepsContract`, `FlightEnds` |
| `vfs_snapshot` | 2 tags, the second named like a temporary directory of the first, 2 contents | `TypeOK`, `TagKeepsSnapshot`, `HalfTreesStayHidden`, `LiveTreeRecoverable`, `RestoreExact` |
| `workspace_manager` | 2 callers, 2 ids, 3 identities of workspaces, a pool of 2, `FairSpec` | `TypeOK`, `OneOwner`, `NothingLost`, `ReturnedIsLive`, `GetEnds` |
| `tiered_store` | 2 clients, 2 references, a local tier with LRU and room for 1 over an unlimited Postgres tier, all faults | `FoundWhileKept`, `StoredIsTracked`, `DeletedIsGone` |
| `microvm` | 1 user and the workspace's own pings, 2 exchanges, 2 executor threads, backlog of 2, 2 processes, all four kinds of request | `NoLateCommand`, `NoStrayVM`, `BoundToOwnVM` |
| `pool_wake`, `orchestrator_sweep`, `orchestrator_route`, `singleflight_bystander` | smallest instances | a documented statement the code does not keep (section 5) |

**Bounds.** Three callers on a pool of two is the least in which one caller waits
while two hold or boot; with one provision at a time, callers and the pre-warmer queue
on the semaphore; five identities are enough for every local variable to hold a
different sandbox while a fresh one boots. Two actors contend for workers; with three
sandboxes and three worker ids a claim finds an idle worker, a fresh one or neither,
and one sandbox lives through several worker records. Operations on an actor stop at
version `MaxVersion`, at `MaxReused` where its id is reused, and workers as old as
`MaxVersion` are passed over: 6 lets a suspended actor be resumed from its snapshot, 4
lets each incarnation of the reused id be resumed and suspended. So a worker a sweep
has unlisted can be claimed, released and retired before its turn comes, and the
suspends are one more than the two places of the warm registry. One suspend or pause
runs at a time; the theorems are for any number. A second incarnation of an id is
enough for a stale version to match. Three callers are a leader, a joiner and one who
calls between the end of the flight and its removal; identities of flights are reused.
Two contents tell the old tree from the new. In `workspace_manager` two callers race
for one id and for the pool's last place, and a second id shows that one workspace is
never under two. Two references in a tier with room for one make eviction choose, and
two clients with the sweeper race a promotion, a delete and an eviction on the same
object; that the fast tier is local and the slow one Postgres is the combination in
which one suspends and the other cannot. Two processes are an orphan and its
successor, two exchanges a request that was given up and the one made after it, on two
threads so that both are inside a call. The orchestrator runs say `CHECK_DEADLOCK
FALSE`: when every actor has reached its bound the system rests. The others never rest
and their runs check deadlock.

**Fairness** (`FairSpec`). A task that can run does run: the event loop is fair.
Factories, health checks and `close()` end (the code bounds none of them with a
time-out, so this is what the callbacks owe), and a caller gives its lease back.
No fairness on time-outs, on cancellations, on new `acquire` calls or on the
decision to call `aclose`. In `Singleflight` the leader task and a caller whose task
has ended run; that `fn` ends is assumed, since nothing in `run` bounds it.
In `WorkspaceManager` builds and the pool's `acquire` end (the pool has a time-out),
and a caller that waits for `_lock` gets it in the end: asyncio's lock is first come,
first served, hence the strong fairness of the steps that need it. The sweeper,
`close` and `__aexit__` have none. `TieredStore` and `MicroVM` state no fairness and
claim no liveness: nothing bounds a `send` to the guest or a call to a tier.

## 4. What is proved

Every safety property a passing run checks is a theorem, for all values of the
constants that satisfy the module's assumption and without the bounds of the run:

| module | theorems | for |
|---|---|---|
| `SandboxPoolProofs` | `PoolCounters`, and from it `PoolTypes`, `PoolCapacity`, `PoolPendingExact` | finitely many callers and sandboxes, what the constructor accepts (`PoolAssumption`) |
| `SandboxPoolOwnership` | `PoolOwnership`, and from it `PoolExclusiveLease`, `PoolLeasedIsLive`; `PoolAccounts`, and from it `PoolNothingLost`, `PoolInUseIsLeased`; `PoolNoMissedReturn`; `PoolProvisionCap`; `PoolLiveBound` | the same |
| `OrchestratorProofs` | `Invariant`, and from it `OrchestratorTypes`, `RunningActorHasWorker`, `BootingActorHasWorker`, `RoutesLeadToOwnWorker`, `IdleWorkersAreListed`, `ClaimsAreAccounted`, `OneUserPerWorker`, `SandboxesAreAccounted`, `WarmWorkersAreIdle`, `ReleaseNeverConflicts`, `LateWritesOverwriteNothing` | any actors, sandboxes and calls, finitely many workers, any `max_warm_idle` and any reuse of ids (`OrchestratorAssumption`) |
| `SingleflightProofs` | `Invariant`, and from it `SingleflightTypes`, `OneExecutionPerKey`, and the refinement `RunKeepsContract` | finitely many callers, any keys, flights and budgets (`SingleflightAssumption`) |
| `VFSSnapshotProofs` | `Invariant`, and from it `TypesHold`, `TagsKeepSnapshots`, `HalfTreesHidden`, `LiveTreeIsRecoverable`, `RestoresAreExact` | any tags and contents, any nesting of tag names (`VFSAssumption`) |
| `WorkspaceManagerProofs` | `Invariant`, and from it `ManagerTypes`, `WorkspaceHasOneOwner`, `WorkspaceNotLost`, `ReturnedWorkspaceIsLive`, `BuildOverwritesNothing` | any callers, ids and workspaces, any size of the pool, none included (`ManagerAssumption`) |
| `TieredStoreProofs` | `Invariant`, and from it `KeptSnapshotIsFound`, `StoredSnapshotIsTracked`, `DeletedSnapshotIsGone` | any number of tiers over any backends, any policies and limits, any clients and references (`TieredAssumption`) |
| `MicroVMProofs` | `GuestInvariant`, and from it `OvertakenStaysUndone`; `VMInvariant`, and from it `EveryVMIsOwned`, `BackendIsOwnVM` | any clients, exchanges and processes, any number of threads and length of the backlog (`GuestAssumption`, `MicroVMAssumption`) |

**Counters.** `CapacityBound` alone is not inductive: a step that ends a provision
takes one from `pending` and adds a sandbox to `inUse`, and unless `pending` is at
least 1 the decrement leaves `Nat`. That it is at least 1 is `PendingExact`, which
says that `pending` counts the tasks between the two; and `PendingExact` in turn
needs the types (the program counters) and that the set of provisioning callers is
finite. `Counters` is their conjunction. `CountersInit` establishes it, the lemma
`CountersStep` shows that every action preserves it, with one lemma per conjunct
(`TypeStep`, `PendingStep`, `CapacityStep`). The actions fall into those that do
not touch the provisioning callers (`PendingUnmoved`) and the handful that do
(`PendingMovesWithCallers`), and the cardinality facts are stated once
(`ProvisionBegins`, `ProvisionEnds`, `ProvisionUnmoved`, `AddOne`, `DropOne`).

**Ownership.** That no two callers hold one sandbox is not inductive: a caller could
pop a sandbox that is twice in the free list, or be given by the factory one that is
already in somebody's hands. `Ownership` says that every sandbox is in one place,
the free list, one caller's hands, the sweeper's list or the pre-warmer's hands
(`FreeOnce`, `HandsApart`, `PlacesApart`), and that what is free or leased is live
(`KnownLive`): the factory returns a sandbox that is not live, so never one of these.
`CloserConsistent` is what the last part needs of `aclose`, which closes leased
sandboxes. The lemmas `PopMoves` (for either end of the deque, by `OneLess`),
`AppendMoves` and `EvictMoves` say once what the deque operations do to the set of free
sandboxes; there is one lemma per task.

**Accounts.** On top of ownership, what is in use is live and neither free nor being
closed (`InUseApart`), which makes `NothingLost` and `InUseIsLeased` inductive.
`NoMissedReturn` and `ProvisionCap` are inductive given the types: each step that
fills the free list wakes every sleeper, and each that enters the factory found a
permit, directly or at the head of the queue. `LiveBound` needs no induction of its
own: by `NothingLost` a live sandbox that nobody tears down is free or in use, by
`PendingExact` a boot in flight has a slot, and `CapacityBound` bounds their sum.

**Directories.** The properties of `VFSSnapshot` speak of directories at rest, and
what keeps them so is where the operation under way is. `OpShape` says where each
kind can be; `CopyExact`, that the copy about to be moved in is what the tag's last
completed snapshot held, unless an earlier failure broke the tag, and that the
archived copy is the working directory: nothing else touches either while the
operation runs; `CopyWhole`, that what is about to be published, stored or moved back
is no half tree; `TreePlaced`, that the user's tree is aside only between the two
renames, and that the working directory is then missing, so that after a crash there
the one place is as good as the other. One lemma per part goes through the actions.

**Managers.** `OneOwner` would break if a step put a workspace where another place
still has it, or `__aexit__` closed one that is free: `CallShape` says what a call has
in its variables where it is suspended, and that the id a build is for stays uncached,
because whoever writes the cache needs the lock the builder holds; `ExitShape`, that
`__aexit__` closes one thing at a time, with nothing free once the pool is drained.
With those `OneOwner` is inductive, and the other two relative to it: what leaves a
place is the only one to leave it, and what dies was in nobody else's hands. The proof
uses it element by element (`Owners`); of the actions only six put a workspace in a new
place, and `NoNewPlace` covers the rest. `BuildOverwritesNothing` states the fact about
builds: of the two ways `get_workspace` fills the cache, only the pool path can drop what
is there.

**Workers.** None of the orchestrator's properties is inductive: a suspend that
finishes late, or a claim, could hit a worker somebody else has. `Claims` says that
whoever names a registered worker (a RUNNING record, a resume, a suspend at its
checkpoint) has it claimed; `Apart`, that no two of them name the same one, since only
an idle or a new worker, which nobody names, is ever claimed; `Present`, that only a
sweep unregisters a worker in use (`stolen`). `Fresh` and `Versions` are about the
compare-and-swap: the versions of an actor whose id is not reused only grow, so what a
suspend or a resume read earlier is either still the record or stale. `Accounted` is
`ClaimIsAccounted` without the SUSPENDING and PAUSING records, whose worker a late
write over a reused id may take; in that form it is inductive. `RoutedToOwnWorker` has
two parts for the same reason: `BoundAboard`, for every id, ties a binding to the
worker, which stays claimed for the actor until the step that unbinds or a sweep;
`BoundOnDuty`, where ids are not reused, ties it to the record as well. Two results
are about what the code leaves to its callers. `ReleaseNeverConflicts`: the store
could answer `release_worker` after a checkpoint with a `VersionConflict`, which
neither `suspend_actor` nor `pause_actor` catches, and it never does; a sweep may have
removed the record, which is handled. `LateWritesOverwriteNothing`: where ids are not
reused, the last compare-and-swap of a resume, suspend or pause is accepted only over
the state its own first one wrote. The lemmas `FinalizeMoves`, `FlipMoves`,
`ClaimBoards`, `SuspendDrains`, `CheckpointReturns` and `CheckpointRetires` say once,
record by record, what a step makes of both stores, so that the steps of the invariant
need neither the record types nor the form of the update.

**Flights.** That a key has one execution follows from the table: a task that is not
over is listed under its key (`ActiveIsListed`), and what is listed has its one leader
still inside `run` (`ListedByLeader`), who removes it when it leaves. `Counted` keeps
`joiner_count` equal to the joiners, and `CancelledByCaller` names the cancelled caller
behind a cancelled task, which is what the contract asks of a cancellation. The
refinement is then proved action by action: each is one step of `FlightContract` or,
as the removal of a flight already left, a stutter.

**Requests and processes.** The way from the client to the agent is first come, first
served: executor, backlog, the connection being served. A client asks anew only after
its last request was answered or given up, so what was given up and may still be
carried out is ahead of the newer request on every stretch (`Ahead`), and has left that
way once the newer one is answered (`Overtook`). For processes, `Orphaned` says that a
process the workspace would forget when it spawns another is one a cancellation left,
and `OwnsPath`, that from its call to `PUT /vsock` on a provision is the one whose
socket file is at the path. The lemmas `EndOfRequest`, `EndOfJob` and `EndOfConnection`
say once what the end of a request, of a thread's job and of a connection make of each
exchange.

**Snapshots.** The parts of the invariant follow the properties. `Kept`: an object of a
known reference leaves a tier without eviction only by a delete (`KeptObjects`); the
tiers a put has finished have it (`KeptWrites`); a get that passed such a tier without
finding it looks for a condemned reference (`KeptSearch`). `Gone`: a delete under way
has emptied the tiers it has gone through, and `NoneStays` shows that only a promotion
or a crash puts a condemned object back. `Accounted`: what is stored is tracked, is
about to be by the call whose write was carried out (`Tracks`), or is one of the named
exceptions; what makes it inductive is that at a tier that does not suspend an eviction
holds the loop from its call to its `discard` (`Evicts`, with `OneHolds`), so nothing
is put back in between. `References` and `Shapes` (what each kind of call has in its
variables, that one task at a time holds the loop, that two puts have different
references) carry the rest. The lemmas named `...Moves` say once what a step
makes of the records and the objects, and there is one lemma per part of the invariant.

Three of the theorems (`ReleaseNeverConflicts`, `LateWritesOverwriteNothing`,
`BuildOverwritesNothing`) state properties defined in the proof modules, parts of an
inductive invariant that say something of the code by themselves; no run lists them.

Only liveness stays model-checked: `ClosedPoolEmpties`, `FlightEnds` and `GetEnds`
under `FairSpec`. Fairness and `ENABLED` are out of the prover's reach.

## 5. Where the code and its documents disagree

Each of these is a run whose counterexample TLC finds; the quotes are in
`PROJECT.json`.

* `aclose` wakes the blocked callers, but they wait for a free sandbox, find none
  and sleep until their own time-out (`AcloseWakesWaiters`).
* The warm-idle sweeper retires a worker that was claimed while the sweeper was
  suspended, and the RUNNING actor loses its worker (`RunningIsLive`).
* A binding outlives RUNNING (`BoundOnlyWhileActive`): `router.py:28-30` says that it
  exists only while its actor is RUNNING or RESUMING, but `suspend_actor` and
  `pause_actor` unbind after the checkpoint, so `resolve` answers for a SUSPENDING or
  PAUSING actor all through it. If the checkpoint raises or is cancelled nothing
  unbinds; the binding stays until `mark_crashed` or `delete_actor`. What holds instead,
  and is proved, is that a binding leads to a worker claimed for its actor, a sweep's
  theft apart (`RoutedToOwnWorker`).
* The first caller of a flight awaits the leader task unshielded, so its
  cancellation cancels the work of every joiner (`BystandersUnharmed`).

Others met while modelling, without a run of their own:

* `_pool.py:368-369` says a caller waits "at capacity". Capacity freed by a failed
  provision, a broken release, a failed probe or an eviction wakes no waiter, who
  sleeps although the pool has room.
* The same `router.py:28-30` over a reused id: `delete_actor` accepts SUSPENDING and
  PAUSING actors (`orchestrator.py:174`); the suspend that outlives its actor writes its
  last record over a new incarnation, whose binding then stays with a SUSPENDED actor.
  `RoutedToOwnWorker` claims agreement with the record for the other ids only.
* The package's `_base.py:131-133` says that a crash in a snapshot never corrupts an
  existing tag. Replacing one removes the old directory first; a crash in that
  removal leaves a part of the old tree under the tag (`"torn"` in `VFSSnapshot`).
* `_firecracker/_manager.py`, `close`: "When the pool is enabled and the sandbox is
  still alive it is returned to the pool". A workspace built directly after the
  pool's time-out is not the pool's: `release` ignores it (`_pool.py:440-443`), and it
  runs on with no owner (`CloseReleases` of `WorkspaceManager`). Two concurrent gets of
  one id leave the first lease without an owner (`Stored`). The manager's sweeper
  closes pooled workspaces behind the pool's back, which counts them as in use for
  good.
* `TieredSnapshotStore.delete` says "Delete from all tiers" (`tiered_store.py:201`); a
  `get` that read the object before puts it back (`excused` in `TieredStore`).
  `max_size_bytes` and `SIZE_BASED` are never consulted; after a restart nothing is
  tracked, so nothing is evicted or promoted; trees are stored in the first tier only,
  untracked; in a Postgres tier that evicts, an object can be stored and never be
  evicted: the sweep's `delete` is carried out, a `get` finds the object below and
  promotes it back, and then the sweep drops the reference the promotion had tracked
  (`_evict_tier` reads and writes `_tier_refs` on both sides of an `await`; TLC finds
  it when `StoredIsTracked` is stated without its premise); an eviction that raises
  ends the sweep for the tiers that follow; a local `put` writes in place, so a crash
  leaves a torn archive that hides the whole one below it.
* `put_tree` of the Postgres and MinIO stores hands a `BytesIO` to a `put` that tests
  `isinstance(data, BinaryIO)` (`postgres_store.py:78`, `minio_store.py:95`), which is
  false for it: it always raises `TypeError`.
* `FirecrackerBackend.exec_shell` says that an unreachable agent gives exit code 127
  "rather than an exception" (`_backend.py:348-352`). With no listener, a dead agent
  or a full backlog the bridge hangs up, and `EOFError` passes through. It also says
  that without a time-out it waits indefinitely; the client's 30 s apply, and the
  result is 127.
* `request_timeout` "covers connect + request round trip" (`_backend.py:58-59`); the
  `sendall` between the two has none, and a bulk write behind a command that never
  ends hangs for ever. A receive that timed out keeps an executor thread until the
  agent answers.
* The agent, which is started once, ends on a broken pipe or an oversized frame
  (`_guest_agent.py:198`, `71`); the VM stays up and unreachable.
* A cancelled provision leaves its firecracker process. The next provision fails at
  `PUT /vsock` because of the socket file, its teardown removes the file, and the one
  after boots a second VM on the same root file system (`cut` in `MicroVM`).
* After a teardown `_process` is `None`, so the two error messages that quote its
  output (`_workspace.py:352`, `404`) raise `AttributeError` in place of the intended
  `RuntimeError`.
* `lifecycle.py:87-89` says that a workflow can be re-run "without
  double-provisioning". Its progress lives in a context that every resume makes
  anew: after a restore that failed, the worker stays claimed (`leaked` in
  `Orchestrator`) and the next resume claims a second one.
* `docs/SNAPSHOT.md:110-112` says that a crash during a restore never leaves the
  working directory empty. Between its two renames there is none, and the restart
  makes an empty one (`"stranded"` in `VFSSnapshot`); the tree is then in `.aside`,
  and the next restore removes it.
* `singleflight.py:9-10` and `128-130` say that a joiner inherits the remaining
  budget of the flight. It uses its own (line 206); `budget_deadline` is never read.
* Snapshot tags that look like a temporary directory of another tag (`t.tmp.x`) are
  removed by the next snapshot of that tag (`Nested` in `VFSSnapshot`).

## 6. Plan

1. Done: `SandboxPool`, `Orchestrator`, `Singleflight` with its contract, `VFSSnapshot`
   with both directions of the checkpoint bridge, `WorkspaceManager`, `TieredStore` over
   its backends, `MicroVM` over `GuestAgent`; the safety properties of all of them, and
   the refinement, are proved.
2. Left: `WorkspaceManager` sees the pool as an interface of its own; stating that
   interface as an abstract specification that `SandboxPool` implements, with the
   refinement proved, would join the two. The step properties of `VFSSnapshot`
   (`RestoreExact`) suggest the same for `TieredStore`: that a completed `get` returns
   what its `put` wrote.

## 7. Not modelled

Docker-runtime workspaces (one docker command per operation), archive extraction, the
layout of files, rows and objects in the snapshot stores and their `list`; the
Firecracker API calls that nothing in the package makes (pause, resume, describe,
network interfaces) and the bootstrap of the gateway; metrics and logging; the
selection of labels and nodes beyond "matches or does not"; several templates; a
remote actor or worker store.
