------------------------------- MODULE MicroVM -------------------------------
(***************************************************************************)
(* FirecrackerWorkspace (_firecracker/_workspace.py) with the process      *)
(* helpers and the REST client of _firecracker/_api.py: a firecracker      *)
(* process is spawned, set up by six calls, booted and reaped, over the    *)
(* requests of GuestAgent.  The workspace's own pings while it waits for   *)
(* the agent are requests like any other.                                  *)
(***************************************************************************)
EXTENDS GuestAgent

CONSTANTS
    Procs,   \* identities of firecracker processes, reused
    NoProc,
    Pinger   \* the workspace's own client, one of Clients

ASSUME MicroVMAssumption == NoProc \notin Procs /\ Pinger \in Clients

VARIABLES
    proc,    \* "none", "up" (running), "booted" (with its VM)
    path,    \* the process that made the socket file at the vsock path
    handle,  \* _process
    api,     \* whether _api is set
    bound,   \* whether _backend is set
    stage,   \* where _provision_backend ("verify", "socket", "setup", "agent")
             \* or _teardown_backend ("shutdown", "reap") is, or "idle"
    puts,    \* API calls made
    cut      \* history: processes alive when a cancellation ended the task

vmVars == <<proc, path, handle, api, bound, stage, puts, cut>>
vars == <<guestVars, vmVars>>

Calls == <<"logger", "boot-source", "machine-config", "drive", "vsock", "start">>

Init ==
    /\ GuestInit
    /\ proc = [p \in Procs |-> "none"] /\ path = NoProc
    /\ handle = NoProc /\ api = FALSE /\ bound = FALSE
    /\ stage = "idle" /\ puts = 0 /\ cut = {}

Live == {p \in Procs : proc[p] # "none"}

(* Nothing answers on the vsock path any more: connections to it are broken. *)
BridgeGone ==
    /\ guest' = "off" /\ Becomes(ex, <<>>, NoEx) /\ queue' = queue
BridgeStays == UNCHANGED guestVars
BridgeLostWith(p) == IF path = p THEN BridgeGone ELSE BridgeStays

-----------------------------------------------------------------------------
(* _provision_backend.  A definition X_Y is X with one fault Y; no           *)
(* specification uses it.                                                   *)

(* The workspace is not alive: never provisioned, closed, or a provision     *)
(* that failed or was cancelled is tried again.                             *)
ProvisionBegins ==
    /\ stage = "idle" /\ ~bound
    /\ stage' = "verify"
    /\ UNCHANGED <<guestVars, proc, path, handle, api, bound, puts, cut>>

RuntimeMissing ==
    /\ stage = "verify" /\ stage' = "idle"
    /\ UNCHANGED <<guestVars, proc, path, handle, api, bound, puts, cut>>

Spawned ==
    /\ stage = "verify" /\ stage' = "socket"
    /\ \E p \in Procs :
          /\ proc[p] = "none" /\ p # path /\ p # handle
          /\ proc' = [proc EXCEPT ![p] = "up"] /\ handle' = p
    /\ UNCHANGED <<guestVars, path, api, bound, puts, cut>>

SocketReady ==
    /\ stage = "socket" /\ handle \in Live
    /\ stage' = "setup" /\ api' = TRUE /\ puts' = 0
    /\ UNCHANGED <<guestVars, proc, path, handle, bound, cut>>

(* What a call makes firecracker do.  It cannot make the vsock socket where  *)
(* there is a file already.                                                 *)
Accepted(call) == handle \in Live /\ (call = "vsock" => path = NoProc)
Effect(call) ==
    /\ path' = IF call = "vsock" THEN handle ELSE path
    /\ proc' = IF call = "start" THEN [proc EXCEPT ![handle] = "booted"] ELSE proc
    /\ IF call = "vsock" THEN guest' = "silent" /\ UNCHANGED <<ex, queue, backlog, served>>
       ELSE BridgeStays

SetUp_AnyAnswer ==
    /\ stage = "setup"
    /\ IF Accepted(Calls[puts + 1]) THEN Effect(Calls[puts + 1])
       ELSE UNCHANGED <<guestVars, proc, path>>
    /\ puts' = IF puts = 5 THEN 0 ELSE puts + 1
    /\ stage' = IF puts = 5 THEN "agent" ELSE "setup"
    /\ UNCHANGED <<handle, api, bound, cut>>
SetUp ==
    /\ stage = "setup" /\ Accepted(Calls[puts + 1])
    /\ Effect(Calls[puts + 1])
    /\ puts' = IF puts = 5 THEN 0 ELSE puts + 1
    /\ stage' = IF puts = 5 THEN "agent" ELSE "setup"
    /\ UNCHANGED <<handle, api, bound, cut>>

(* Refused, or the answer did not come in time: the call may have had its    *)
(* effect.                                                                  *)
SetUpFails_Kept ==
    /\ stage = "setup"
    /\ \/ Accepted(Calls[puts + 1]) /\ Effect(Calls[puts + 1])
       \/ UNCHANGED <<guestVars, proc, path>>
    /\ stage' = "idle" /\ puts' = 0 /\ handle' = NoProc /\ api' = FALSE
    /\ UNCHANGED <<bound, cut>>
SetUpFails ==
    /\ stage = "setup"
    /\ \/ Accepted(Calls[puts + 1]) /\ Effect(Calls[puts + 1])
       \/ UNCHANGED <<guestVars, proc, path>>
    /\ stage' = "shutdown" /\ puts' = 0
    /\ UNCHANGED <<handle, api, bound, cut>>

Pings ==
    /\ stage = "agent" /\ Ask(Pinger, "quick")
    /\ UNCHANGED vmVars

AgentReachable(e) ==
    /\ stage = "agent" /\ ex[e].of = Pinger /\ Answered(e)
    /\ stage' = "idle" /\ bound' = TRUE
    /\ UNCHANGED <<proc, path, handle, api, puts, cut>>

(* Neither the API socket nor the agent came in time.                        *)
WaitedTooLong ==
    /\ stage = "socket" \/ (stage = "agent" /\ ~Asking(Pinger))
    /\ stage' = IF api THEN "shutdown" ELSE "reap"
    /\ UNCHANGED <<guestVars, proc, path, handle, api, bound, puts, cut>>

(* No handler catches the cancellation, of a provision or of a teardown.     *)
TaskCancelled ==
    /\ stage # "idle" /\ stage' = "idle" /\ puts' = 0
    /\ IF Asking(Pinger)
       THEN \E e \in Exchanges : ex[e].of = Pinger /\ RequestCancelled(e)
       ELSE BridgeStays
    /\ cut' = cut \cup (Live \cap {handle})
    /\ UNCHANGED <<proc, path, handle, api, bound>>

-----------------------------------------------------------------------------
(* _teardown_backend, from close() or a provision that failed               *)

CloseBegins ==
    /\ stage = "idle" /\ handle # NoProc
    /\ stage' = IF api THEN "shutdown" ELSE "reap"
    /\ UNCHANGED <<guestVars, proc, path, handle, api, bound, puts, cut>>

ShutdownSent ==
    /\ stage = "shutdown" /\ stage' = "reap"
    /\ UNCHANGED <<guestVars, proc, path, handle, api, bound, puts, cut>>

(* The process is gone, by itself or killed; the socket files are removed,   *)
(* whoever made them.                                                       *)
Reaped ==
    /\ stage = "reap" /\ stage' = "idle"
    /\ proc' = [proc EXCEPT ![handle] = "none"]
    /\ path' = NoProc /\ BridgeGone
    /\ handle' = NoProc /\ api' = FALSE /\ bound' = FALSE
    /\ cut' = cut \ {handle} /\ puts' = puts

-----------------------------------------------------------------------------
(* The guest and its process                                                *)

AgentStarts ==
    /\ guest = "silent" /\ path \in Live /\ proc[path] = "booted"
    /\ guest' = "listening"
    /\ UNCHANGED <<ex, queue, backlog, served, vmVars>>

ProcessDies(p) ==
    /\ p \in Live
    /\ proc' = [proc EXCEPT ![p] = "none"] /\ cut' = cut \ {p}
    /\ BridgeLostWith(p)
    /\ UNCHANGED <<path, handle, api, bound, stage, puts>>

(* The gateway's calls go through the bound backend.                         *)
User(c) ==
    \/ \E k \in Kinds : bound /\ Ask(c, k)
    \/ \E e \in Exchanges : ex[e].of = c /\ (Answered(e) \/ RequestCancelled(e))

Provision ==
    \/ ProvisionBegins \/ RuntimeMissing \/ Spawned \/ SocketReady \/ SetUp \/ SetUpFails
    \/ Pings \/ \E e \in Exchanges : AgentReachable(e)
    \/ WaitedTooLong \/ TaskCancelled

Next ==
    \/ Provision
    \/ CloseBegins \/ ShutdownSent \/ Reaped
    \/ AgentStarts \/ \E p \in Procs : ProcessDies(p)
    \/ (\E c \in Clients \ {Pinger} : User(c)) /\ UNCHANGED vmVars
    \/ Traffic /\ UNCHANGED vmVars

Spec == Init /\ [][Next]_vars

-----------------------------------------------------------------------------
(* Every firecracker process that runs is the one the workspace will reap,    *)
(* but for those whose provision or teardown was cancelled.                  *)
NoStrayVM == Live \subseteq {handle} \cup cut

(* A workspace that is bound and not being torn down talks to the VM of its   *)
(* own process, also after earlier provisions left a VM at the same path.    *)
BoundToOwnVM ==
    bound /\ stage = "idle" /\ handle \in Live => path = handle
=============================================================================
