----------------------------- MODULE GuestAgent -----------------------------
(***************************************************************************)
(* Requests to the agent inside a microVM: GuestAgentClient and            *)
(* vsock_connect (_firecracker/_backend.py) on the host, and the agent     *)
(* (_firecracker/_guest_agent.py), which serves one connection at a time.  *)
(*                                                                         *)
(* A request opens a connection of its own and goes through three blocking *)
(* jobs of asyncio's default executor: connect, send, receive.  A time-out *)
(* or a cancellation ends the request; a thread that is inside a job stays *)
(* there, and keeps the connection open, until the job is over.            *)
(***************************************************************************)
EXTENDS Naturals, Sequences, FiniteSets, SequencesExt

CONSTANTS
    Clients,    \* tasks that make requests, one at a time each
    Exchanges,  \* identities of a request with its connection; reused
    NoEx,
    Kinds,      \* what is asked; a subset of AllKinds
    Threads,    \* size of the executor
    Backlog     \* connections the guest's kernel queues

(* "quick" fits the buffers on the way; the agent has to read a "bulk"        *)
(* request, and the host its answer, while the other end sends; the frame of *)
(* a "hugeAsk" or the answer to a "hugeAnswer" is over the limit.            *)
AllKinds == {"quick", "bulk", "hugeAsk", "hugeAnswer"}

ASSUME GuestAssumption ==
    /\ NoEx \notin Exchanges /\ Kinds \subseteq AllKinds
    /\ Threads \in Nat \ {0} /\ Backlog \in Nat \ {0}

VARIABLES
    ex,       \* the exchanges
    queue,    \* jobs the executor has not begun, oldest first
    guest,    \* what is behind the vsock path: nothing ("off"), a guest without
              \* its agent ("silent", "dead"), or the agent ("listening")
    backlog,  \* connections the agent has not accepted
    served    \* the connection the agent is on

guestVars == <<ex, queue, guest, backlog, served>>

Free == [of |-> NoEx, waits |-> FALSE, kind |-> "quick", job |-> "none", thread |-> "done",
         result |-> "none", open |-> FALSE, asked |-> FALSE, answer |-> "none", late |-> FALSE]

GuestInit ==
    /\ ex = [e \in Exchanges |-> Free] /\ queue = <<>>
    /\ guest = "off" /\ backlog = <<>> /\ served = NoEx

(* The exchanges become f; one nobody knows any more may be used again.      *)
Becomes(f, b, s) ==
    /\ ex' = [e \in Exchanges |->
                IF ~f[e].waits /\ f[e].thread # "runs" /\ e # s /\ e \notin ToSet(b)
                THEN Free ELSE f[e]]
    /\ backlog' = b /\ served' = s

Linked(e) == e = served \/ e \in ToSet(backlog)
Asking(c) == \E e \in Exchanges : ex[e].of = c /\ ex[e].waits
Running == {e \in Exchanges : ex[e].thread = "runs"}
Runs(e, job) == ex[e].job = job /\ ex[e].thread = "runs"

(* The job is over; the connection of a request nobody waits for goes with it. *)
Finished(e, result) ==
    [ex EXCEPT ![e].thread = "done", ![e].result = result,
               ![e].open = ex[e].waits /\ (@ \/ (ex[e].job = "connect" /\ result = "ok"))]

-----------------------------------------------------------------------------
(* The client                                                               *)

Ask(c, k) ==
    /\ ~Asking(c)
    /\ \E e \in {x \in Exchanges : ex[x] = Free} :
          /\ ex' = [ex EXCEPT ![e] = [Free EXCEPT !.of = c, !.waits = TRUE, !.kind = k,
                                                  !.job = "connect", !.thread = "queued"]]
          /\ queue' = Append(queue, e)
    /\ UNCHANGED <<guest, backlog, served>>

(* The next job of the request is handed to the executor.                    *)
GoesOn(e) ==
    /\ ex[e].waits /\ ex[e].thread = "done" /\ ex[e].result = "ok"
    /\ ex[e].job \in {"connect", "send"}
    /\ ex' = [ex EXCEPT ![e].job = IF @ = "connect" THEN "send" ELSE "receive",
                        ![e].thread = "queued", ![e].result = "none"]
    /\ queue' = Append(queue, e)
    /\ UNCHANGED <<guest, backlog, served>>

(* The request is over: a job not begun is dropped, and the socket is closed *)
(* unless a thread is inside a call on it.                                   *)
Left(f, e) ==
    [f EXCEPT ![e].waits = FALSE,
              ![e].thread = IF @ = "runs" THEN "runs" ELSE "done",
              ![e].open = @ /\ f[e].thread = "runs"]
Leaves(f, e) ==
    /\ queue' = IF e \in ToSet(queue)
                THEN RemoveAt(queue, CHOOSE i \in DOMAIN queue : queue[i] = e)
                ELSE queue
    /\ Becomes(Left(f, e), backlog, served) /\ guest' = guest

(* The answer has come; what the client asked before and gave up is late.    *)
Overtaken(e) ==
    [x \in Exchanges |->
        IF ex[x].of = ex[e].of /\ ~ex[x].waits /\ ex[x].answer = "none"
        THEN [ex[x] EXCEPT !.late = TRUE] ELSE ex[x]]

Answered(e) ==
    /\ ex[e].waits /\ ex[e].job = "receive" /\ ex[e].thread = "done" /\ ex[e].result = "ok"
    /\ Leaves(Overtaken(e), e)

(* An OSError or a time-out, which exec_shell turns into exit code 127, or   *)
(* an EOFError or ValueError, which passes through.                          *)
Fails(e) ==
    /\ ex[e].waits /\ ex[e].thread = "done" /\ ex[e].result \in {"oserror", "eof", "error"}
    /\ Leaves(ex, e)

(* connect and receive have a time-out, send has none.                       *)
TimesOut(e) ==
    /\ ex[e].waits /\ ex[e].job \in {"connect", "receive"} /\ ex[e].thread # "done"
    /\ Leaves(ex, e)

RequestCancelled(e) == ex[e].waits /\ Leaves(ex, e)

-----------------------------------------------------------------------------
(* The executor and the kernels                                             *)

Takes ==
    /\ queue # <<>> /\ Cardinality(Running) < Threads
    /\ ex' = [ex EXCEPT ![Head(queue)].thread = "runs"]
    /\ queue' = Tail(queue)
    /\ UNCHANGED <<guest, backlog, served>>

Connects(e) ==
    /\ Runs(e, "connect") /\ guest = "listening" /\ Len(backlog) < Backlog
    /\ Becomes(Finished(e, "ok"), Append(backlog, e), served)
    /\ UNCHANGED <<queue, guest>>

(* Nothing at the path, or no answer in time; or the bridge hangs up, since  *)
(* nobody listens in the guest or the backlog is full.                       *)
ConnectFails(e) ==
    /\ Runs(e, "connect")
    /\ \E r \in {"oserror"} \cup
                (IF guest = "off" \/ (guest = "listening" /\ Len(backlog) < Backlog)
                 THEN {} ELSE {"eof"}) :
          Becomes(Finished(e, r), backlog, served)
    /\ UNCHANGED <<queue, guest>>

Sends(e) ==
    /\ Runs(e, "send") /\ Linked(e)
    /\ \/ ex[e].kind \in {"quick", "hugeAnswer"}
       \/ ex[e].kind = "bulk" /\ served = e
    /\ Becomes([Finished(e, "ok") EXCEPT ![e].asked = TRUE], backlog, served)
    /\ UNCHANGED <<queue, guest>>

SendFails(e) ==
    /\ Runs(e, "send") /\ ~Linked(e)
    /\ Becomes(Finished(e, "oserror"), backlog, served)
    /\ UNCHANGED <<queue, guest>>

(* A client that still waits reads all of the answer.                        *)
Receives(e) ==
    /\ Runs(e, "receive")
    /\ \/ ex[e].answer = "sent"
       \/ ex[e].answer = "sending" /\ Linked(e) /\ ex[e].kind # "hugeAnswer"
    /\ LET f == Finished(e, "ok")
       IN  Becomes(IF ex[e].waits THEN [f EXCEPT ![e].answer = "sent"] ELSE f, backlog, served)
    /\ UNCHANGED <<queue, guest>>

ReceiveFails(e) ==
    /\ Runs(e, "receive")
    /\ \/ /\ ~Linked(e) /\ ex[e].answer # "sent"
          /\ Becomes(Finished(e, "eof"), backlog, served)
       \/ /\ Linked(e) /\ ex[e].answer = "sending" /\ ex[e].kind = "hugeAnswer"
          /\ Becomes(Finished(e, "error"), backlog, served)
    /\ UNCHANGED <<queue, guest>>

-----------------------------------------------------------------------------
(* The agent.  A definition X_Y is X with one fault Y; no specification uses *)
(* it.                                                                      *)

Accepts_Newest ==
    /\ guest = "listening" /\ served = NoEx /\ backlog # <<>>
    /\ served' = Last(backlog) /\ backlog' = Front(backlog)
    /\ UNCHANGED <<ex, queue, guest>>
Accepts ==
    /\ guest = "listening" /\ served = NoEx /\ backlog # <<>>
    /\ served' = Head(backlog) /\ backlog' = Tail(backlog)
    /\ UNCHANGED <<ex, queue, guest>>

(* The command or file operation is carried out.                             *)
Handles(e) ==
    /\ served = e /\ ex[e].asked /\ ex[e].answer = "none"
    /\ ex' = [ex EXCEPT ![e].answer = "ready"]
    /\ UNCHANGED <<queue, guest, backlog, served>>

Replies(e) ==
    /\ served = e /\ ex[e].answer = "ready" /\ ex[e].open
    /\ ex' = [ex EXCEPT ![e].answer = IF ex[e].kind = "quick" THEN "sent" ELSE "sending"]
    /\ UNCHANGED <<queue, guest, backlog, served>>

(* The host closed the connection between two frames, or inside one.         *)
HangsUp(e) ==
    /\ served = e /\ ~ex[e].open
    /\ ~ex[e].asked \/ ex[e].answer = "sent"
    /\ Becomes(ex, backlog, NoEx)
    /\ UNCHANGED <<queue, guest>>

(* An exception _serve_connection does not handle ends main(): the host      *)
(* closed before the answer was through, or a frame is over the limit.       *)
AgentDies(e) ==
    /\ served = e
    /\ \/ ~ex[e].open /\ ex[e].answer \in {"ready", "sending"}
       \/ Runs(e, "send") /\ ex[e].kind = "hugeAsk"
    /\ guest' = "dead" /\ Becomes(ex, <<>>, NoEx)
    /\ UNCHANGED queue

-----------------------------------------------------------------------------
Exchange(e) ==
    \/ GoesOn(e) \/ Fails(e) \/ TimesOut(e)
    \/ Connects(e) \/ ConnectFails(e) \/ Sends(e) \/ SendFails(e)
    \/ Receives(e) \/ ReceiveFails(e)
    \/ Handles(e) \/ Replies(e) \/ HangsUp(e) \/ AgentDies(e)

Traffic == Takes \/ Accepts \/ \E e \in Exchanges : Exchange(e)

(* What the agent carries out was not overtaken: no command or file operation *)
(* a client gave up takes effect after the answer to one it asked later.      *)
NoLateCommand == \A e \in Exchanges : ex[e].late => ex[e].answer = "none"
=============================================================================
