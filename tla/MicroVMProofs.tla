----------------------------- MODULE MicroVMProofs -----------------------------
(* Proofs about MicroVM and GuestAgent, for any clients, exchanges, threads,  *)
(* backlog and processes.                                                   *)
EXTENDS MicroVM, TLAPS

(***************************************************************************)
(* The inductive invariant of the requests.                                *)
(***************************************************************************)

ExRecord ==
    [of : Clients \cup {NoEx}, waits : BOOLEAN, kind : AllKinds,
     job : {"none", "connect", "send", "receive"}, thread : {"queued", "runs", "done"},
     result : {"none", "ok", "oserror", "eof", "error"}, open : BOOLEAN, asked : BOOLEAN,
     answer : {"none", "ready", "sending", "sent"}, late : BOOLEAN]

GuestTypes ==
    /\ ex \in [Exchanges -> ExRecord]
    /\ queue \in Seq(Exchanges) /\ backlog \in Seq(Exchanges)
    /\ served \in Exchanges \cup {NoEx}

(* A request that is over will not be sent: only one whose send has begun may *)
(* still be carried out.                                                    *)
MayAct(e) == ex[e].answer = "none" /\ (ex[e].asked \/ Runs(e, "send"))

Jobs ==
    /\ \A i \in DOMAIN queue : ex[queue[i]].waits /\ ex[queue[i]].thread = "queued"
    /\ \A i, j \in DOMAIN queue : queue[i] = queue[j] => i = j
    /\ \A e \in Exchanges :
          /\ ex[e].job = "none" => ~Linked(e) /\ ~ex[e].asked
          /\ ex[e].job = "connect" => ~ex[e].asked
          /\ ex[e].job = "receive" /\ ex[e].result = "ok" => ex[e].answer # "none"
    /\ \A d, e \in Exchanges :
          ex[d].waits /\ ex[e].waits /\ ex[d].of = ex[e].of => d = e

(* What a client gave up and may still be carried out is ahead of what it     *)
(* asked later, on every stretch of the way to the agent.                    *)
Ahead ==
    \A d, e \in Exchanges :
        ~ex[d].waits /\ ex[e].waits /\ ex[d].of = ex[e].of /\ MayAct(d) =>
            /\ \A i, j \in DOMAIN backlog : backlog[i] = d /\ backlog[j] = e => i < j
            /\ served = e \/ ex[e].answer # "none" => ~Linked(d)

(* What was overtaken has left that way.                                     *)
Overtook ==
    \A e \in Exchanges : ex[e].late =>
        /\ ~ex[e].waits /\ ex[e].answer = "none"
        /\ MayAct(e) => ~Linked(e)

GuestInv == GuestTypes /\ Jobs /\ Ahead /\ Overtook

(***************************************************************************)
(* What the helpers make of the exchanges.                                 *)
(***************************************************************************)

LEMMA FreeType == Free \in ExRecord
BY DEF Free, ExRecord, AllKinds

LEMMA FinishedType ==
    ASSUME NEW e \in Exchanges, NEW r \in {"ok", "oserror", "eof", "error"},
           ex \in [Exchanges -> ExRecord]
    PROVE  Finished(e, r) \in [Exchanges -> ExRecord]
<1>1. \A c \in ExRecord, o \in BOOLEAN :
         [c EXCEPT !.thread = "done", !.result = r, !.open = o] \in ExRecord
  BY DEF ExRecord
<1> DEFINE o == ex[e].waits /\ (ex[e].open \/ (ex[e].job = "connect" /\ r = "ok"))
           c == [ex[e] EXCEPT !.thread = "done", !.result = r, !.open = o]
<1>2. o \in BOOLEAN
  OBVIOUS
<1>3. Finished(e, r) = [ex EXCEPT ![e] = c]
  BY DEF Finished
<1> HIDE DEF o
<1>4. c \in ExRecord
  BY <1>1, <1>2
<1> HIDE DEF c
<1> QED
  BY <1>3, <1>4

LEMMA LeftType ==
    ASSUME NEW e \in Exchanges, NEW f \in [Exchanges -> ExRecord]
    PROVE  Left(f, e) \in [Exchanges -> ExRecord]
<1>1. \A c \in ExRecord, t \in {"runs", "done"}, o \in BOOLEAN :
         [c EXCEPT !.waits = FALSE, !.thread = t, !.open = o] \in ExRecord
  BY DEF ExRecord
<1> DEFINE o == f[e].open /\ f[e].thread = "runs"
           t == IF f[e].thread = "runs" THEN "runs" ELSE "done"
           c == [f[e] EXCEPT !.waits = FALSE, !.thread = t, !.open = o]
<1>2. o \in BOOLEAN /\ t \in {"runs", "done"}
  OBVIOUS
<1>3. Left(f, e) = [f EXCEPT ![e] = c]
  BY DEF Left
<1> HIDE DEF o, t
<1>4. c \in ExRecord
  BY <1>1, <1>2
<1> HIDE DEF c
<1> QED
  BY <1>3, <1>4

LEMMA OvertakenType ==
    ASSUME NEW e \in Exchanges, ex \in [Exchanges -> ExRecord]
    PROVE  Overtaken(e) \in [Exchanges -> ExRecord]
<1>1. \A c \in ExRecord : [c EXCEPT !.late = TRUE] \in ExRecord
  BY DEF ExRecord
<1>2. \A x \in Exchanges : Overtaken(e)[x] \in ExRecord
  BY <1>1 DEF Overtaken
<1> QED
  BY <1>2 DEF Overtaken

LEMMA FieldTypes ==
    ASSUME NEW e \in Exchanges, NEW f \in [Exchanges -> ExRecord]
    PROVE  /\ [f EXCEPT ![e].asked = TRUE] \in [Exchanges -> ExRecord]
           /\ [f EXCEPT ![e].thread = "runs"] \in [Exchanges -> ExRecord]
           /\ \A a \in {"ready", "sending", "sent"} :
                 [f EXCEPT ![e].answer = a] \in [Exchanges -> ExRecord]
<1>1. \A c \in ExRecord : [c EXCEPT !.asked = TRUE] \in ExRecord
  BY DEF ExRecord
<1>2. \A c \in ExRecord : [c EXCEPT !.thread = "runs"] \in ExRecord
  BY DEF ExRecord
<1>3. \A c \in ExRecord, a \in {"ready", "sending", "sent"} :
         [c EXCEPT !.answer = a] \in ExRecord
  BY DEF ExRecord
<1> QED
  BY <1>1, <1>2, <1>3

LEMMA BecomesType ==
    ASSUME NEW f \in [Exchanges -> ExRecord], NEW b, NEW s, Becomes(f, b, s)
    PROVE  ex' \in [Exchanges -> ExRecord] /\ backlog' = b /\ served' = s
BY FreeType DEF Becomes

LEMMA RemoveAtIs ==
    ASSUME NEW S, NEW s \in Seq(S), NEW i \in DOMAIN s
    PROVE  /\ RemoveAt(s, i) \in Seq(S) /\ Len(RemoveAt(s, i)) = Len(s) - 1
           /\ \A j \in 1..(Len(s) - 1) :
                 RemoveAt(s, i)[j] = IF j < i THEN s[j] ELSE s[j + 1]
<1> DEFINE a == SubSeq(s, 1, i - 1)
           b == SubSeq(s, i + 1, Len(s))
<1>1. i \in 1..Len(s) /\ Len(s) \in Nat
  OBVIOUS
<1>2. /\ a \in Seq(S) /\ Len(a) = i - 1
      /\ \A j \in 1..(i - 1) : a[j] = s[j]
  BY <1>1
<1>3. /\ b \in Seq(S) /\ Len(b) = Len(s) - i
      /\ \A j \in 1..(Len(s) - i) : b[j] = s[j + i]
  BY <1>1
<1>4. RemoveAt(s, i) = a \o b
  BY DEF RemoveAt
<1> HIDE DEF a, b
<1>5. /\ a \o b \in Seq(S) /\ Len(a \o b) = Len(s) - 1
      /\ \A j \in 1..(Len(s) - 1) :
            (a \o b)[j] = IF j < i THEN s[j] ELSE s[j + 1]
  BY <1>1, <1>2, <1>3
<1> QED
  BY <1>4, <1>5

(* A request that is left has no job in the queue any more.                   *)
DropsJob(e) ==
    /\ \A i \in DOMAIN queue' : /\ queue'[i] # e
                              /\ \E j \in DOMAIN queue : queue'[i] = queue[j]
    /\ \A i, j \in DOMAIN queue' : queue'[i] = queue'[j] => i = j

LEMMA Dropped ==
    ASSUME NEW e \in Exchanges, NEW f, Leaves(f, e), queue \in Seq(Exchanges),
           \A i, j \in DOMAIN queue : queue[i] = queue[j] => i = j
    PROVE  queue' \in Seq(Exchanges) /\ DropsJob(e)
<1>1. CASE e \in ToSet(queue)
  <2>1. PICK m \in DOMAIN queue : queue[m] = e /\ queue' = RemoveAt(queue, m)
    <3>1. \E m \in DOMAIN queue : queue[m] = e
      BY <1>1 DEF ToSet
    <3> QED
      BY <1>1, <3>1 DEF Leaves
  <2>2. /\ queue' \in Seq(Exchanges) /\ Len(queue') = Len(queue) - 1
        /\ \A j \in 1..(Len(queue) - 1) :
              queue'[j] = IF j < m THEN queue[j] ELSE queue[j + 1]
    BY <2>1, RemoveAtIs
  <2>3. \A j \in DOMAIN queue' : \E n \in DOMAIN queue : n # m /\ queue'[j] = queue[n]
                                                     /\ n = IF j < m THEN j ELSE j + 1
    BY <2>2
  <2> QED
    BY <2>1, <2>2, <2>3 DEF DropsJob
<1>2. CASE e \notin ToSet(queue)
  BY <1>2 DEF Leaves, ToSet, DropsJob
<1> QED
  BY <1>1, <1>2

(***************************************************************************)
(* The steps that end a request, end a job or drop connections, seen from   *)
(* one exchange.                                                           *)
(***************************************************************************)

(* The end of a request takes it away; an answer marks what it overtook.      *)
EndMoves(e, d) ==
    \/ ex'[d] = Free /\ ~Linked(d) /\ (ex[d].waits => d = e)
    \/ /\ ex'[d].of = ex[d].of /\ ex'[d].job = ex[d].job /\ ex'[d].result = ex[d].result
       /\ ex'[d].asked = ex[d].asked /\ ex'[d].answer = ex[d].answer
       /\ ex'[d].waits => ex[d].waits /\ d # e
       /\ ex[d].waits /\ d # e => ex'[d].waits
       /\ d # e => ex'[d].thread = ex[d].thread
       /\ ex'[d].thread = "runs" => ex[d].thread = "runs"
       /\ ex'[d].late => ex[d].late \/ (ex[d].of = ex[e].of /\ ~ex[d].waits
                                        /\ ex[d].answer = "none" /\ ex[e].answer # "none")
Ends(e) ==
    /\ ex[e].waits /\ DropsJob(e) /\ backlog' = backlog /\ served' = served
    /\ \A d \in Exchanges : EndMoves(e, d)

LEMMA EndOfRequest ==
    ASSUME GuestTypes, Jobs, NEW e \in Exchanges,
           Answered(e) \/ RequestCancelled(e) \/ Fails(e) \/ TimesOut(e)
    PROVE  Ends(e)
<1>1. PICK f : /\ Leaves(f, e)
               /\ f = ex \/ (f = Overtaken(e) /\ ex[e].answer # "none")
  BY DEF Answered, RequestCancelled, Fails, TimesOut, Jobs
<1>2. ex[e].waits
  BY DEF Answered, RequestCancelled, Fails, TimesOut
<1>3. ex \in [Exchanges -> ExRecord] /\ f \in [Exchanges -> ExRecord]
  BY <1>1, OvertakenType DEF GuestTypes
<1>4. DropsJob(e)
  BY <1>1, Dropped DEF GuestTypes, Jobs
<1>5. Becomes(Left(f, e), backlog, served)
  BY <1>1 DEF Leaves
<1>6. ASSUME NEW d \in Exchanges
      PROVE  EndMoves(e, d)
  <2>1. ex'[d] = Left(f, e)[d] \/ (ex'[d] = Free /\ ~Linked(d) /\ ~Left(f, e)[d].waits)
    BY <1>5 DEF Becomes, Linked
  <2>2. f[d] = ex[d] \/ /\ f[d] = [ex[d] EXCEPT !.late = TRUE] /\ ~ex[d].waits
                        /\ ex[d].of = ex[e].of /\ ex[d].answer = "none"
                        /\ ex[e].answer # "none"
    BY <1>1 DEF Overtaken
  <2>3. d # e => Left(f, e)[d] = f[d]
    BY <1>3 DEF Left
  <2>4. f[e] = ex[e]
    BY <1>1, <1>2 DEF Overtaken
  <2>5. Left(f, e)[e] = [ex[e] EXCEPT !.waits = FALSE,
                            !.thread = IF @ = "runs" THEN "runs" ELSE "done",
                            !.open = @ /\ ex[e].thread = "runs"]
    BY <1>3, <2>4 DEF Left
  <2>6. ex[d] \in ExRecord /\ ex[e] \in ExRecord
    BY <1>3
  <2>7. CASE d = e /\ ex'[d] = Left(f, e)[d]
    BY <2>5, <2>6, <2>7 DEF ExRecord, EndMoves
  <2>8. CASE d # e /\ ex'[d] = Left(f, e)[d]
    BY <2>2, <2>3, <2>6, <2>8 DEF ExRecord, EndMoves
  <2>9. CASE ex'[d] = Free /\ ~Linked(d) /\ ~Left(f, e)[d].waits
    BY <2>2, <2>3, <2>6, <2>9 DEF ExRecord, EndMoves
  <2> QED
    BY <2>1, <2>7, <2>8, <2>9
<1> QED
  BY <1>2, <1>4, <1>5, <1>6 DEF Ends, Becomes

(* A thread that comes back from its job leaves the others alone; the         *)
(* exchange is forgotten if nobody waits for it and it is off the way.        *)
Forgotten(d) == ex'[d] = Free /\ ~ex[d].waits /\ ~Linked(d)'

DoneMoves(e, d) ==
    \/ Forgotten(d)
    \/ d # e /\ ex'[d] = ex[d]
    \/ /\ d = e /\ ex'[d].thread = "done"
       /\ ex'[d].of = ex[d].of /\ ex'[d].job = ex[d].job
       /\ ex'[d].waits = ex[d].waits /\ ex'[d].late = ex[d].late
       /\ ex'[d].asked = ex[d].asked \/ Runs(d, "send")
       /\ ex'[d].answer = ex[d].answer \/ (ex[d].answer # "none" /\ ex'[d].answer # "none")
       /\ ex[d].job = "receive" /\ ex'[d].result = "ok" => ex[d].answer # "none"
JobIsDone(e) ==
    /\ \E j \in {"connect", "send", "receive"} : Runs(e, j)
    /\ queue' = queue /\ served' = served
    /\ backlog' = backlog \/ (Runs(e, "connect") /\ backlog' = Append(backlog, e))
    /\ \A d \in Exchanges : DoneMoves(e, d)

LEMMA EndOfJob ==
    ASSUME GuestTypes, NEW e \in Exchanges,
           \/ Connects(e) \/ ConnectFails(e) \/ Sends(e) \/ SendFails(e)
           \/ Receives(e) \/ ReceiveFails(e)
    PROVE  JobIsDone(e)
<1> DEFINE Done(r) == [ex[e] EXCEPT !.thread = "done", !.result = r,
                         !.open = ex[e].waits /\ (@ \/ (ex[e].job = "connect" /\ r = "ok"))]
<1>1. ex \in [Exchanges -> ExRecord] /\ ex[e] \in ExRecord
  BY DEF GuestTypes
<1>2. \A r : Finished(e, r) = [ex EXCEPT ![e] = Done(r)]
  BY <1>1 DEF Finished
<1> HIDE DEF Done
<1>3. \A r : /\ Finished(e, r)[e] = Done(r)
             /\ \A d \in Exchanges \ {e} : Finished(e, r)[d] = ex[d]
  BY <1>1, <1>2
<1>4. \A r, x : /\ [Finished(e, r) EXCEPT ![e].asked = TRUE][e] = [Done(r) EXCEPT !.asked = TRUE]
                /\ [Finished(e, r) EXCEPT ![e].answer = x][e] = [Done(r) EXCEPT !.answer = x]
                /\ \A d \in Exchanges \ {e} :
                      /\ [Finished(e, r) EXCEPT ![e].asked = TRUE][d] = ex[d]
                      /\ [Finished(e, r) EXCEPT ![e].answer = x][d] = ex[d]
  BY <1>1, <1>2
<1>5. \A r, x : /\ Done(r).thread = "done" /\ Done(r).of = ex[e].of
                /\ Done(r).job = ex[e].job /\ Done(r).waits = ex[e].waits
                /\ Done(r).late = ex[e].late /\ Done(r).asked = ex[e].asked
                /\ Done(r).answer = ex[e].answer /\ Done(r).result = r
  BY <1>1 DEF ExRecord, Done
<1>6. \A r : LET y == [Done(r) EXCEPT !.asked = TRUE] IN
                /\ y.thread = "done" /\ y.of = ex[e].of /\ y.job = ex[e].job
                /\ y.waits = ex[e].waits /\ y.late = ex[e].late /\ y.asked
                /\ y.answer = ex[e].answer /\ y.result = r
  BY <1>1 DEF ExRecord, Done
<1>7. \A r, x : LET y == [Done(r) EXCEPT !.answer = x] IN
                /\ y.thread = "done" /\ y.of = ex[e].of /\ y.job = ex[e].job
                /\ y.waits = ex[e].waits /\ y.late = ex[e].late /\ y.asked = ex[e].asked
                /\ y.answer = x /\ y.result = r
  BY <1>1 DEF ExRecord, Done
<1> DEFINE Fits(f) ==
        /\ \A d \in Exchanges \ {e} : f[d] = ex[d]
        /\ f[e].thread = "done" /\ f[e].of = ex[e].of /\ f[e].job = ex[e].job
        /\ f[e].waits = ex[e].waits /\ f[e].late = ex[e].late
        /\ f[e].asked = ex[e].asked \/ Runs(e, "send")
        /\ f[e].answer = ex[e].answer \/ (ex[e].answer # "none" /\ f[e].answer # "none")
        /\ ex[e].job = "receive" /\ f[e].result = "ok" => ex[e].answer # "none"
<1>8. ASSUME NEW f, NEW b, Becomes(f, b, served), Fits(f), queue' = queue,
             \E j \in {"connect", "send", "receive"} : Runs(e, j),
             b = backlog \/ (Runs(e, "connect") /\ b = Append(backlog, e))
      PROVE  JobIsDone(e)
  <2>1. backlog' = b /\ served' = served
    BY <1>8 DEF Becomes
  <2>2. ASSUME NEW d \in Exchanges
        PROVE  DoneMoves(e, d)
    <3>1. ex'[d] = f[d] \/ (ex'[d] = Free /\ ~f[d].waits /\ ~Linked(d)')
      BY <1>8, <2>1 DEF Becomes, Linked
    <3> QED
      BY <3>1, <1>8 DEF DoneMoves, Forgotten
  <2> QED
    BY <1>8, <2>1, <2>2 DEF JobIsDone
<1>9. CASE Connects(e)
  <2>1. Fits(Finished(e, "ok"))
    BY <1>3, <1>5, <1>9 DEF Connects, Runs
  <2> QED
    BY <1>8, <1>9, <2>1 DEF Connects
<1>10. CASE ConnectFails(e)
  <2>1. PICK r \in {"oserror", "eof"} : Becomes(Finished(e, r), backlog, served)
    BY <1>10 DEF ConnectFails
  <2>2. Fits(Finished(e, r))
    BY <1>3, <1>5, <1>10 DEF ConnectFails, Runs
  <2> QED
    BY <1>8, <1>10, <2>1, <2>2 DEF ConnectFails
<1>11. CASE Sends(e)
  <2> DEFINE f == [Finished(e, "ok") EXCEPT ![e].asked = TRUE]
  <2>1. /\ f[e] = [Done("ok") EXCEPT !.asked = TRUE]
        /\ \A d \in Exchanges \ {e} : f[d] = ex[d]
    BY <1>4
  <2>2. Becomes(f, backlog, served) /\ Runs(e, "send") /\ queue' = queue
    BY <1>11 DEF Sends
  <2> HIDE DEF f
  <2>3. Fits(f)
    BY <1>6, <2>1, <2>2 DEF Runs
  <2> HIDE DEF Fits
  <2> QED
    BY <1>8, <2>2, <2>3
<1>12. CASE SendFails(e)
  <2>1. Fits(Finished(e, "oserror"))
    BY <1>3, <1>5, <1>12 DEF SendFails, Runs
  <2> QED
    BY <1>8, <1>12, <2>1 DEF SendFails
<1>13. CASE Receives(e)
  <2> DEFINE f == IF ex[e].waits THEN [Finished(e, "ok") EXCEPT ![e].answer = "sent"]
                                 ELSE Finished(e, "ok")
  <2>1. ex[e].answer # "none" /\ Runs(e, "receive") /\ queue' = queue
        /\ Becomes(f, backlog, served)
    BY <1>13 DEF Receives
  <2>2. Fits(Finished(e, "ok"))
    BY <1>3, <1>5, <2>1
  <2>3. Fits([Finished(e, "ok") EXCEPT ![e].answer = "sent"])
    <3> DEFINE g == [Finished(e, "ok") EXCEPT ![e].answer = "sent"]
    <3>1. /\ g[e] = [Done("ok") EXCEPT !.answer = "sent"]
          /\ \A d \in Exchanges \ {e} : g[d] = ex[d]
      BY <1>4
    <3> HIDE DEF g, f
    <3>2. Fits(g)
      BY <1>7, <2>1, <3>1
    <3> QED
      BY <3>2 DEF g
  <2>4. Fits(f)
    BY <2>2, <2>3
  <2> HIDE DEF f, Fits
  <2> QED
    BY <1>8, <2>1, <2>4
<1>14. CASE ReceiveFails(e)
  <2>1. PICK r \in {"eof", "error"} : Becomes(Finished(e, r), backlog, served)
    BY <1>14 DEF ReceiveFails
  <2>2. Fits(Finished(e, r))
    BY <1>3, <1>5, <1>14 DEF ReceiveFails, Runs
  <2> QED
    BY <1>8, <1>14, <2>1, <2>2 DEF ReceiveFails
<1> QED
  BY <1>9, <1>10, <1>11, <1>12, <1>13, <1>14

(* The agent hangs up, or all connections drop.                              *)
Drops ==
    /\ queue' = queue /\ served' = NoEx /\ backlog' \in {backlog, <<>>}
    /\ \A d \in Exchanges : Forgotten(d) \/ ex'[d] = ex[d]

LEMMA EndOfConnection ==
    ASSUME (\E e \in Exchanges : HangsUp(e) \/ AgentDies(e)) \/ BridgeGone
    PROVE  Drops
<1>1. \E b \in {backlog, <<>>} : Becomes(ex, b, NoEx) /\ queue' = queue
  BY DEF HangsUp, AgentDies, BridgeGone
<1> QED
  BY <1>1 DEF Becomes, Drops, Forgotten, Linked

(***************************************************************************)
(* The steps that matter to the requests.                                  *)
(***************************************************************************)

Elsewhere == UNCHANGED <<ex, queue, backlog, served>>
GuestStep ==
    \/ \E c \in Clients, k \in AllKinds : Ask(c, k)
    \/ \E e \in Exchanges : Answered(e) \/ RequestCancelled(e)
    \/ Traffic \/ BridgeGone \/ Elsewhere

LEMMA NextIsGuestStep == Next => GuestStep
BY GuestAssumption, MicroVMAssumption
   DEF Next, GuestStep, Provision, ProvisionBegins, RuntimeMissing, Spawned, SocketReady,
       SetUp, SetUpFails, Effect, BridgeStays, Pings, AgentReachable, WaitedTooLong,
       TaskCancelled, CloseBegins, ShutdownSent, Reaped, AgentStarts, ProcessDies,
       BridgeLostWith, User, Elsewhere, guestVars, AllKinds

(* Every step leaves exchanges of the right form.                            *)
LEMMA GuestTypeStep ==
    ASSUME GuestTypes, Jobs, GuestStep
    PROVE  GuestTypes'
<1> USE GuestAssumption DEF GuestTypes
<1>1. ASSUME NEW c \in Clients, NEW k \in AllKinds, Ask(c, k)
     PROVE  GuestTypes'
  <2>1. [Free EXCEPT !.of = c, !.waits = TRUE, !.kind = k, !.job = "connect",
                     !.thread = "queued"] \in ExRecord
    BY DEF Free, ExRecord
  <2> QED
    BY <1>1, <2>1 DEF Ask
<1>2. ASSUME NEW e \in Exchanges, Answered(e)
     PROVE  GuestTypes'
  <2>1. queue' \in Seq(Exchanges)
    BY <1>2, Dropped DEF Answered, Jobs
  <2>2. Left(Overtaken(e), e) \in [Exchanges -> ExRecord]
    BY LeftType, OvertakenType
  <2>3. Becomes(Left(Overtaken(e), e), backlog, served)
    BY <1>2 DEF Answered, Leaves
  <2> QED
    BY <2>1, <2>2, <2>3, BecomesType
<1>3. ASSUME NEW e \in Exchanges, RequestCancelled(e)
     PROVE  GuestTypes'
  <2>1. queue' \in Seq(Exchanges)
    BY <1>3, Dropped DEF RequestCancelled, Jobs
  <2>2. Left(ex, e) \in [Exchanges -> ExRecord]
    BY LeftType
  <2>3. Becomes(Left(ex, e), backlog, served)
    BY <1>3 DEF RequestCancelled, Leaves
  <2> QED
    BY <2>1, <2>2, <2>3, BecomesType
<1>4. ASSUME NEW e \in Exchanges, GoesOn(e)
     PROVE  GuestTypes'
  <2>1. \A x \in ExRecord, j \in {"send", "receive"} :
           [x EXCEPT !.job = j, !.thread = "queued", !.result = "none"] \in ExRecord
    BY DEF ExRecord
  <2>2. PICK j \in {"send", "receive"} : ex' =
           [ex EXCEPT ![e] = [ex[e] EXCEPT !.job = j, !.thread = "queued",
                                           !.result = "none"]]
    BY <1>4 DEF GoesOn
  <2>3. ex' \in [Exchanges -> ExRecord]
    BY <2>1, <2>2
  <2> QED
    BY <1>4, <2>3 DEF GoesOn
<1>5. ASSUME NEW e \in Exchanges, Fails(e)
     PROVE  GuestTypes'
  <2>1. queue' \in Seq(Exchanges)
    BY <1>5, Dropped DEF Fails, Jobs
  <2>2. Left(ex, e) \in [Exchanges -> ExRecord]
    BY LeftType
  <2>3. Becomes(Left(ex, e), backlog, served)
    BY <1>5 DEF Fails, Leaves
  <2> QED
    BY <2>1, <2>2, <2>3, BecomesType
<1>6. ASSUME NEW e \in Exchanges, TimesOut(e)
     PROVE  GuestTypes'
  <2>1. queue' \in Seq(Exchanges)
    BY <1>6, Dropped DEF TimesOut, Jobs
  <2>2. Left(ex, e) \in [Exchanges -> ExRecord]
    BY LeftType
  <2>3. Becomes(Left(ex, e), backlog, served)
    BY <1>6 DEF TimesOut, Leaves
  <2> QED
    BY <2>1, <2>2, <2>3, BecomesType
<1>7. ASSUME Takes PROVE GuestTypes'
  <2>1. Head(queue) \in Exchanges /\ Tail(queue) \in Seq(Exchanges)
    BY <1>7 DEF Takes
  <2>2. ex' \in [Exchanges -> ExRecord]
    BY <1>7, <2>1, FieldTypes DEF Takes
  <2> QED
    BY <1>7, <2>1, <2>2 DEF Takes
<1>8. ASSUME NEW e \in Exchanges, Connects(e)
     PROVE  GuestTypes'
  <2>1. Append(backlog, e) \in Seq(Exchanges)
    OBVIOUS
  <2>2. Finished(e, "ok") \in [Exchanges -> ExRecord]
    BY FinishedType
  <2>3. Becomes(Finished(e, "ok"), Append(backlog, e), served)
    BY <1>8 DEF Connects
  <2>4. ex' \in [Exchanges -> ExRecord] /\ backlog' = Append(backlog, e) /\ served' = served
    BY <2>2, <2>3, BecomesType
  <2> QED
    BY <1>8, <2>1, <2>4 DEF Connects
<1>9. ASSUME NEW e \in Exchanges, ConnectFails(e)
     PROVE  GuestTypes'
  <2>1. PICK r \in {"oserror", "eof"} : Becomes(Finished(e, r), backlog, served)
    BY <1>9 DEF ConnectFails
  <2> QED
    BY <1>9, <2>1, FinishedType, BecomesType DEF ConnectFails
<1>10. ASSUME NEW e \in Exchanges, Sends(e)
     PROVE  GuestTypes'
  <2>1. [Finished(e, "ok") EXCEPT ![e].asked = TRUE] \in [Exchanges -> ExRecord]
    BY FinishedType, FieldTypes
  <2> QED
    BY <1>10, <2>1, BecomesType DEF Sends
<1>11. ASSUME NEW e \in Exchanges, SendFails(e)
     PROVE  GuestTypes'
  BY <1>11, FinishedType, BecomesType DEF SendFails
<1>12. ASSUME NEW e \in Exchanges, Receives(e)
     PROVE  GuestTypes'
  <2>1. /\ Finished(e, "ok") \in [Exchanges -> ExRecord]
        /\ [Finished(e, "ok") EXCEPT ![e].answer = "sent"] \in [Exchanges -> ExRecord]
    BY FinishedType, FieldTypes
  <2> DEFINE f == IF ex[e].waits THEN [Finished(e, "ok") EXCEPT ![e].answer = "sent"]
                                 ELSE Finished(e, "ok")
  <2>2. f \in [Exchanges -> ExRecord] /\ Becomes(f, backlog, served)
    BY <1>12, <2>1 DEF Receives
  <2> HIDE DEF f
  <2> QED
    BY <1>12, <2>2, BecomesType DEF Receives
<1>13. ASSUME NEW e \in Exchanges, ReceiveFails(e)
     PROVE  GuestTypes'
  <2>1. PICK r \in {"eof", "error"} : Becomes(Finished(e, r), backlog, served)
    BY <1>13 DEF ReceiveFails
  <2> QED
    BY <1>13, <2>1, FinishedType, BecomesType DEF ReceiveFails
<1>14. ASSUME Accepts PROVE GuestTypes'
  BY <1>14 DEF Accepts
<1>15. ASSUME NEW e \in Exchanges, Handles(e)
     PROVE  GuestTypes'
  BY <1>15, FieldTypes DEF Handles
<1>16. ASSUME NEW e \in Exchanges, Replies(e)
     PROVE  GuestTypes'
  <2>1. PICK a \in {"sending", "sent"} : ex' = [ex EXCEPT ![e].answer = a]
    BY <1>16 DEF Replies
  <2>2. ex' \in [Exchanges -> ExRecord]
    BY <2>1, FieldTypes
  <2> QED
    BY <1>16, <2>2 DEF Replies
<1>17. ASSUME NEW e \in Exchanges, HangsUp(e)
     PROVE  GuestTypes'
  BY <1>17, BecomesType DEF HangsUp
<1>18. ASSUME NEW e \in Exchanges, AgentDies(e)
     PROVE  GuestTypes'
  <2>1. ex' \in [Exchanges -> ExRecord] /\ backlog' = <<>> /\ served' = NoEx
    <3>1. Becomes(ex, <<>>, NoEx)
      BY <1>18 DEF AgentDies
    <3> QED
      BY <3>1, BecomesType
  <2> QED
    BY <1>18, <2>1 DEF AgentDies
<1>19. ASSUME BridgeGone PROVE GuestTypes'
  <2>1. ex' \in [Exchanges -> ExRecord] /\ backlog' = <<>> /\ served' = NoEx
    <3>1. Becomes(ex, <<>>, NoEx)
      BY <1>19 DEF BridgeGone
    <3> QED
      BY <3>1, BecomesType
  <2> QED
    BY <1>19, <2>1 DEF BridgeGone
<1>20. ASSUME Elsewhere PROVE GuestTypes'
  BY <1>20 DEF Elsewhere
<1> HIDE DEF GuestTypes
<1> QED
  BY <1>1, <1>2, <1>3, <1>4, <1>5, <1>6, <1>7, <1>8, <1>9, <1>10, <1>11,
     <1>12, <1>13, <1>14, <1>15, <1>16, <1>17, <1>18, <1>19, <1>20
     DEF GuestStep, Traffic, Exchange

(* A job is queued for a request that waits, one at a time for each client.    *)
LEMMA JobStep ==
    ASSUME GuestTypes, Jobs, GuestStep
    PROVE  Jobs'
<1> USE GuestAssumption DEF GuestTypes, Jobs, Runs, Linked, ToSet, Free
<1>1. ASSUME NEW c \in Clients, NEW k \in AllKinds, Ask(c, k)
     PROVE  Jobs'
  BY <1>1 DEF Ask, Asking, ExRecord
<1>2. ASSUME NEW e \in Exchanges, Ends(e)
     PROVE  Jobs'
  <2>1. \A i \in DOMAIN queue' : ex'[queue'[i]].waits /\ ex'[queue'[i]].thread = "queued"
    <3> SUFFICES ASSUME NEW i \in DOMAIN queue'
                 PROVE  ex'[queue'[i]].waits /\ ex'[queue'[i]].thread = "queued"
      OBVIOUS
    <3>1. PICK j \in DOMAIN queue : queue'[i] = queue[j] /\ queue[j] # e
      BY <1>2 DEF Ends, DropsJob
    <3>2. queue[j] \in Exchanges /\ EndMoves(e, queue[j])
      BY <1>2 DEF Ends
    <3> QED
      BY <3>1, <3>2 DEF EndMoves
  <2>2. \A d \in Exchanges :
           /\ ex'[d].job = "none" => ~Linked(d)' /\ ~ex'[d].asked
           /\ ex'[d].job = "connect" => ~ex'[d].asked
           /\ ex'[d].job = "receive" /\ ex'[d].result = "ok" => ex'[d].answer # "none"
    <3> SUFFICES ASSUME NEW d \in Exchanges
                 PROVE  /\ ex'[d].job = "none" => ~Linked(d)' /\ ~ex'[d].asked
                        /\ ex'[d].job = "connect" => ~ex'[d].asked
                        /\ ex'[d].job = "receive" /\ ex'[d].result = "ok" =>
                               ex'[d].answer # "none"
      OBVIOUS
    <3>1. EndMoves(e, d) /\ (Linked(d)' <=> Linked(d))
      BY <1>2 DEF Ends
    <3> HIDE DEF Linked
    <3> QED
      BY <3>1 DEF EndMoves
  <2>3. \A c, d \in Exchanges : ex'[c].waits /\ ex'[d].waits /\ ex'[c].of = ex'[d].of => c = d
    BY <1>2 DEF Ends, EndMoves
  <2> QED
    BY <1>2, <2>1, <2>2, <2>3 DEF Ends, DropsJob
<1>3. ASSUME NEW e \in Exchanges, GoesOn(e)
     PROVE  Jobs'
  BY <1>3 DEF GoesOn, ExRecord
<1>4. ASSUME Takes PROVE Jobs'
  BY <1>4 DEF Takes, ExRecord
<1>5. ASSUME NEW e \in Exchanges, JobIsDone(e)
     PROVE  Jobs'
  <2>1. ex[e].thread = "runs" /\ queue' = queue /\ \A d \in Exchanges : DoneMoves(e, d)
    BY <1>5 DEF JobIsDone
  <2>2. \A i \in DOMAIN queue' : ex'[queue'[i]].waits /\ ex'[queue'[i]].thread = "queued"
    BY <2>1 DEF DoneMoves, Forgotten
  <2>3. \A d \in Exchanges :
           /\ ex'[d].job = "connect" => ~ex'[d].asked
           /\ ex'[d].job = "receive" /\ ex'[d].result = "ok" => ex'[d].answer # "none"
    BY <2>1 DEF DoneMoves, Forgotten
  <2>4. \A d \in Exchanges : ex'[d].job = "none" => ~Linked(d)' /\ ~ex'[d].asked
    <3> SUFFICES ASSUME NEW d \in Exchanges, ex'[d].job = "none"
                 PROVE  ~Linked(d)' /\ ~ex'[d].asked
      OBVIOUS
    <3>1. CASE Forgotten(d)
      BY <3>1 DEF Forgotten
    <3>2. CASE ~Forgotten(d)
      <4>1. ex[d].job = "none" /\ ex'[d].asked = ex[d].asked
        BY <2>1, <3>2 DEF DoneMoves
      <4>2. d # e
        BY <1>5, <4>1 DEF JobIsDone
      <4> QED
        BY <1>5, <4>1, <4>2 DEF JobIsDone
    <3> QED
      BY <3>1, <3>2
  <2>5. \A c, d \in Exchanges : ex'[c].waits /\ ex'[d].waits /\ ex'[c].of = ex'[d].of => c = d
    BY <2>1 DEF DoneMoves, Forgotten
  <2> QED
    BY <2>1, <2>2, <2>3, <2>4, <2>5
<1>6. ASSUME Accepts PROVE Jobs'
  BY <1>6 DEF Accepts
<1>7. ASSUME NEW e \in Exchanges, Handles(e)
     PROVE  Jobs'
  BY <1>7 DEF Handles, ExRecord
<1>8. ASSUME NEW e \in Exchanges, Replies(e)
     PROVE  Jobs'
  BY <1>8 DEF Replies, ExRecord
<1>9. ASSUME Drops PROVE Jobs'
  <2>1. queue' = queue /\ \A d \in Exchanges : ex'[d] = Free \/ ex'[d] = ex[d]
    BY <1>9 DEF Drops, Forgotten
  <2>2. \A d \in Exchanges : Linked(d)' => Linked(d) /\ ex'[d] = ex[d]
    BY <1>9 DEF Drops, Forgotten
  <2>3. \A i \in DOMAIN queue' : ex'[queue'[i]] = ex[queue[i]]
    BY <1>9 DEF Drops, Forgotten
  <2> HIDE DEF Linked
  <2> QED
    BY <2>1, <2>2, <2>3
<1>10. ASSUME Elsewhere PROVE Jobs'
  BY <1>10 DEF Elsewhere
<1> HIDE DEF Jobs, Runs, Linked, ToSet, Free
<1> QED
  BY <1>1, <1>2, <1>3, <1>4, <1>5, <1>6, <1>7, <1>8, <1>9, <1>10,
     EndOfRequest, EndOfJob, EndOfConnection DEF GuestStep, Traffic, Exchange

(* The way to the agent is first in, first out, and a client asks anew only    *)
(* after it has given up.                                                   *)
LEMMA AheadStep ==
    ASSUME GuestTypes, Jobs, Ahead, Overtook, GuestStep
    PROVE  Ahead'
<1> USE GuestAssumption DEF GuestTypes, Jobs, Ahead, MayAct, Runs, Linked,
     ToSet, Free
<1>1. ASSUME NEW c \in Clients, NEW k \in AllKinds, Ask(c, k)
     PROVE  Ahead'
  BY <1>1 DEF Ask, Asking, ExRecord
<1>2. ASSUME NEW e \in Exchanges, Ends(e)
     PROVE  Ahead'
  BY <1>2 DEF Ends, EndMoves, DropsJob
<1>3. ASSUME NEW e \in Exchanges, GoesOn(e)
     PROVE  Ahead'
  BY <1>3 DEF GoesOn, ExRecord
<1>4. ASSUME Takes PROVE Ahead'
  BY <1>4 DEF Takes, ExRecord
<1>5. ASSUME NEW e \in Exchanges, JobIsDone(e)
     PROVE  Ahead'
  <2>1. ASSUME NEW d \in Exchanges, NEW n \in Exchanges, ~ex'[d].waits, ex'[n].waits,
               ex'[d].of = ex'[n].of, MayAct(d)'
        PROVE  /\ ~ex[d].waits /\ ex[n].waits /\ ex[d].of = ex[n].of /\ MayAct(d)
               /\ ex'[n].answer # "none" => ex[n].answer # "none"
    BY <1>5, <2>1 DEF JobIsDone, DoneMoves, Forgotten
  <2>2. CASE backlog' = backlog
    BY <1>5, <2>1, <2>2 DEF JobIsDone
  <2>3. CASE Runs(e, "connect") /\ backlog' = Append(backlog, e)
    BY <1>5, <2>1, <2>3 DEF JobIsDone
  <2> QED
    BY <1>5, <2>2, <2>3 DEF JobIsDone
<1>6. ASSUME Accepts PROVE Ahead'
  BY <1>6 DEF Accepts
<1>7. ASSUME NEW e \in Exchanges, Handles(e)
     PROVE  Ahead'
  BY <1>7 DEF Handles, ExRecord
<1>8. ASSUME NEW e \in Exchanges, Replies(e)
     PROVE  Ahead'
  BY <1>8 DEF Replies, ExRecord
<1>9. ASSUME Drops PROVE Ahead'
  BY <1>9 DEF Drops, Forgotten
<1>10. ASSUME Elsewhere PROVE Ahead'
  BY <1>10 DEF Elsewhere
<1> HIDE DEF Jobs, Ahead, MayAct, Runs, Linked, ToSet, Free
<1> QED
  BY <1>1, <1>2, <1>3, <1>4, <1>5, <1>6, <1>7, <1>8, <1>9, <1>10,
     EndOfRequest, EndOfJob, EndOfConnection DEF GuestStep, Traffic, Exchange

(* ... so an answer means that what was asked before it is off that way.       *)
LEMMA OvertookStep ==
    ASSUME GuestTypes, Jobs, Ahead, Overtook, GuestStep
    PROVE  Overtook'
<1> USE GuestAssumption DEF GuestTypes, Jobs, Ahead, Overtook, MayAct, Runs,
     Linked, ToSet, Free
<1>1. ASSUME NEW c \in Clients, NEW k \in AllKinds, Ask(c, k)
     PROVE  Overtook'
  BY <1>1 DEF Ask, Asking, ExRecord
<1>2. ASSUME NEW e \in Exchanges, Ends(e)
     PROVE  Overtook'
  BY <1>2 DEF Ends, EndMoves
<1>3. ASSUME NEW e \in Exchanges, GoesOn(e)
     PROVE  Overtook'
  BY <1>3 DEF GoesOn, ExRecord
<1>4. ASSUME Takes PROVE Overtook'
  BY <1>4 DEF Takes, ExRecord
<1>5. ASSUME NEW e \in Exchanges, JobIsDone(e)
     PROVE  Overtook'
  <2> SUFFICES ASSUME NEW d \in Exchanges, ex'[d].late
               PROVE  ~ex'[d].waits /\ ex'[d].answer = "none" /\ (MayAct(d)' => ~Linked(d)')
    OBVIOUS
  <2>1. DoneMoves(e, d) /\ ~Forgotten(d)
    BY <1>5 DEF JobIsDone, Forgotten
  <2>2. /\ ex[d].late /\ ~ex'[d].waits /\ ex'[d].answer = "none"
        /\ MayAct(d)' => MayAct(d)
    BY <2>1 DEF DoneMoves
  <2>3. MayAct(d) => ~Linked(d)'
    BY <1>5, <2>2 DEF JobIsDone
  <2> QED
    BY <2>2, <2>3
<1>6. ASSUME Accepts PROVE Overtook'
  BY <1>6 DEF Accepts
<1>7. ASSUME NEW e \in Exchanges, Handles(e)
     PROVE  Overtook'
  BY <1>7 DEF Handles, ExRecord
<1>8. ASSUME NEW e \in Exchanges, Replies(e)
     PROVE  Overtook'
  BY <1>8 DEF Replies, ExRecord
<1>9. ASSUME Drops PROVE Overtook'
  BY <1>9 DEF Drops, Forgotten
<1>10. ASSUME Elsewhere PROVE Overtook'
  BY <1>10 DEF Elsewhere
<1> HIDE DEF Jobs, Ahead, Overtook, MayAct, Runs, Linked, ToSet, Free
<1> QED
  BY <1>1, <1>2, <1>3, <1>4, <1>5, <1>6, <1>7, <1>8, <1>9, <1>10,
     EndOfRequest, EndOfJob, EndOfConnection DEF GuestStep, Traffic, Exchange

LEMMA InitGuestInv == Init => GuestInv
<1> SUFFICES ASSUME Init
             PROVE  GuestInv
  OBVIOUS
<1> USE GuestAssumption DEF Init, GuestInit
<1>1. GuestTypes
  BY FreeType DEF GuestTypes
<1>2. Jobs /\ Ahead /\ Overtook
  BY DEF Jobs, Ahead, Overtook, Free, MayAct, Runs, Linked, ToSet
<1> QED
  BY <1>1, <1>2 DEF GuestInv

(***************************************************************************)
(* The inductive invariant of the processes.                               *)
(***************************************************************************)

VMTypes ==
    /\ proc \in [Procs -> {"none", "up", "booted"}]
    /\ path \in Procs \cup {NoProc} /\ handle \in Procs \cup {NoProc}
    /\ api \in BOOLEAN /\ bound \in BOOLEAN
    /\ stage \in {"idle", "verify", "socket", "setup", "agent", "shutdown", "reap"}
    /\ puts \in 0..5 /\ cut \subseteq Procs

(* A process the workspace would forget by spawning another is one that a     *)
(* cancellation left behind.                                               *)
Orphaned ==
    /\ cut \subseteq Live
    /\ stage \in {"idle", "verify"} /\ ~bound /\ handle \in Live => handle \in cut

(* From its vsock call to its end a provision owns the socket file.           *)
OwnsPath ==
    /\ bound => path = handle /\ stage \in {"idle", "shutdown", "reap"}
    /\ (stage = "setup" /\ puts = 5) \/ stage = "agent" => path = handle

VMInv == VMTypes /\ NoStrayVM /\ Orphaned /\ OwnsPath

LEMMA InitVMInv == Init => VMInv
<1> SUFFICES ASSUME Init
             PROVE  VMInv
  OBVIOUS
<1> USE MicroVMAssumption DEF Init
<1>1. VMTypes
  <2>1. api \in BOOLEAN /\ bound \in BOOLEAN
    BY Zenon
  <2> QED
    BY <2>1 DEF VMTypes
<1> QED
  BY <1>1 DEF VMInv, NoStrayVM, Orphaned, OwnsPath, Live

(* A cancelled task counts the process it leaves; any other task that ends has  *)
(* reaped it or bound it.                                                   *)
LEMMA VMStep ==
    ASSUME VMInv, Next
    PROVE  VMInv'
<1> USE MicroVMAssumption DEF VMInv, VMTypes, NoStrayVM, Orphaned, OwnsPath,
     Live
<1>1. ASSUME ProvisionBegins PROVE VMInv'
  BY <1>1 DEF ProvisionBegins
<1>2. ASSUME RuntimeMissing PROVE VMInv'
  BY <1>2 DEF RuntimeMissing
<1>3. ASSUME Spawned PROVE VMInv'
  BY <1>3 DEF Spawned
<1>4. ASSUME SocketReady PROVE VMInv'
  BY <1>4 DEF SocketReady
<1>5. ASSUME SetUp PROVE VMInv'
  BY <1>5 DEF SetUp, Accepted, Effect, Calls
<1>6. ASSUME SetUpFails PROVE VMInv'
  BY <1>6 DEF SetUpFails, Accepted, Effect, Calls
<1>7. ASSUME Pings PROVE VMInv'
  BY <1>7 DEF Pings, vmVars
<1>8. ASSUME NEW e \in Exchanges, AgentReachable(e)
      PROVE  VMInv'
  BY <1>8 DEF AgentReachable
<1>9. ASSUME WaitedTooLong PROVE VMInv'
  BY <1>9 DEF WaitedTooLong
<1>10. ASSUME TaskCancelled PROVE VMInv'
  BY <1>10 DEF TaskCancelled
<1>11. ASSUME CloseBegins PROVE VMInv'
  BY <1>11 DEF CloseBegins
<1>12. ASSUME ShutdownSent PROVE VMInv'
  BY <1>12 DEF ShutdownSent
<1>13. ASSUME Reaped PROVE VMInv'
  BY <1>13 DEF Reaped
<1>14. ASSUME AgentStarts PROVE VMInv'
  BY <1>14 DEF AgentStarts, vmVars
<1>15. ASSUME NEW p \in Procs, ProcessDies(p)
      PROVE  VMInv'
  BY <1>15 DEF ProcessDies
<1>16. ASSUME UNCHANGED vmVars PROVE VMInv'
  BY <1>16 DEF vmVars
<1> HIDE DEF VMInv, VMTypes, NoStrayVM, Orphaned, OwnsPath, Live
<1> QED
  BY <1>1, <1>2, <1>3, <1>4, <1>5, <1>6, <1>7, <1>8, <1>9, <1>10, <1>11,
     <1>12, <1>13, <1>14, <1>15, <1>16
     DEF Next, Provision

(***************************************************************************)
(* The theorems.                                                           *)
(***************************************************************************)

(* Requests keep their order on the way to the agent (_AgentClient, the guest  *)
(* agent's accept loop), whatever is timed out, cancelled or torn down.        *)
THEOREM GuestInvariant == Spec => []GuestInv
<1>1. Init => GuestInv
  BY InitGuestInv
<1>2. GuestInv /\ [Next]_vars => GuestInv'
  <2>1. ASSUME GuestInv, GuestStep
        PROVE  GuestInv'
    BY <2>1, GuestTypeStep, JobStep, AheadStep, OvertookStep DEF GuestInv
  <2>2. ASSUME UNCHANGED vars
        PROVE  GuestStep
    BY <2>2 DEF vars, guestVars, GuestStep, Elsewhere
  <2> QED
    BY <2>1, <2>2, NextIsGuestStep
<1> QED
  BY <1>1, <1>2, PTL DEF Spec

(* Processes keep their owner through every step of _provision_backend and     *)
(* _teardown_backend and every cancellation of them.                          *)
THEOREM VMInvariant == Spec => []VMInv
<1>1. Init => VMInv
  BY InitVMInv
<1>2. VMInv /\ [Next]_vars => VMInv'
  <2>1. ASSUME VMInv, UNCHANGED vars
        PROVE  VMInv'
    BY <2>1 DEF vars, vmVars, VMInv, VMTypes, NoStrayVM, Orphaned, OwnsPath, Live
  <2> QED
    BY <2>1, VMStep
<1> QED
  BY <1>1, <1>2, PTL DEF Spec

(* No command or file operation a client gave up takes effect after the answer *)
(* to one it asked later (GuestAgentClient._request, _serve_connection).       *)
THEOREM OvertakenStaysUndone == Spec => []NoLateCommand
<1>1. GuestInv => NoLateCommand
  BY DEF GuestInv, Overtook, NoLateCommand
<1> QED
  BY <1>1, GuestInvariant, PTL

(* Every firecracker process alive is the one the workspace will reap, unless  *)
(* a cancellation abandoned it (_provision_backend, _teardown_backend).        *)
THEOREM EveryVMIsOwned == Spec => []NoStrayVM
<1>1. VMInv => NoStrayVM
  BY DEF VMInv
<1> QED
  BY <1>1, VMInvariant, PTL

(* A bound workspace talks to the VM of its own process, whatever earlier      *)
(* provisions left at the path (the set-up calls in _provision_backend).       *)
THEOREM BackendIsOwnVM == Spec => []BoundToOwnVM
<1>1. VMInv => BoundToOwnVM
  BY DEF VMInv, OwnsPath, BoundToOwnVM
<1> QED
  BY <1>1, VMInvariant, PTL
================================================================================
