--------------------------- MODULE TieredStoreProofs ---------------------------
(* Proofs about TieredStore, for any tiers over any backends, any policies and *)
(* limits, and any clients and references.                                   *)
EXTENDS TieredStore, FiniteSetTheorems, TLAPS

(***************************************************************************)
(* The inductive invariant.                                                *)
(***************************************************************************)

OpRecord ==
    [kind : {"none", "put", "get", "promote", "delete", "evict"},
     ref : Refs \cup {NoRef}, tier : Tiers,
     at : {"idle", "gather", "run", "ran", "sent", "answered", "pick"},
     answer : Answers, data : Objects, errors : Nat]
WriteState == {"no", "start", "stored", "refused", "ok", "failed"}

Types ==
    /\ stored \in [Tiers -> [Refs -> Objects]]
    /\ tracked \in [Tiers -> SUBSET Refs]
    /\ \A t \in Tiers : IsFiniteSet(tracked[t])
    /\ op \in [Agents -> OpRecord]
    /\ writes \in [Jobs -> [Tiers -> WriteState]]
    /\ agenda \in Seq(Refs)
    /\ forgotten \subseteq Tiers \X Refs

(* What the references are: a put's is new to everybody until it returns, and *)
(* a tree's is never tracked.                                               *)
References ==
    /\ known \subseteq issued /\ trees \subseteq issued /\ issued \subseteq Refs
    /\ known \cap trees = {} /\ meta \subseteq known
    /\ condemned \subseteq known \cup trees /\ deleted \subseteq condemned
    /\ trees # {} => Kind[1] = "local"
    /\ \A t \in Tiers : tracked[t] \subseteq issued \ trees
    /\ \A i \in DOMAIN agenda : agenda[i] \in issued \ trees

(* What each kind of operation has in its variables, and that one agent at a  *)
(* time holds the event loop.                                               *)
Waits(a) == op[a].at \in {"run", "ran", "sent", "answered"}
OpShape(a) ==
    /\ op[a].kind \in {"get", "promote", "delete"} =>
          a \in Jobs /\ op[a].ref \in known \cup trees /\ Waits(a)
    /\ op[a].kind = "promote" =>
          /\ op[a].ref \in known /\ op[a].data # "none"
          /\ op[a].errors \in Tiers /\ op[a].tier < op[a].errors
    /\ op[a].kind = "delete" => op[a].ref \in condemned
    /\ op[a].kind = "put" =>
          a \in Jobs /\ op[a].ref \in issued \ (known \cup trees) /\ op[a].at = "gather"
    /\ op[a].kind = "evict" =>
          /\ a = Sweeper /\ (op[a].at = "pick" \/ Waits(a))
          /\ Waits(a) => op[a].ref \in issued \ trees /\ op[a].tier \in LRU \cup TTL
    /\ op[a].kind = "none" => op[a].at = "idle"
    /\ op[a].at \in {"run", "ran"} => Kind[op[a].tier] # "postgres"
    /\ op[a].at \in {"sent", "answered"} => Kind[op[a].tier] = "postgres"
OpShapes == \A a \in Agents : OpShape(a)
OneHolds == \A a, b \in Agents : Holds(a) /\ Holds(b) => a = b
AgendaShape ==
    agenda # <<>> => op[Sweeper].kind = "evict" /\ op[Sweeper].tier \in LRU \cup TTL
PutShapes ==
    /\ \A j \in Jobs, t \in Tiers :
          writes[j][t] # "no" <=> op[j].kind = "put" /\ t \in WriteThrough
    /\ \A i, j \in Jobs :
          op[i].kind = "put" /\ op[j].kind = "put" /\ op[i].ref = op[j].ref => i = j
Shapes == OpShapes /\ OneHolds /\ AgendaShape /\ PutShapes

(* The tiers an object cannot leave but by a delete: for a tree the one it is *)
(* in, for the others those FoundWhileKept asks for.                         *)
Steady == {t \in WriteThrough \ (LRU \cup TTL) : Kind[t] # "minio" \/ ~Faults}
Home(r) == IF r \in trees THEN {1} ELSE Steady

KeptObjects ==
    \A r \in (known \cup trees) \ condemned : \A s \in Home(r) : stored[s][r] # "none"
KeptWrites ==
    \A j \in Jobs, s \in Steady :
        writes[j][s] \in {"stored", "ok"} => stored[s][op[j].ref] # "none"
Searched(j, s) == s < op[j].tier \/ (s = op[j].tier /\ op[j].answer = "missing")
Searches(j) ==
    op[j].kind = "get" =>
        \A s \in Home(op[j].ref) : Searched(j, s) => op[j].ref \in condemned
KeptSearch == \A j \in Jobs : Searches(j)
KeptSearched == Steady # {} => missed \subseteq condemned
Kept == KeptObjects /\ KeptWrites /\ KeptSearch /\ KeptSearched

(* A delete leaves nothing behind it, but for what is excused.               *)
Clears(j) ==
    op[j].kind = "delete" /\ op[j].ref \notin excused =>
        /\ \A u \in Tiers : u < op[j].tier => stored[u][op[j].ref] = "none"
        /\ op[j].at \in {"ran", "answered"} /\ ~Fault(j)
              => stored[op[j].tier][op[j].ref] = "none"
Gone == \A j \in Jobs : Clears(j)

(* What is stored and not tracked is about to be, or forgotten.              *)
Tracks(j, t, r) ==
    /\ op[j].ref = r
    /\ \/ writes[j][t] = "stored"
       \/ /\ op[j].kind = "promote" /\ op[j].tier = t /\ op[j].answer = "ok"
          /\ op[j].at \in {"ran", "answered"}
Placed(t, r) ==
    stored[t][r] # "none" =>
        \/ r \in tracked[t] \cup trees \cup excused
        \/ <<t, r>> \in forgotten
        \/ \E j \in Jobs : Tracks(j, t, r)
Evicts ==
    op[Sweeper].kind = "evict" /\ op[Sweeper].at = "ran"
    /\ op[Sweeper].answer \in {"ok", "missing"}
        => stored[op[Sweeper].tier][op[Sweeper].ref] = "none"
OnlyCertainEvict == \A t \in LRU \cup TTL : Certain(t)
Accounted == OnlyCertainEvict => Evicts /\ \A t \in Tiers, r \in Refs : Placed(t, r)

IInv ==
    Types /\ References /\ Shapes /\ Kept /\ Gone /\ DeletedIsGone /\ Accounted

LEMMA InitIInv == Init => IInv
<1> SUFFICES ASSUME Init
             PROVE  IInv
  OBVIOUS
<1> USE TieredAssumption DEF Init, Idle
<1>1. Types
  <2>1. \A t \in Tiers : IsFiniteSet(tracked[t])
    BY FS_EmptySet
  <2>2. 1 \in Tiers
    BY DEF Tiers
  <2> QED
    BY <2>1, <2>2 DEF Types, OpRecord, WriteState, Objects, Answers
<1>2. References
  BY DEF References
<1>3. Shapes
  BY DEF Shapes, OpShapes, OpShape, OneHolds, AgendaShape, PutShapes, Waits, Holds, Agents
<1>4. Kept /\ Gone /\ DeletedIsGone
  BY DEF Kept, KeptObjects, KeptWrites, KeptSearch, Searches, KeptSearched, Gone, Clears,
         DeletedIsGone, Agents, Steady
<1>5. Accounted
  BY DEF Accounted, Placed, Evicts, Agents
<1> QED
  BY <1>1, <1>2, <1>3, <1>4, <1>5 DEF IInv

(***************************************************************************)
(* What a store's answer means.                                            *)
(***************************************************************************)

KindOf == {"local", "postgres", "minio"}

LEMMA PutsMean ==
    ASSUME NEW k \in KindOf, NEW was \in Objects, NEW data \in Objects,
           NEW o \in Puts(k, was, data)
    PROVE  /\ o.object \in Objects /\ o.answer \in {"ok", "error"}
           /\ o.answer = "ok" => o.object = data
           /\ was # "none" /\ data # "none" => o.object # "none"
BY DEF KindOf, Puts, LocalPut, PostgresPut, MinioPut, May, Outcome, Objects

LEMMA GetsMean ==
    ASSUME NEW k \in KindOf, NEW was \in Objects, NEW o \in Gets(k, was)
    PROVE  /\ o.object = was /\ o.answer \in {"whole", "torn", "missing", "error"}
           /\ o.answer = "missing" => was = "none" \/ (k = "minio" /\ Faults)
BY DEF KindOf, Gets, LocalGet, PostgresGet, MinioGet, May, Outcome, Objects

LEMMA DeletesMean ==
    ASSUME NEW k \in KindOf, NEW was \in Objects, NEW o \in Deletes(k, was)
    PROVE  /\ o.object \in {was, "none"} /\ o.answer \in {"ok", "missing", "error"}
           /\ o.answer # "error" /\ ~(o.answer = "missing" /\ k = "minio")
                 => o.object = "none"
           /\ k = "minio" /\ ~Faults => o.object = "none"
BY DEF KindOf, Deletes, LocalDelete, PostgresDelete, MinioDelete, May, Outcome, Objects

LEMMA TierFacts ==
    /\ \A t \in Tiers : Kind[t] \in KindOf /\ t \in Nat /\ 1 <= t /\ t <= N
    /\ 1 \in Tiers /\ \A t \in Tiers : t < N => t + 1 \in Tiers
    /\ \A t \in Tiers : Calls(t) \in {"sent", "run"}
BY TieredAssumption DEF Tiers, KindOf, Calls

LEMMA HighestIs ==
    ASSUME NEW S, S \subseteq Nat, S # {}
    PROVE  Highest(S) \in S
<1>1. PICK m \in S : \A u \in S : ~ (<<u, m>> \in OpToRel(<, Nat))
  BY NatLessThanWellFounded, WFMin
<1>2. \A u \in S : ~(u < m)
  BY <1>1, Zenon DEF OpToRel
<1>3. \A u \in S : m <= u
  BY <1>2
<1> QED
  BY <1>3 DEF Highest

(***************************************************************************)
(* What the actions make of op.                                            *)
(***************************************************************************)

OpMoves(a, kind, ref, tier, at, answer, data, errors) ==
    /\ op' \in [Agents -> OpRecord]
    /\ \A b \in Agents \ {a} : op'[b] = op[b]
    /\ op'[a].kind = kind /\ op'[a].ref = ref /\ op'[a].tier = tier
    /\ op'[a].at = at /\ op'[a].answer = answer
    /\ op'[a].data = data /\ op'[a].errors = errors

OpEnds(a) == OpMoves(a, "none", NoRef, 1, "idle", "ok", "none", 0)

LEMMA OpBecomes ==
    ASSUME NEW f \in [Agents -> OpRecord], NEW a \in Agents, NEW c \in OpRecord
    PROVE  /\ [f EXCEPT ![a] = c] \in [Agents -> OpRecord]
           /\ [f EXCEPT ![a] = c][a] = c
           /\ \A b \in Agents \ {a} : [f EXCEPT ![a] = c][b] = f[b]
OBVIOUS

LEMMA EndsMoves ==
    ASSUME Types, NEW a \in Agents, Ends(a)
    PROVE  OpEnds(a)
<1>1. Idle \in OpRecord
  BY TierFacts DEF Idle, OpRecord, Answers, Objects
<1>2. op' = [op EXCEPT ![a] = Idle]
  BY DEF Ends
<1>3. Idle.kind = "none" /\ Idle.ref = NoRef /\ Idle.tier = 1 /\ Idle.at = "idle"
      /\ Idle.answer = "ok" /\ Idle.data = "none" /\ Idle.errors = 0
  BY DEF Idle
<1> HIDE DEF Idle
<1> QED
  BY <1>1, <1>2, <1>3 DEF Types, OpEnds, OpMoves

LEMMA GoesMoves ==
    ASSUME Types, NEW a \in Agents, NEW kind \in {"get", "promote"}, NEW t \in Tiers,
           Goes(a, kind, t)
    PROVE  OpMoves(a, kind, op[a].ref, t, Calls(t), "ok", op[a].data, op[a].errors)
<1>1. ASSUME NEW c \in OpRecord, NEW w \in {"sent", "run"}
      PROVE  [c EXCEPT !.kind = kind, !.tier = t, !.at = w, !.answer = "ok"] \in OpRecord
  BY Zenon DEF OpRecord, Answers
<1> DEFINE c == [op[a] EXCEPT !.kind = kind, !.tier = t, !.at = Calls(t), !.answer = "ok"]
<1>2. c \in OpRecord
  BY <1>1, TierFacts DEF Types
<1>3. op' = [op EXCEPT ![a] = c]
  BY DEF Goes
<1>4. /\ c.kind = kind /\ c.ref = op[a].ref /\ c.tier = t /\ c.at = Calls(t)
      /\ c.answer = "ok" /\ c.data = op[a].data /\ c.errors = op[a].errors
  BY DEF Types, OpRecord
<1> HIDE DEF c
<1> QED
  BY <1>2, <1>3, <1>4 DEF Types, OpMoves

(* The beginnings: a call starts from an idle agent, a sweep picks a tier.    *)
LEMMA BeginMoves ==
    ASSUME Types, NEW a \in Agents, NEW kind \in {"put", "get", "delete"},
           NEW r \in Refs, NEW w \in {"gather", "sent", "run"},
           op' = [op EXCEPT ![a] = [Idle EXCEPT !.kind = kind, !.ref = r, !.at = w]]
    PROVE  OpMoves(a, kind, r, 1, w, "ok", "none", 0)
<1>1. /\ Idle \in OpRecord /\ Idle.tier = 1
      /\ Idle.answer = "ok" /\ Idle.data = "none" /\ Idle.errors = 0
  BY TierFacts DEF Idle, OpRecord, Answers, Objects
<1>2. ASSUME NEW c \in OpRecord
      PROVE  [c EXCEPT !.kind = kind, !.ref = r, !.at = w] \in OpRecord
  BY Zenon DEF OpRecord
<1> HIDE DEF Idle
<1> DEFINE c == [Idle EXCEPT !.kind = kind, !.ref = r, !.at = w]
<1>3. c \in OpRecord
  BY <1>1, <1>2
<1>4. /\ c.kind = kind /\ c.ref = r /\ c.tier = 1 /\ c.at = w
      /\ c.answer = "ok" /\ c.data = "none" /\ c.errors = 0
  BY <1>1 DEF OpRecord
<1>5. op' = [op EXCEPT ![a] = c]
  OBVIOUS
<1> HIDE DEF c
<1>6. op \in [Agents -> OpRecord]
  BY DEF Types
<1>7. /\ op' \in [Agents -> OpRecord] /\ op'[a] = c
      /\ \A x \in Agents \ {a} : op'[x] = op[x]
  BY <1>3, <1>5, <1>6, OpBecomes
<1> QED
  BY <1>4, <1>7 DEF OpMoves

LEMMA SweepMoves ==
    ASSUME Types, NEW t \in Nat \ {0}, SweepGoesTo(t)
    PROVE  \/ OpEnds(Sweeper) /\ agenda' = <<>>
           \/ /\ t \in Tiers /\ agenda' \in Agendas(t)
              /\ OpMoves(Sweeper, "evict", NoRef, t, "pick", "ok", "none", 0)
<1>1. CASE t > N
  BY <1>1, EndsMoves DEF SweepGoesTo, Agents
<1>2. CASE ~(t > N)
  <2>1. t \in Tiers /\ agenda' \in Agendas(t)
    BY <1>2, TieredAssumption DEF SweepGoesTo, Tiers
  <2>2. /\ Idle \in OpRecord /\ Idle.ref = NoRef
        /\ Idle.answer = "ok" /\ Idle.data = "none" /\ Idle.errors = 0
    BY TierFacts DEF Idle, OpRecord, Answers, Objects
  <2>3. ASSUME NEW c \in OpRecord
        PROVE  [c EXCEPT !.kind = "evict", !.tier = t, !.at = "pick"] \in OpRecord
    BY <2>1, Zenon DEF OpRecord
  <2> HIDE DEF Idle
  <2> DEFINE c == [Idle EXCEPT !.kind = "evict", !.tier = t, !.at = "pick"]
  <2>4. c \in OpRecord
    BY <2>2, <2>3
  <2>5. /\ c.kind = "evict" /\ c.ref = NoRef /\ c.tier = t /\ c.at = "pick"
        /\ c.answer = "ok" /\ c.data = "none" /\ c.errors = 0
    BY <2>2 DEF OpRecord
  <2>6. op' = [op EXCEPT ![Sweeper] = c]
    BY <1>2 DEF SweepGoesTo
  <2> HIDE DEF c
  <2> QED
    BY <2>1, <2>4, <2>5, <2>6 DEF Types, OpMoves, Agents
<1> QED
  BY <1>1, <1>2

Promotes(j, h, w, d, n) ==
    op' = [op EXCEPT ![j].kind = "promote", ![j].data = d, ![j].errors = n,
                     ![j].tier = h, ![j].at = w, ![j].answer = "ok"]

LEMMA PromoteMoves ==
    ASSUME Types, NEW j \in Jobs, NEW h \in Tiers, NEW d \in {"whole", "torn"},
           NEW n \in Nat, NEW w \in {"sent", "run"}, Promotes(j, h, w, d, n)
    PROVE  OpMoves(j, "promote", op[j].ref, h, w, "ok", d, n)
<1> DEFINE f == [op EXCEPT ![j].kind = "promote", ![j].data = d, ![j].errors = n]
           c == [op[j] EXCEPT !.kind = "promote", !.data = d, !.errors = n]
           e == [f[j] EXCEPT !.tier = h, !.at = w, !.answer = "ok"]
<1>1. op[j] \in OpRecord /\ op \in [Agents -> OpRecord] /\ j \in Agents
  BY DEF Types, Agents
<1>2. ASSUME NEW r \in OpRecord
      PROVE  [r EXCEPT !.kind = "promote", !.data = d, !.errors = n] \in OpRecord
  BY Zenon DEF OpRecord, Objects
<1>3. ASSUME NEW r \in OpRecord
      PROVE  [r EXCEPT !.tier = h, !.at = w, !.answer = "ok"] \in OpRecord
  BY Zenon DEF OpRecord, Answers
<1>4. c \in OpRecord
  BY <1>1, <1>2
<1>5. c.kind = "promote" /\ c.ref = op[j].ref /\ c.data = d /\ c.errors = n
  BY <1>1 DEF OpRecord
<1>6. f = [op EXCEPT ![j] = c]
  OBVIOUS
<1>7. op' = [f EXCEPT ![j].tier = h, ![j].at = w, ![j].answer = "ok"]
  BY DEF Promotes
<1> HIDE DEF c
<1>8. f \in [Agents -> OpRecord] /\ f[j] = c /\ \A b \in Agents \ {j} : f[b] = op[b]
  BY <1>1, <1>4, <1>6, OpBecomes
<1> HIDE DEF f
<1>9. op' = [f EXCEPT ![j] = e]
  BY <1>7
<1>10. e \in OpRecord
  BY <1>3, <1>4, <1>8
<1>11. e.kind = "promote" /\ e.ref = op[j].ref /\ e.data = d /\ e.errors = n
       /\ e.tier = h /\ e.at = w /\ e.answer = "ok"
  BY <1>4, <1>5, <1>8 DEF OpRecord
<1> HIDE DEF e
<1>12. /\ op' \in [Agents -> OpRecord] /\ op'[j] = e
       /\ \A b \in Agents \ {j} : op'[b] = op[b]
  BY <1>1, <1>8, <1>9, <1>10, OpBecomes
<1> QED
  BY <1>11, <1>12 DEF OpMoves

LEMMA DeleteMoves ==
    ASSUME Types, NEW j \in Jobs, DeleteGoesOn(j)
    PROVE  /\ op[j].tier + 1 \in Tiers
           /\ OpMoves(j, op[j].kind, op[j].ref, op[j].tier + 1, Calls(op[j].tier + 1), "ok",
                      op[j].data, Errors(j))
<1>1. op[j] \in OpRecord /\ op[j].tier + 1 \in Tiers /\ Errors(j) \in Nat
  BY TierFacts DEF Types, Agents, OpRecord, DeleteGoesOn, Errors
<1>2. Calls(op[j].tier + 1) \in {"sent", "run"}
  BY <1>1, TierFacts
<1>3. ASSUME NEW c \in OpRecord, NEW t \in Tiers, NEW n \in Nat, NEW w \in {"sent", "run"}
      PROVE  [c EXCEPT !.tier = t, !.at = w, !.errors = n, !.answer = "ok"] \in OpRecord
  BY Zenon DEF OpRecord, Answers
<1> DEFINE c == [op[j] EXCEPT !.tier = op[j].tier + 1, !.at = Calls(op[j].tier + 1),
                              !.errors = Errors(j), !.answer = "ok"]
<1>4. c \in OpRecord
  BY <1>1, <1>2, <1>3
<1>5. /\ c.kind = op[j].kind /\ c.ref = op[j].ref /\ c.tier = op[j].tier + 1
      /\ c.at = Calls(op[j].tier + 1)
      /\ c.answer = "ok" /\ c.data = op[j].data /\ c.errors = Errors(j)
  BY <1>1 DEF OpRecord
<1>6. op' = [op EXCEPT ![j] = c]
  BY DEF DeleteGoesOn
<1> HIDE DEF c
<1> QED
  BY <1>1, <1>4, <1>5, <1>6 DEF Types, OpMoves, Agents

LEMMA EvictMoves ==
    ASSUME Types, Evict
    PROVE  /\ agenda # <<>> /\ Head(agenda) = agenda[1] /\ 1 \in DOMAIN agenda
           /\ agenda[1] \in Refs /\ agenda' = Tail(agenda) /\ agenda' \in Seq(Refs)
           /\ \A i \in DOMAIN agenda' : i + 1 \in DOMAIN agenda /\ agenda'[i] = agenda[i + 1]
           /\ OpMoves(Sweeper, op[Sweeper].kind, agenda[1], op[Sweeper].tier,
                      Calls(op[Sweeper].tier), op[Sweeper].answer,
                      op[Sweeper].data, op[Sweeper].errors)
<1>1. agenda # <<>> /\ agenda \in Seq(Refs) /\ agenda' = Tail(agenda)
  BY DEF Evict, Done, Types
<1>2. /\ Head(agenda) = agenda[1] /\ 1 \in DOMAIN agenda /\ agenda[1] \in Refs
      /\ agenda' \in Seq(Refs)
      /\ \A i \in DOMAIN agenda' : i + 1 \in DOMAIN agenda /\ agenda'[i] = agenda[i + 1]
  BY <1>1
<1>3. op[Sweeper] \in OpRecord /\ Calls(op[Sweeper].tier) \in {"sent", "run"}
  BY TierFacts DEF Types, Agents, OpRecord
<1>4. ASSUME NEW c \in OpRecord, NEW r \in Refs, NEW w \in {"sent", "run"}
      PROVE  [c EXCEPT !.ref = r, !.at = w] \in OpRecord
  BY Zenon DEF OpRecord
<1> DEFINE c == [op[Sweeper] EXCEPT !.ref = agenda[1], !.at = Calls(op[Sweeper].tier)]
<1>5. c \in OpRecord
  BY <1>2, <1>3, <1>4
<1>6. /\ c.kind = op[Sweeper].kind /\ c.ref = agenda[1] /\ c.tier = op[Sweeper].tier
      /\ c.at = Calls(op[Sweeper].tier) /\ c.answer = op[Sweeper].answer
      /\ c.data = op[Sweeper].data /\ c.errors = op[Sweeper].errors
  BY <1>3 DEF OpRecord
<1>7. op' = [op EXCEPT ![Sweeper] = c]
  BY <1>2 DEF Evict
<1> HIDE DEF c
<1> QED
  BY <1>1, <1>2, <1>5, <1>6, <1>7 DEF Types, OpMoves, Agents

LEMMA EvictedMoves ==
    ASSUME Types, Evicted
    PROVE  OpMoves(Sweeper, op[Sweeper].kind, NoRef, op[Sweeper].tier, "pick", "ok",
                   op[Sweeper].data, op[Sweeper].errors)
<1>1. op[Sweeper] \in OpRecord
  BY DEF Types, Agents
<1>2. ASSUME NEW c \in OpRecord
      PROVE  [c EXCEPT !.at = "pick", !.ref = NoRef, !.answer = "ok"] \in OpRecord
  BY Zenon DEF OpRecord, Answers
<1> DEFINE c == [op[Sweeper] EXCEPT !.at = "pick", !.ref = NoRef, !.answer = "ok"]
<1>3. c \in OpRecord
  BY <1>1, <1>2
<1>4. /\ c.kind = op[Sweeper].kind /\ c.ref = NoRef /\ c.tier = op[Sweeper].tier
      /\ c.at = "pick" /\ c.answer = "ok"
      /\ c.data = op[Sweeper].data /\ c.errors = op[Sweeper].errors
  BY <1>1 DEF OpRecord
<1>5. op' = [op EXCEPT ![Sweeper] = c]
  BY DEF Evicted
<1> HIDE DEF c
<1> QED
  BY <1>3, <1>4, <1>5 DEF Types, OpMoves, Agents

LEMMA FoundMoves ==
    ASSUME Types, NEW j \in Jobs, GetFound(j)
    PROVE  \/ OpEnds(j)
           \/ /\ op[j].ref \in meta
              /\ \E h \in Tiers :
                    /\ h < op[j].tier
                    /\ OpMoves(j, "promote", op[j].ref, h, Calls(h), "ok",
                               op[j].answer, op[j].tier)
<1> DEFINE up == Above(1, op[j].tier)
<1>1. op[j].tier \in Nat /\ up \subseteq Tiers /\ up \subseteq Nat
      /\ \A t \in up : t < op[j].tier
  BY TierFacts, TieredAssumption DEF Types, Agents, OpRecord, Above
<1> HIDE DEF up
<1>2. CASE op[j].ref \in meta /\ up # {}
  <2>1. Highest(up) \in up
    BY <1>1, <1>2, HighestIs
  <2>2. Promotes(j, Highest(up), Calls(Highest(up)), op[j].answer, op[j].tier)
    BY <1>2 DEF GetFound, Promotes, up
  <2>3. op[j].answer \in {"whole", "torn"} /\ Calls(Highest(up)) \in {"sent", "run"}
    BY <1>1, <2>1, TierFacts DEF GetFound
  <2>4. OpMoves(j, "promote", op[j].ref, Highest(up), Calls(Highest(up)), "ok",
                op[j].answer, op[j].tier)
    BY <1>1, <2>1, <2>2, <2>3, PromoteMoves
  <2> QED
    BY <1>1, <1>2, <2>1, <2>4
<1>3. CASE ~(op[j].ref \in meta /\ up # {})
  <2>1. Ends(j) /\ j \in Agents
    BY <1>3 DEF GetFound, Agents, up
  <2> QED
    BY <2>1, EndsMoves
<1> QED
  BY <1>2, <1>3

LEMMA PromotedMoves ==
    ASSUME Types, NEW j \in Jobs, Promoted(j)
    PROVE  \/ OpEnds(j)
           \/ \E h \in Tiers :
                 /\ h < op[j].errors
                 /\ OpMoves(j, "promote", op[j].ref, h, Calls(h), "ok",
                            op[j].data, op[j].errors)
<1> DEFINE up == Above(op[j].tier + 1, op[j].errors)
<1>1. up \subseteq Tiers /\ up \subseteq Nat /\ \A t \in up : t < op[j].errors
  BY TierFacts, TieredAssumption DEF Types, Agents, OpRecord, Above
<1> HIDE DEF up
<1>2. CASE up # {}
  <2>1. Highest(up) \in up
    BY <1>1, <1>2, HighestIs
  <2>2. Goes(j, "promote", Highest(up)) /\ j \in Agents
    BY <1>2 DEF Promoted, Agents, up
  <2> QED
    BY <1>1, <2>1, <2>2, GoesMoves
<1>3. CASE up = {}
  <2>1. Ends(j) /\ j \in Agents
    BY <1>3 DEF Promoted, Agents, up
  <2> QED
    BY <2>1, EndsMoves
<1> QED
  BY <1>2, <1>3

(***************************************************************************)
(* What the stores make of the objects.                                    *)
(***************************************************************************)

ObjectMoves(t, r) ==
    /\ stored' \in [Tiers -> [Refs -> Objects]]
    /\ \A u \in Tiers, q \in Refs : u # t \/ q # r => stored'[u][q] = stored[u][q]

LEMMA ObjectBecomes ==
    ASSUME Types, NEW t \in Tiers, NEW r \in Refs, NEW o \in Objects,
           stored' = [stored EXCEPT ![t][r] = o]
    PROVE  ObjectMoves(t, r) /\ stored'[t][r] = o
BY DEF Types, ObjectMoves

Served(a) ==
    LET t == op[a].tier
        r == op[a].ref
        was == stored[t][r]
        is == stored'[t][r]
        answer == op'[a].answer
        kind == op[a].kind IN
    /\ Waits(a) /\ kind \in {"get", "promote", "delete", "evict"} /\ r \in Refs
    /\ OpMoves(a, kind, r, t, IF op[a].at = "run" THEN "ran" ELSE "answered", answer,
               op[a].data, op[a].errors)
    /\ ObjectMoves(t, r)
    /\ kind = "get" =>
          /\ is = was /\ answer \in {"whole", "torn", "missing", "error"}
          /\ answer = "missing" => was = "none" \/ (Kind[t] = "minio" /\ Faults)
    /\ kind = "promote" =>
          /\ answer \in {"ok", "error"} /\ (was # "none" => is # "none")
    /\ kind \in {"delete", "evict"} =>
          /\ is \in {was, "none"} /\ answer \in {"ok", "missing", "error"}
          /\ answer # "error" /\ ~(answer = "missing" /\ Kind[t] = "minio") => is = "none"
          /\ Kind[t] = "minio" /\ ~Faults => is = "none"

LEMMA ServeMoves ==
    ASSUME Types, References, Shapes, NEW a \in Agents, Serve(a)
    PROVE  Served(a)
<1> DEFINE t == op[a].tier
           r == op[a].ref
           was == stored[t][r]
<1>1. /\ op[a] \in OpRecord /\ t \in Tiers /\ Kind[t] \in KindOf
      /\ op[a].at \in {"run", "sent"} /\ Waits(a)
  BY TierFacts DEF Types, OpRecord, Serve, Waits
<1>2. op[a].kind \in {"get", "promote", "delete", "evict"} /\ r \in Refs
  BY <1>1 DEF OpRecord, Shapes, OpShapes, OpShape, PutShapes, Waits, References
<1>3. was \in Objects /\ op[a].data \in Objects
  BY <1>1, <1>2 DEF Types, OpRecord
<1>4. PICK o \in Effects(a) :
         /\ stored' = [stored EXCEPT ![t][r] = o.object]
         /\ op' = [op EXCEPT ![a].answer = o.answer,
                             ![a].at = IF @ = "run" THEN "ran" ELSE "answered"]
  BY DEF Serve
<1>5. /\ op[a].kind = "get" => o \in Gets(Kind[t], was)
      /\ op[a].kind = "promote" => o \in Puts(Kind[t], was, op[a].data)
      /\ op[a].kind \in {"delete", "evict"} => o \in Deletes(Kind[t], was)
  BY DEF Effects
<1>6. /\ o.object \in Objects /\ o.answer \in Answers
      /\ op[a].kind = "get" =>
            /\ o.object = was /\ o.answer \in {"whole", "torn", "missing", "error"}
            /\ o.answer = "missing" => was = "none" \/ (Kind[t] = "minio" /\ Faults)
      /\ op[a].kind = "promote" =>
            /\ o.answer \in {"ok", "error"}
            /\ was # "none" /\ op[a].data # "none" => o.object # "none"
      /\ op[a].kind \in {"delete", "evict"} =>
            /\ o.object \in {was, "none"} /\ o.answer \in {"ok", "missing", "error"}
            /\ o.answer # "error" /\ ~(o.answer = "missing" /\ Kind[t] = "minio")
                  => o.object = "none"
            /\ Kind[t] = "minio" /\ ~Faults => o.object = "none"
  <2>1. CASE op[a].kind = "get"
    BY <1>1, <1>3, <1>5, <2>1, GetsMean DEF Answers
  <2>2. CASE op[a].kind = "promote"
    BY <1>1, <1>3, <1>5, <2>2, PutsMean DEF Answers
  <2>3. CASE op[a].kind \in {"delete", "evict"}
    <3>1. o \in Deletes(Kind[t], was)
      BY <1>5, <2>3
    <3>2. /\ o.object \in {was, "none"} /\ o.answer \in {"ok", "missing", "error"}
          /\ o.answer # "error" /\ ~(o.answer = "missing" /\ Kind[t] = "minio")
                => o.object = "none"
          /\ Kind[t] = "minio" /\ ~Faults => o.object = "none"
      BY <1>1, <1>3, <3>1, DeletesMean
    <3>3. o.object \in Objects /\ o.answer \in Answers
      BY <1>3, <3>2 DEF Objects, Answers
    <3> QED
      BY <2>3, <3>2, <3>3
  <2> QED
    BY <1>2, <2>1, <2>2, <2>3
<1>7. ObjectMoves(t, r) /\ stored'[t][r] = o.object
  <2>1. o.object \in Objects
    BY <1>6
  <2>2. stored' = [stored EXCEPT ![t][r] = o.object]
    BY <1>4
  <2> HIDE DEF t, r
  <2> QED
    BY <1>1, <1>2, <2>1, <2>2, ObjectBecomes
<1>8. OpMoves(a, op[a].kind, r, t, IF op[a].at = "run" THEN "ran" ELSE "answered",
              o.answer, op[a].data, op[a].errors)
  <2> DEFINE w == IF op[a].at = "run" THEN "ran" ELSE "answered"
             c == [op[a] EXCEPT !.answer = o.answer, !.at = w]
  <2>1. op' = [op EXCEPT ![a] = c]
    BY <1>4
  <2>2. \A e \in OpRecord, v \in {"ran", "answered"}, n \in Answers :
           [e EXCEPT !.answer = n, !.at = v] \in OpRecord
    BY DEF OpRecord
  <2>3. c \in OpRecord
    BY <1>1, <1>6, <2>2
  <2>4. /\ c.kind = op[a].kind /\ c.ref = r /\ c.tier = t /\ c.at = w
        /\ c.answer = o.answer /\ c.data = op[a].data /\ c.errors = op[a].errors
    BY <1>1 DEF OpRecord
  <2> HIDE DEF c
  <2> QED
    BY <2>1, <2>3, <2>4 DEF Types, OpMoves
<1>9. op'[a].answer = o.answer
  BY <1>8 DEF OpMoves
<1>10. op[a].kind = "promote" => op[a].data # "none"
  BY DEF Shapes, OpShapes, OpShape, PutShapes
<1> HIDE DEF was
<1> QED
  BY <1>1, <1>2, <1>6, <1>7, <1>8, <1>9, <1>10 DEF Served, was

WriteMoves(j, t, state) ==
    /\ writes' \in [Jobs -> [Tiers -> WriteState]]
    /\ \A i \in Jobs, u \in Tiers : i # j \/ u # t => writes'[i][u] = writes[i][u]
    /\ writes'[j][t] = state

LEMMA WriteBecomes ==
    ASSUME Types, NEW j \in Jobs, NEW t \in Tiers, NEW state \in WriteState,
           WriteGoes(j, t, state)
    PROVE  WriteMoves(j, t, state)
BY DEF Types, WriteMoves, WriteGoes

(* A tier answered the put, or holds what the answer on its way says.         *)
Wrote(j, t) ==
    LET r == op[j].ref
        state == writes'[j][t] IN
    /\ op[j].kind = "put" /\ r \in issued \ (known \cup trees) /\ writes[j][t] = "start"
    /\ ObjectMoves(t, r) /\ WriteMoves(j, t, state)
    /\ state \in {"stored", "refused", "ok", "failed"}
    /\ state \in {"stored", "ok"} => stored'[t][r] = "whole"
    /\ forgotten' = {p \in forgotten \cup (IF state \in {"refused", "failed"} THEN {<<t, r>>} ELSE {}) :
                       stored'[p[1]][p[2]] # "none"}
    /\ tracked' = IF state = "ok" THEN [tracked EXCEPT ![t] = @ \cup {r}] ELSE tracked

LEMMA WriteWrites ==
    ASSUME Types, References, Shapes, NEW j \in Jobs, NEW t \in Tiers, Write(j, t)
    PROVE  Wrote(j, t)
<1> DEFINE r == op[j].ref
           was == stored[t][r]
<1>1. /\ writes[j][t] = "start" /\ op[j].kind = "put" /\ r \in issued \ (known \cup trees)
      /\ r \in Refs
  BY DEF Write, Shapes, OpShapes, OpShape, PutShapes, Agents, References
<1>2. Kind[t] \in KindOf /\ was \in Objects /\ "whole" \in Objects
  BY <1>1, TierFacts DEF Types, Objects
<1>3. PICK o \in Puts(Kind[t], was, "whole") :
         /\ stored' = [stored EXCEPT ![t][r] = o.object]
         /\ Forgets(IF o.answer = "error" THEN {<<t, r>>} ELSE {})
         /\ IF Kind[t] = "postgres"
            THEN /\ WriteGoes(j, t, IF o.answer = "ok" THEN "stored" ELSE "refused")
                 /\ tracked' = tracked
            ELSE /\ WriteGoes(j, t, IF o.answer = "ok" THEN "ok" ELSE "failed")
                 /\ tracked' = IF o.answer = "ok" THEN [tracked EXCEPT ![t] = @ \cup {r}]
                               ELSE tracked
  BY DEF Write
<1>4. o.object \in Objects /\ o.answer \in {"ok", "error"}
      /\ (o.answer = "ok" => o.object = "whole")
  BY <1>2, PutsMean
<1>5. ObjectMoves(t, r) /\ stored'[t][r] = o.object
  BY <1>1, <1>3, <1>4, ObjectBecomes
<1> DEFINE state == IF Kind[t] = "postgres"
                    THEN IF o.answer = "ok" THEN "stored" ELSE "refused"
                    ELSE IF o.answer = "ok" THEN "ok" ELSE "failed"
<1>6. WriteMoves(j, t, state) /\ writes'[j][t] = state
  <2>1. WriteGoes(j, t, state) /\ state \in WriteState
    BY <1>3 DEF WriteState
  <2> QED
    BY <2>1, WriteBecomes DEF WriteMoves
<1>7. tracked' = IF state = "ok" THEN [tracked EXCEPT ![t] = @ \cup {r}] ELSE tracked
  BY <1>3
<1>8. o.answer = "error" <=> state \in {"refused", "failed"}
  BY <1>4
<1>9. state \in {"stored", "refused", "ok", "failed"}
  OBVIOUS
<1> HIDE DEF state, was
<1>10. forgotten' = {p \in forgotten \cup (IF state \in {"refused", "failed"} THEN {<<t, r>>} ELSE {}) :
                       stored'[p[1]][p[2]] # "none"}
  BY <1>3, <1>8 DEF Forgets
<1>11. state \in {"stored", "ok"} => o.answer = "ok"
  BY <1>4, <1>8
<1> QED
  BY <1>1, <1>4, <1>5, <1>6, <1>7, <1>9, <1>10, <1>11 DEF Wrote

LEMMA SeqOfSet ==
    ASSUME NEW S, IsFiniteSet(S), NEW s \in SetToSeqs(S)
    PROVE  s \in Seq(S)
BY FS_CardinalityType DEF SetToSeqs

(* What _evict_tier goes through is tracked in a tier that evicts.           *)
LEMMA AgendaTracked ==
    ASSUME Types, NEW t \in Tiers, NEW s \in Agendas(t)
    PROVE  /\ s \in Seq(Refs) /\ \A i \in DOMAIN s : s[i] \in tracked[t]
           /\ s # <<>> => t \in LRU \cup TTL
<1>1. IsFiniteSet(tracked[t]) /\ tracked[t] \subseteq Refs
  BY DEF Types
<1>2. CASE t \in LRU
  <2>1. s \in Oldest(t)
    BY <1>2, TieredAssumption DEF Agendas
  <2>2. s \in SetToSeqs(tracked[t])
    BY <2>1, Zenon DEF Oldest
  <2>3. s \in Seq(tracked[t])
    BY <1>1, <2>2, SeqOfSet
  <2> QED
    BY <1>1, <1>2, <2>3
<1>3. CASE t \in TTL /\ t \notin LRU
  <2>1. PICK S \in SUBSET tracked[t] : s \in SetToSeqs(S)
    BY <1>3 DEF Agendas
  <2>2. IsFiniteSet(S)
    BY <1>1, <2>1, FS_Subset
  <2>3. s \in Seq(S)
    BY <2>1, <2>2, SeqOfSet
  <2> QED
    BY <1>1, <1>3, <2>1, <2>3
<1>4. CASE t \notin LRU \cup TTL
  <2>1. s = <<>>
    BY <1>4 DEF Agendas
  <2> QED
    BY <2>1
<1> QED
  BY <1>2, <1>3, <1>4

(***************************************************************************)
(* The steps.                                                              *)
(***************************************************************************)

LEMMA FiniteTracked ==
    ASSUME Types, NEW t \in Tiers, NEW r \in Refs
    PROVE  /\ IsFiniteSet(tracked[t] \cup {r}) /\ IsFiniteSet(tracked[t] \ {r})
           /\ [tracked EXCEPT ![t] = @ \cup {r}] \in [Tiers -> SUBSET Refs]
           /\ [tracked EXCEPT ![t] = @ \ {r}] \in [Tiers -> SUBSET Refs]
BY FS_AddElement, FS_Subset DEF Types

TrackedTypes ==
    tracked \in [Tiers -> SUBSET Refs] /\ \A t \in Tiers : IsFiniteSet(tracked[t])

LEMMA TracksMoves ==
    ASSUME Types, NEW t \in Tiers, NEW r \in Refs,
           \/ tracked' = [tracked EXCEPT ![t] = @ \cup {r}]
           \/ tracked' = [tracked EXCEPT ![t] = @ \ {r}]
           \/ tracked' = tracked
    PROVE  TrackedTypes'
<1>1. CASE tracked' = [tracked EXCEPT ![t] = @ \cup {r}]
  BY <1>1, FiniteTracked DEF Types, TrackedTypes
<1>2. CASE tracked' = [tracked EXCEPT ![t] = @ \ {r}]
  BY <1>2, FiniteTracked DEF Types, TrackedTypes
<1>3. CASE tracked' = tracked
  BY <1>3 DEF Types, TrackedTypes
<1> QED
  BY <1>1, <1>2, <1>3

LEMMA TypeStep ==
    ASSUME Types, References, Shapes, Next
    PROVE  Types'
<1>0. /\ stored \in [Tiers -> [Refs -> Objects]] /\ TrackedTypes
      /\ op \in [Agents -> OpRecord] /\ writes \in [Jobs -> [Tiers -> WriteState]]
      /\ agenda \in Seq(Refs) /\ forgotten \subseteq Tiers \X Refs
      /\ \A a \in Agents : op[a].tier \in Tiers
      /\ Jobs \subseteq Agents /\ Sweeper \in Agents
  BY DEF Types, TrackedTypes, OpRecord, Agents
<1>r. \A a \in Agents : op[a].kind \in {"get", "promote", "delete"} => op[a].ref \in Refs
  BY DEF Shapes, OpShapes, OpShape, PutShapes, References
<1>1. ASSUME NEW a \in Agents, Serve(a) PROVE Types'
  <2>1. Served(a)
    BY <1>1, ServeMoves
  <2>2. /\ stored' \in [Tiers -> [Refs -> Objects]] /\ op' \in [Agents -> OpRecord]
        /\ op[a].ref \in Refs
    BY <2>1 DEF Served, ObjectMoves, OpMoves
  <2>3. forgotten' \subseteq Tiers \X Refs
    BY <1>0, <1>1, <2>2 DEF Serve, Forgets
  <2> QED
    BY <1>0, <1>1, <2>2, <2>3 DEF Serve, memory, Types, TrackedTypes
<1>2. ASSUME NEW j \in Jobs, NEW r \in Refs, PutBegins(j, r) PROVE Types'
  <2>1. OpMoves(j, "put", r, 1, "gather", "ok", "none", 0)
    BY <1>0, <1>2, BeginMoves DEF PutBegins
  <2>2. writes' \in [Jobs -> [Tiers -> WriteState]]
    BY <1>0, <1>2 DEF PutBegins, WriteState
  <2> QED
    BY <1>0, <1>2, <2>1, <2>2 DEF PutBegins, OpMoves, memory, Types, TrackedTypes
<1>3. ASSUME NEW j \in Jobs, NEW r \in Refs, PutTree(j, r) PROVE Types'
  <2>1. stored' \in [Tiers -> [Refs -> Objects]]
    BY <1>0, <1>3, TierFacts DEF PutTree, Objects
  <2> QED
    BY <1>0, <1>3, <2>1 DEF PutTree, memory, Types, TrackedTypes
<1>4. ASSUME NEW j \in Jobs, NEW r \in Refs, GetBegins(j, r) PROVE Types'
  <2>1. OpMoves(j, "get", r, 1, Calls(1), "ok", "none", 0)
    BY <1>0, <1>4, TierFacts, BeginMoves DEF GetBegins
  <2> QED
    BY <1>0, <1>4, <2>1 DEF GetBegins, OpMoves, history, Types, TrackedTypes
<1>5. ASSUME NEW j \in Jobs, NEW r \in Refs, DeleteBegins(j, r) PROVE Types'
  <2>1. OpMoves(j, "delete", r, 1, Calls(1), "ok", "none", 0)
    BY <1>0, <1>5, TierFacts, BeginMoves DEF DeleteBegins
  <2> QED
    BY <1>0, <1>5, <2>1 DEF DeleteBegins, OpMoves, memory, Types, TrackedTypes
<1>6. ASSUME NEW j \in Jobs, NEW t \in Tiers, Write(j, t) PROVE Types'
  <2>1. Wrote(j, t)
    BY <1>6, WriteWrites
  <2>2. op[j].ref \in Refs
    BY <2>1 DEF Wrote, References
  <2>3. TrackedTypes'
    BY <2>1, <2>2, TracksMoves DEF Wrote
  <2>4. forgotten' \subseteq Tiers \X Refs
    BY <1>0, <2>1, <2>2 DEF Wrote
  <2> QED
    BY <1>0, <1>6, <2>1, <2>3, <2>4
       DEF Write, Wrote, ObjectMoves, WriteMoves, Types, TrackedTypes
<1>7. ASSUME NEW j \in Jobs, NEW t \in Tiers, Written(j, t) PROVE Types'
  <2>1. op[j].ref \in Refs
    BY <1>0, <1>7 DEF Written, Shapes, OpShapes, OpShape, PutShapes, References
  <2>2. TrackedTypes'
    BY <1>7, <2>1, TracksMoves DEF Written
  <2>3. WriteGoes(j, t, "ok") \/ WriteGoes(j, t, "failed")
    BY <1>7 DEF Written
  <2>4. writes' \in [Jobs -> [Tiers -> WriteState]]
    BY <2>3, WriteBecomes DEF WriteState, WriteMoves
  <2> QED
    BY <1>0, <1>7, <2>2, <2>4 DEF Written, history, Types, TrackedTypes
<1>8. ASSUME NEW j \in Jobs, PutOver(j),
             UNCHANGED <<stored, tracked, agenda, forgotten>>
      PROVE  Types'
  <2>1. OpEnds(j) /\ writes' \in [Jobs -> [Tiers -> WriteState]]
    BY <1>0, <1>8, EndsMoves DEF PutOver, WriteState
  <2> QED
    BY <1>0, <1>8, <2>1 DEF OpEnds, OpMoves, Types, TrackedTypes
<1>9. ASSUME NEW j \in Jobs, PutReturns(j) \/ PutRaises(j) PROVE Types'
  BY <1>8, <1>9 DEF PutReturns, PutRaises, memory, history
<1>10. ASSUME NEW j \in Jobs, PutCancelled(j) PROVE Types'
  <2>1. OpEnds(j) /\ writes' \in [Jobs -> [Tiers -> WriteState]]
    BY <1>0, <1>10, EndsMoves DEF PutCancelled, WriteState
  <2>2. op[j].ref \in Refs
    BY <1>0, <1>10 DEF PutCancelled, Shapes, OpShapes, OpShape, PutShapes, References
  <2>3. forgotten' \subseteq Tiers \X Refs
    BY <1>0, <1>10, <2>2 DEF PutCancelled
  <2> QED
    BY <1>0, <1>10, <2>1, <2>3 DEF PutCancelled, OpEnds, OpMoves, memory, Types, TrackedTypes
<1>11. ASSUME NEW j \in Jobs, op' \in [Agents -> OpRecord],
              UNCHANGED <<stored, writes, agenda, forgotten>>, TrackedTypes'
       PROVE  Types'
  BY <1>0, <1>11 DEF Types, TrackedTypes
<1>12. ASSUME NEW j \in Jobs, GetMisses(j) PROVE Types'
  <2>1. op' \in [Agents -> OpRecord]
    BY <1>0, <1>12, TierFacts, GoesMoves, EndsMoves DEF GetMisses, OpEnds, OpMoves
  <2> QED
    BY <1>0, <1>11, <1>12, <2>1 DEF GetMisses, memory, TrackedTypes
<1>13. ASSUME NEW j \in Jobs, GetRaises(j) PROVE Types'
  BY <1>0, <1>11, <1>13, EndsMoves DEF GetRaises, OpEnds, OpMoves, memory, history, TrackedTypes
<1>14. ASSUME NEW j \in Jobs, GetFound(j) PROVE Types'
  <2>1. op' \in [Agents -> OpRecord]
    BY <1>14, FoundMoves DEF OpEnds, OpMoves
  <2> QED
    BY <1>0, <1>11, <1>14, <2>1 DEF GetFound, memory, history, TrackedTypes
<1>15. ASSUME NEW j \in Jobs, Promoted(j) PROVE Types'
  <2>1. op' \in [Agents -> OpRecord]
    BY <1>15, PromotedMoves DEF OpEnds, OpMoves
  <2>2. TrackedTypes'
    BY <1>0, <1>r, <1>15, TracksMoves DEF Promoted, Ready
  <2> QED
    BY <1>11, <1>15, <2>1, <2>2 DEF Promoted, history
<1>16. ASSUME NEW j \in Jobs, DeleteGoesOn(j) PROVE Types'
  <2>1. op' \in [Agents -> OpRecord]
    BY <1>16, DeleteMoves DEF OpMoves
  <2>2. TrackedTypes'
    BY <1>0, <1>r, <1>16, TracksMoves DEF DeleteGoesOn, Discards, Ready
  <2> QED
    BY <1>11, <1>16, <2>1, <2>2 DEF DeleteGoesOn
<1>17. ASSUME NEW j \in Jobs, DeleteEnds(j) PROVE Types'
  <2>1. op' \in [Agents -> OpRecord]
    BY <1>0, <1>17, EndsMoves DEF DeleteEnds, OpEnds, OpMoves
  <2>2. TrackedTypes'
    BY <1>0, <1>r, <1>17, TracksMoves DEF DeleteEnds, Discards, Ready
  <2> QED
    BY <1>11, <1>17, <2>1, <2>2 DEF DeleteEnds
<1>18. ASSUME NEW j \in Jobs, CallCancelled(j) PROVE Types'
  <2>1. OpEnds(j)
    BY <1>0, <1>18, EndsMoves DEF CallCancelled
  <2>2. forgotten' \subseteq Tiers \X Refs
    BY <1>0, <1>r, <1>18 DEF CallCancelled
  <2> QED
    BY <1>0, <1>18, <2>1, <2>2 DEF CallCancelled, OpEnds, OpMoves, memory, Types, TrackedTypes
<1>19. ASSUME NEW t \in Nat \ {0}, SweepGoesTo(t),
              UNCHANGED <<stored, tracked, writes, forgotten>>
       PROVE  Types'
  <2>1. \/ OpEnds(Sweeper) /\ agenda' = <<>>
        \/ /\ t \in Tiers /\ agenda' \in Agendas(t)
           /\ OpMoves(Sweeper, "evict", NoRef, t, "pick", "ok", "none", 0)
    BY <1>19, SweepMoves
  <2>2. op' \in [Agents -> OpRecord]
    BY <2>1 DEF OpEnds, OpMoves
  <2>3. agenda' = <<>> => agenda' \in Seq(Refs)
    OBVIOUS
  <2>4. ASSUME t \in Tiers, NEW s \in Agendas(t), agenda' = s
        PROVE  agenda' \in Seq(Refs)
    BY <2>4, AgendaTracked
  <2>5. agenda' \in Seq(Refs)
    BY <2>1, <2>3, <2>4
  <2> QED
    BY <1>0, <1>19, <2>2, <2>5 DEF Types, TrackedTypes
<1>20. ASSUME SweepBegins \/ SweepNextTier PROVE Types'
  <2>1. op[Sweeper].tier + 1 \in Nat \ {0}
    BY <1>0, TierFacts
  <2> QED
    BY <1>19, <1>20, <2>1 DEF SweepBegins, SweepNextTier, memory, history
<1>21. ASSUME Evict PROVE Types'
  BY <1>0, <1>21, EvictMoves DEF Evict, OpMoves, memory, history, Types, TrackedTypes
<1>22. ASSUME Evicted PROVE Types'
  <2>1. op[Sweeper].ref \in Refs
    BY <1>0, <1>22 DEF Evicted, Ready, Shapes, OpShapes, OpShape, PutShapes, Waits, References
  <2>2. TrackedTypes'
    BY <1>0, <1>22, <2>1, TracksMoves DEF Evicted, Discards
  <2> QED
    BY <1>0, <1>22, <2>2, EvictedMoves DEF Evicted, OpMoves, history, Types, TrackedTypes
<1>23. ASSUME SweepRaises PROVE Types'
  <2>1. OpEnds(Sweeper) /\ agenda' \in Seq(Refs)
    BY <1>0, <1>23, EndsMoves DEF SweepRaises
  <2> QED
    BY <1>0, <1>23, <2>1 DEF SweepRaises, OpEnds, OpMoves, memory, history, Types, TrackedTypes
<1>24. ASSUME Crash PROVE Types'
  <2>1. Idle \in OpRecord
    BY TierFacts DEF Idle, OpRecord, Answers, Objects
  <2>2. stored' \in [Tiers -> [Refs -> Objects]]
    BY <1>0, <1>24 DEF Crash, Objects
  <2>3. forgotten' \subseteq Tiers \X Refs
    BY <1>0, <1>24 DEF Crash, Forgets
  <2>4. \A t \in Tiers : IsFiniteSet(tracked'[t])
    BY <1>24, FS_EmptySet DEF Crash
  <2> QED
    BY <1>24, <2>1, <2>2, <2>3, <2>4 DEF Crash, WriteState, Types
<1> QED
  BY <1>1, <1>2, <1>3, <1>4, <1>5, <1>6, <1>7, <1>9, <1>10, <1>12, <1>13, <1>14, <1>15,
     <1>16, <1>17, <1>18, <1>20, <1>21, <1>22, <1>23, <1>24
     DEF Next, Job, Sweeps

LEMMA ReferenceStep ==
    ASSUME Types, References, Shapes, Next
    PROVE  References'
<1> USE DEF References
<1>0. /\ \A j \in Jobs : op[j].kind = "put" => op[j].ref \in issued \ (known \cup trees)
      /\ \A j \in Jobs : op[j].kind = "promote" => op[j].ref \in known
      /\ \A j \in Jobs : op[j].kind = "delete" => op[j].ref \in condemned
      /\ \A j \in Jobs, t \in Tiers : writes[j][t] # "no" => op[j].kind = "put"
      /\ tracked \in [Tiers -> SUBSET Refs]
  BY DEF Shapes, OpShapes, OpShape, PutShapes, Agents, Types
<1>1. ASSUME NEW a \in Agents, Serve(a) PROVE References'
  BY <1>1 DEF Serve, memory
<1>2. ASSUME NEW j \in Jobs, NEW r \in Refs, PutBegins(j, r) PROVE References'
  BY <1>2 DEF PutBegins, memory
<1>3. ASSUME NEW j \in Jobs, NEW r \in Refs, PutTree(j, r) PROVE References'
  BY <1>3 DEF PutTree, memory
<1>4. ASSUME NEW j \in Jobs, NEW r \in Refs, GetBegins(j, r) PROVE References'
  BY <1>4 DEF GetBegins, history
<1>5. ASSUME NEW j \in Jobs, NEW r \in Refs, DeleteBegins(j, r) PROVE References'
  BY <1>5 DEF DeleteBegins, memory
<1>6. ASSUME NEW j \in Jobs, NEW t \in Tiers, Write(j, t) PROVE References'
  <2>1. Wrote(j, t)
    BY <1>6, WriteWrites
  <2>2. op[j].ref \in issued \ trees
        /\ (tracked' = tracked \/ tracked' = [tracked EXCEPT ![t] = @ \cup {op[j].ref}])
    BY <2>1 DEF Wrote
  <2> QED
    BY <1>0, <1>6, <2>2 DEF Write
<1>7. ASSUME NEW j \in Jobs, NEW t \in Tiers, Written(j, t) PROVE References'
  <2>1. op[j].ref \in issued \ trees
        /\ (tracked' = tracked \/ tracked' = [tracked EXCEPT ![t] = @ \cup {op[j].ref}])
    BY <1>0, <1>7 DEF Written
  <2> QED
    BY <1>0, <1>7, <2>1 DEF Written, history
<1>8. ASSUME NEW j \in Jobs, PutReturns(j) PROVE References'
  <2>1. op[j].ref \in issued \ (known \cup trees)
    BY <1>0, <1>8 DEF PutReturns, PutOver
  <2> QED
    BY <1>8, <2>1 DEF PutReturns
<1>9. ASSUME NEW j \in Jobs, PutRaises(j) \/ PutCancelled(j) PROVE References'
  BY <1>9 DEF PutRaises, PutCancelled, memory, history
<1>10. ASSUME NEW j \in Jobs, GetMisses(j) \/ GetRaises(j) \/ GetFound(j) PROVE References'
  BY <1>10 DEF GetMisses, GetRaises, GetFound, memory, history
<1>11. ASSUME NEW j \in Jobs, Promoted(j) PROVE References'
  <2>1. op[j].ref \in issued \ trees
        /\ (tracked' = tracked
              \/ tracked' = [tracked EXCEPT ![op[j].tier] = @ \cup {op[j].ref}])
    BY <1>0, <1>11 DEF Promoted, Ready
  <2> QED
    BY <1>0, <1>11, <2>1 DEF Promoted, history
<1>12. ASSUME NEW j \in Jobs, DeleteGoesOn(j) PROVE References'
  BY <1>0, <1>12 DEF DeleteGoesOn, Discards
<1>13. ASSUME NEW j \in Jobs, DeleteEnds(j) PROVE References'
  BY <1>0, <1>13 DEF DeleteEnds, Discards, Ready
<1>14. ASSUME NEW j \in Jobs, CallCancelled(j) PROVE References'
  BY <1>14 DEF CallCancelled, memory
<1>15. ASSUME NEW t \in Nat \ {0}, SweepGoesTo(t), UNCHANGED <<memory, history>>
       PROVE  References'
  <2>1. \/ agenda' = <<>>
        \/ t \in Tiers /\ agenda' \in Agendas(t)
    BY <1>15, SweepMoves
  <2>2. ASSUME t \in Tiers, NEW s \in Agendas(t), agenda' = s
        PROVE  References'
    <3>1. \A i \in DOMAIN s : s[i] \in tracked[t]
      BY <2>2, AgendaTracked
    <3> QED
      BY <1>15, <2>2, <3>1 DEF memory, history
  <2>3. ASSUME agenda' = <<>> PROVE References'
    BY <1>15, <2>3 DEF memory, history
  <2> QED
    BY <2>1, <2>2, <2>3
<1>16. ASSUME SweepBegins \/ SweepNextTier PROVE References'
  <2>1. op[Sweeper].tier + 1 \in Nat \ {0}
    BY TierFacts DEF Types, OpRecord, Agents
  <2> QED
    BY <1>15, <1>16, <2>1 DEF SweepBegins, SweepNextTier
<1>17. ASSUME Evict PROVE References'
  BY <1>17, EvictMoves DEF Evict, memory, history
<1>18. ASSUME Evicted PROVE References'
  BY <1>0, <1>18 DEF Evicted, Discards, history
<1>19. ASSUME SweepRaises PROVE References'
  BY <1>19 DEF SweepRaises, memory, history
<1>20. ASSUME Crash PROVE References'
  BY <1>20 DEF Crash
<1> HIDE DEF References
<1> QED
  BY <1>1, <1>2, <1>3, <1>4, <1>5, <1>6, <1>7, <1>8, <1>9, <1>10, <1>11, <1>12, <1>13,
     <1>14, <1>16, <1>17, <1>18, <1>19, <1>20
     DEF Next, Job, Sweeps

(* Who does not hold the loop gets it only when nobody else has it.          *)
LEMMA HoldsMoves ==
    ASSUME OneHolds, NEW a \in Agents, \A b \in Agents \ {a} : op'[b] = op[b],
           Turn(a) \/ Holds(a) \/ ~ Holds(a)'
    PROVE  OneHolds'
BY DEF OneHolds, Turn, Holds

LEMMA HoldsStep ==
    ASSUME Types, References, Shapes, Next
    PROVE  OneHolds'
<1>0. OneHolds /\ Jobs \subseteq Agents /\ Sweeper \in Agents
  BY DEF Shapes, Agents
<1>1. ASSUME NEW a \in Agents, Serve(a) PROVE OneHolds'
  <2>1. Served(a)
    BY <1>1, ServeMoves
  <2>2. (\A b \in Agents \ {a} : op'[b] = op[b]) /\ (Holds(a) \/ ~ Holds(a)')
    BY <1>1, <2>1 DEF Serve, Served, OpMoves, Holds
  <2> QED
    BY <1>0, <2>2, HoldsMoves
<1>2. ASSUME NEW a \in Agents, Turn(a), \A b \in Agents \ {a} : op'[b] = op[b]
      PROVE  OneHolds'
  BY <1>0, <1>2, HoldsMoves
<1>3. ASSUME op' = op PROVE OneHolds'
  BY <1>0, <1>3 DEF OneHolds, Holds
<1>4. ASSUME NEW j \in Jobs, NEW r \in Refs, PutBegins(j, r) \/ GetBegins(j, r) \/ DeleteBegins(j, r)
      PROVE  OneHolds'
  <2>1. Turn(j) /\ \A b \in Agents \ {j} : op'[b] = op[b]
    BY <1>4 DEF PutBegins, GetBegins, DeleteBegins, Types
  <2> QED
    BY <1>0, <1>2, <2>1
<1>5. ASSUME NEW j \in Jobs, NEW r \in Refs, PutTree(j, r) PROVE OneHolds'
  BY <1>3, <1>5 DEF PutTree
<1>6. ASSUME NEW j \in Jobs, NEW t \in Tiers, Write(j, t) \/ Written(j, t) PROVE OneHolds'
  BY <1>3, <1>6 DEF Write, Written
<1>7. ASSUME NEW j \in Jobs, Turn(j), Ends(j) PROVE OneHolds'
  BY <1>0, <1>2, <1>7, EndsMoves DEF OpEnds, OpMoves
<1>8. ASSUME NEW j \in Jobs,
             \/ PutReturns(j) \/ PutRaises(j) \/ PutCancelled(j) \/ GetRaises(j)
             \/ DeleteEnds(j) \/ CallCancelled(j)
      PROVE  OneHolds'
  BY <1>7, <1>8
     DEF PutReturns, PutRaises, PutOver, PutCancelled, GetRaises, DeleteEnds, CallCancelled, Ready
<1>9. ASSUME NEW j \in Jobs, GetMisses(j) PROVE OneHolds'
  <2>1. Turn(j)
    BY <1>9 DEF GetMisses, Ready
  <2>2. \A b \in Agents \ {j} : op'[b] = op[b]
    BY <1>9 DEF GetMisses, Goes, Ends, Types
  <2> QED
    BY <1>0, <1>2, <2>1, <2>2
<1>10. ASSUME NEW j \in Jobs, GetFound(j) PROVE OneHolds'
  <2>1. Turn(j)
    BY <1>10 DEF GetFound, Ready
  <2>2. \A b \in Agents \ {j} : op'[b] = op[b]
    BY <1>10, FoundMoves DEF OpEnds, OpMoves
  <2> QED
    BY <1>0, <1>2, <2>1, <2>2
<1>11. ASSUME NEW j \in Jobs, Promoted(j) PROVE OneHolds'
  <2>1. Turn(j)
    BY <1>11 DEF Promoted, Ready
  <2>2. \A b \in Agents \ {j} : op'[b] = op[b]
    BY <1>11, PromotedMoves DEF OpEnds, OpMoves
  <2> QED
    BY <1>0, <1>2, <2>1, <2>2
<1>12. ASSUME NEW j \in Jobs, DeleteGoesOn(j) PROVE OneHolds'
  <2>1. Turn(j)
    BY <1>12 DEF DeleteGoesOn, Ready
  <2>2. \A b \in Agents \ {j} : op'[b] = op[b]
    BY <1>12, DeleteMoves DEF OpMoves
  <2> QED
    BY <1>0, <1>2, <2>1, <2>2
<1>13. ASSUME NEW t \in Nat \ {0}, SweepGoesTo(t), Turn(Sweeper) \/ Holds(Sweeper)
       PROVE  OneHolds'
  <2>1. \A b \in Agents \ {Sweeper} : op'[b] = op[b]
    BY <1>13, SweepMoves DEF OpEnds, OpMoves
  <2> QED
    BY <1>0, <1>13, <2>1, HoldsMoves
<1>14. ASSUME SweepBegins \/ SweepNextTier PROVE OneHolds'
  <2>1. op[Sweeper].tier + 1 \in Nat \ {0}
    BY <1>0, TierFacts DEF Types, OpRecord
  <2> QED
    BY <1>13, <1>14, <2>1 DEF SweepBegins, SweepNextTier, Holds
<1>15. ASSUME Evict PROVE OneHolds'
  <2>1. Holds(Sweeper) /\ \A b \in Agents \ {Sweeper} : op'[b] = op[b]
    BY <1>15, EvictMoves DEF Evict, OpMoves, Holds
  <2> QED
    BY <1>0, <2>1, HoldsMoves
<1>16. ASSUME Evicted PROVE OneHolds'
  <2>1. Turn(Sweeper) /\ \A b \in Agents \ {Sweeper} : op'[b] = op[b]
    BY <1>16, EvictedMoves DEF Evicted, Ready, OpMoves
  <2> QED
    BY <1>0, <1>2, <2>1
<1>17. ASSUME SweepRaises PROVE OneHolds'
  <2>1. Turn(Sweeper) /\ \A b \in Agents \ {Sweeper} : op'[b] = op[b]
    BY <1>0, <1>17, EndsMoves DEF SweepRaises, Ready, OpEnds, OpMoves
  <2> QED
    BY <1>0, <1>2, <2>1
<1>18. ASSUME Crash PROVE OneHolds'
  BY <1>18 DEF Crash, OneHolds, Holds, Idle
<1> QED
  BY <1>1, <1>4, <1>5, <1>6, <1>8, <1>9, <1>10, <1>11, <1>12, <1>14, <1>15, <1>16, <1>17,
     <1>18
     DEF Next, Job, Sweeps


LEMMA MissMoves ==
    ASSUME Types, NEW j \in Jobs, GetMisses(j)
    PROVE  \/ OpEnds(j) /\ op[j].tier = N
           \/ /\ op[j].tier + 1 \in Tiers
              /\ OpMoves(j, "get", op[j].ref, op[j].tier + 1, Calls(op[j].tier + 1), "ok",
                         op[j].data, op[j].errors)
<1>1. op[j].tier \in Tiers /\ j \in Agents
  BY DEF Types, OpRecord, Agents
<1>2. CASE op[j].tier < N
  <2>1. op[j].tier + 1 \in Tiers
    BY <1>1, <1>2, TierFacts
  <2> QED
    BY <1>1, <1>2, <2>1, GoesMoves DEF GetMisses
<1>3. CASE ~(op[j].tier < N)
  BY <1>1, <1>3, TierFacts, TieredAssumption, EndsMoves DEF GetMisses
<1> QED
  BY <1>2, <1>3

LEMMA CallsTo ==
    ASSUME NEW t \in Tiers
    PROVE  /\ Calls(t) = "run" => Kind[t] # "postgres"
           /\ Calls(t) = "sent" => Kind[t] = "postgres"
           /\ Calls(t) \in {"run", "sent"}
BY DEF Calls

(* Nobody's shape suffers from what somebody else does.                      *)
LEMMA ShapesMove ==
    ASSUME OpShapes, NEW a \in Agents, \A b \in Agents \ {a} : op'[b] = op[b],
           known \subseteq known', trees \subseteq trees', issued \subseteq issued',
           condemned \subseteq condemned',
           \A b \in Agents \ {a} : op[b].kind = "put" => op[b].ref \notin known' \cup trees',
           issued \cap trees' \subseteq trees,
           OpShape(a)'
    PROVE  OpShapes'
<1>1. ASSUME NEW b \in Agents \ {a} PROVE OpShape(b)'
  BY <1>1 DEF OpShapes, OpShape, Waits
<1> QED
  BY <1>1 DEF OpShapes

LEMMA ShapeMoves ==
    ASSUME OpShapes, NEW a \in Agents, \A b \in Agents \ {a} : op'[b] = op[b],
           known' = known, trees' = trees, issued \subseteq issued',
           condemned \subseteq condemned', OpShape(a)'
    PROVE  OpShapes'
<1>1. \A b \in Agents \ {a} : op[b].kind = "put" => op[b].ref \notin known' \cup trees'
  BY DEF OpShapes, OpShape
<1> QED
  BY <1>1, ShapesMove

LEMMA EndsShape ==
    ASSUME NEW a \in Agents, OpEnds(a)
    PROVE  OpShape(a)'
BY DEF OpEnds, OpMoves, OpShape, Waits

LEMMA OpShapesStep ==
    ASSUME Types, References, Shapes, Next
    PROVE  OpShapes'
<1>0. OpShapes /\ Jobs \subseteq Agents /\ Sweeper \in Agents /\ Sweeper \notin Jobs
      /\ \A a \in Agents : OpShape(a) /\ op[a] \in OpRecord /\ op[a].tier \in Tiers
  BY TieredAssumption DEF Shapes, OpShapes, Agents, Types, OpRecord
<1>1. ASSUME NEW a \in Agents, Serve(a) PROVE OpShapes'
  <2>1. Served(a) /\ UNCHANGED <<issued, known, trees, condemned>>
    BY <1>1, ServeMoves DEF Serve
  <2>2. OpShape(a)'
    BY <1>0, <1>1, <2>1 DEF Serve, Served, OpMoves, OpShape, Waits
  <2> QED
    BY <1>0, <2>1, <2>2, ShapeMoves DEF Served, OpMoves
<1>2. ASSUME NEW a \in Agents, OpEnds(a), UNCHANGED <<known, trees, issued, condemned>>
      PROVE  OpShapes'
  BY <1>0, <1>2, EndsShape, ShapeMoves DEF OpEnds, OpMoves
<1>3. ASSUME NEW j \in Jobs, NEW r \in Refs, PutBegins(j, r) PROVE OpShapes'
  <2>1. OpMoves(j, "put", r, 1, "gather", "ok", "none", 0)
    BY <1>0, <1>3, BeginMoves DEF PutBegins
  <2>2. UNCHANGED <<known, trees, condemned>> /\ issued' = issued \cup {r} /\ r \notin issued
    BY <1>3 DEF PutBegins
  <2>3. OpShape(j)'
    BY <2>1, <2>2 DEF OpMoves, OpShape, References
  <2> QED
    BY <1>0, <2>1, <2>2, <2>3, ShapeMoves DEF OpMoves
<1>4. ASSUME NEW j \in Jobs, NEW r \in Refs, PutTree(j, r) PROVE OpShapes'
  <2>1. /\ op' = op /\ UNCHANGED <<known, condemned>> /\ issued' = issued \cup {r}
        /\ trees' = trees \cup {r} /\ r \notin issued
    BY <1>4 DEF PutTree
  <2>2. \A a \in Agents : OpShape(a)'
    BY <1>0, <2>1 DEF OpShape, Waits
  <2> QED
    BY <2>2 DEF OpShapes
<1>5. ASSUME NEW j \in Jobs, NEW r \in Refs, GetBegins(j, r) PROVE OpShapes'
  <2>1. OpMoves(j, "get", r, 1, Calls(1), "ok", "none", 0)
    BY <1>0, <1>5, TierFacts, BeginMoves DEF GetBegins
  <2>2. UNCHANGED <<known, trees, issued, condemned>> /\ r \in known \cup trees
    BY <1>5 DEF GetBegins, history
  <2>3. OpShape(j)'
    BY <2>1, <2>2, CallsTo, TierFacts DEF OpMoves, OpShape, Waits
  <2> QED
    BY <1>0, <2>1, <2>2, <2>3, ShapeMoves DEF OpMoves
<1>6. ASSUME NEW j \in Jobs, NEW r \in Refs, DeleteBegins(j, r) PROVE OpShapes'
  <2>1. OpMoves(j, "delete", r, 1, Calls(1), "ok", "none", 0)
    BY <1>0, <1>6, TierFacts, BeginMoves DEF DeleteBegins
  <2>2. UNCHANGED <<known, trees, issued>> /\ r \in known \cup trees
        /\ condemned' = condemned \cup {r}
    BY <1>6 DEF DeleteBegins
  <2>3. OpShape(j)'
    BY <2>1, <2>2, CallsTo, TierFacts DEF OpMoves, OpShape, Waits
  <2> QED
    BY <1>0, <2>1, <2>2, <2>3, ShapeMoves DEF OpMoves
<1>7. ASSUME NEW j \in Jobs, NEW t \in Tiers, Write(j, t) \/ Written(j, t) PROVE OpShapes'
  <2>1. UNCHANGED <<op, known, trees, issued, condemned>>
    BY <1>7 DEF Write, Written, history
  <2> QED
    BY <1>0, <2>1 DEF OpShapes, OpShape, Waits
<1>8. ASSUME NEW j \in Jobs, PutReturns(j) PROVE OpShapes'
  <2>1. OpEnds(j) /\ UNCHANGED <<trees, issued, condemned>>
        /\ known' = known \cup {op[j].ref} /\ op[j].kind = "put"
    BY <1>0, <1>8, EndsMoves DEF PutReturns, PutOver
  <2>2. \A b \in Agents \ {j} : op[b].kind = "put" => op[b].ref \notin known' \cup trees'
    BY <1>0, <2>1 DEF Shapes, PutShapes, OpShape
  <2>3. OpShape(j)'
    BY <1>0, <2>1, EndsShape
  <2> QED
    BY <1>0, <2>1, <2>2, <2>3, ShapesMove DEF OpEnds, OpMoves
<1>9. ASSUME NEW j \in Jobs,
             PutRaises(j) \/ PutCancelled(j) \/ GetRaises(j) \/ DeleteEnds(j) \/ CallCancelled(j)
      PROVE  OpShapes'
  <2>1. OpEnds(j) /\ UNCHANGED <<known, trees, issued, condemned>>
    BY <1>0, <1>9, EndsMoves
       DEF PutRaises, PutOver, PutCancelled, GetRaises, DeleteEnds, CallCancelled, history
  <2> QED
    BY <1>0, <1>2, <2>1
<1>10. ASSUME NEW j \in Jobs, GetMisses(j) PROVE OpShapes'
  <2>0. UNCHANGED <<known, trees, issued, condemned>> /\ op[j].kind = "get"
    BY <1>10 DEF GetMisses, Ready
  <2>1. CASE OpEnds(j)
    BY <1>0, <1>2, <2>0, <2>1
  <2>2. CASE /\ op[j].tier + 1 \in Tiers
             /\ OpMoves(j, "get", op[j].ref, op[j].tier + 1, Calls(op[j].tier + 1), "ok",
                        op[j].data, op[j].errors)
    <3>1. OpShape(j)'
      BY <1>0, <2>0, <2>2, CallsTo DEF OpMoves, OpShape, Waits
    <3> QED
      BY <1>0, <2>0, <2>2, <3>1, ShapeMoves DEF OpMoves
  <2> QED
    BY <1>10, <2>1, <2>2, MissMoves
<1>11. ASSUME NEW j \in Jobs, NEW h \in Tiers, NEW d, NEW n \in Tiers,
              OpMoves(j, "promote", op[j].ref, h, Calls(h), "ok", d, n),
              op[j].ref \in known, d # "none", h < n,
              UNCHANGED <<known, trees, issued, condemned>>
       PROVE  OpShapes'
  <2>1. OpShape(j)'
    BY <1>0, <1>11, CallsTo DEF OpMoves, OpShape, Waits
  <2> QED
    BY <1>0, <1>11, <2>1, ShapeMoves DEF OpMoves
<1>12. ASSUME NEW j \in Jobs, GetFound(j) PROVE OpShapes'
  <2>0. UNCHANGED <<known, trees, issued, condemned>> /\ op[j].answer # "none"
        /\ op[j].tier \in Tiers
    BY <1>0, <1>12 DEF GetFound, history
  <2>1. CASE OpEnds(j)
    BY <1>0, <1>2, <2>0, <2>1
  <2>2. ASSUME op[j].ref \in meta, NEW h \in Tiers, h < op[j].tier,
               OpMoves(j, "promote", op[j].ref, h, Calls(h), "ok", op[j].answer, op[j].tier)
        PROVE  OpShapes'
    BY <1>11, <2>0, <2>2 DEF References
  <2> QED
    BY <1>12, <2>1, <2>2, FoundMoves
<1>13. ASSUME NEW j \in Jobs, Promoted(j) PROVE OpShapes'
  <2>0. UNCHANGED <<known, trees, issued, condemned>> /\ op[j].data # "none"
        /\ op[j].errors \in Tiers /\ op[j].ref \in known
    BY <1>0, <1>13 DEF Promoted, Ready, OpShape, history
  <2>1. CASE OpEnds(j)
    BY <1>0, <1>2, <2>0, <2>1
  <2>2. ASSUME NEW h \in Tiers, h < op[j].errors,
               OpMoves(j, "promote", op[j].ref, h, Calls(h), "ok", op[j].data, op[j].errors)
        PROVE  OpShapes'
    BY <1>11, <2>0, <2>2
  <2> QED
    BY <1>13, <2>1, <2>2, PromotedMoves
<1>14. ASSUME NEW j \in Jobs, DeleteGoesOn(j) PROVE OpShapes'
  <2>0. UNCHANGED <<known, trees, issued, condemned>> /\ op[j].kind = "delete"
    BY <1>14 DEF DeleteGoesOn, Ready
  <2>1. /\ op[j].tier + 1 \in Tiers
        /\ OpMoves(j, op[j].kind, op[j].ref, op[j].tier + 1, Calls(op[j].tier + 1), "ok",
                   op[j].data, Errors(j))
    BY <1>14, DeleteMoves
  <2>2. OpShape(j)'
    BY <1>0, <2>0, <2>1, CallsTo DEF OpMoves, OpShape, Waits
  <2> QED
    BY <1>0, <2>0, <2>1, <2>2, ShapeMoves DEF OpMoves
<1>15. ASSUME NEW t \in Nat \ {0}, SweepGoesTo(t), UNCHANGED history PROVE OpShapes'
  <2>0. UNCHANGED <<known, trees, issued, condemned>>
    BY <1>15 DEF history
  <2>1. CASE OpEnds(Sweeper)
    BY <1>0, <1>2, <2>0, <2>1
  <2>2. CASE OpMoves(Sweeper, "evict", NoRef, t, "pick", "ok", "none", 0)
    <3>1. OpShape(Sweeper)'
      BY <2>2 DEF OpMoves, OpShape, Waits
    <3> QED
      BY <1>0, <2>0, <2>2, <3>1, ShapeMoves DEF OpMoves
  <2> QED
    BY <1>15, <2>1, <2>2, SweepMoves
<1>16. ASSUME SweepBegins \/ SweepNextTier PROVE OpShapes'
  <2>1. op[Sweeper].tier + 1 \in Nat \ {0}
    BY <1>0, TierFacts
  <2> QED
    BY <1>15, <1>16, <2>1 DEF SweepBegins, SweepNextTier
<1>17. ASSUME Evict PROVE OpShapes'
  <2>0. UNCHANGED <<known, trees, issued, condemned>> /\ op[Sweeper].at = "pick"
    BY <1>17 DEF Evict, history
  <2>1. agenda # <<>> /\ 1 \in DOMAIN agenda
        /\ OpMoves(Sweeper, op[Sweeper].kind, agenda[1], op[Sweeper].tier,
                   Calls(op[Sweeper].tier), op[Sweeper].answer,
                   op[Sweeper].data, op[Sweeper].errors)
    BY <1>17, EvictMoves
  <2>2. op[Sweeper].kind = "evict" /\ op[Sweeper].tier \in LRU \cup TTL
        /\ agenda[1] \in issued \ trees
    BY <2>1 DEF Shapes, AgendaShape, References
  <2>3. OpShape(Sweeper)'
    BY <1>0, <2>0, <2>1, <2>2, CallsTo DEF OpMoves, OpShape, Waits
  <2> QED
    BY <1>0, <2>0, <2>1, <2>3, ShapeMoves DEF OpMoves
<1>18. ASSUME Evicted PROVE OpShapes'
  <2>0. UNCHANGED <<known, trees, issued, condemned>> /\ op[Sweeper].kind = "evict"
    BY <1>18 DEF Evicted, Ready, history
  <2>1. OpMoves(Sweeper, op[Sweeper].kind, NoRef, op[Sweeper].tier, "pick", "ok",
                op[Sweeper].data, op[Sweeper].errors)
    BY <1>18, EvictedMoves
  <2>2. OpShape(Sweeper)'
    BY <2>0, <2>1 DEF OpMoves, OpShape, Waits
  <2> QED
    BY <1>0, <2>0, <2>1, <2>2, ShapeMoves DEF OpMoves
<1>19. ASSUME SweepRaises PROVE OpShapes'
  BY <1>0, <1>2, <1>19, EndsMoves DEF SweepRaises, history
<1>20. ASSUME Crash PROVE OpShapes'
  BY <1>20 DEF Crash, OpShapes, OpShape, Waits, Idle
<1> QED
  BY <1>1, <1>3, <1>4, <1>5, <1>6, <1>7, <1>8, <1>9, <1>10, <1>12, <1>13, <1>14, <1>16,
     <1>17, <1>18, <1>19, <1>20
     DEF Next, Job, Sweeps

LEMMA AgendaStep ==
    ASSUME Types, References, Shapes, Next
    PROVE  AgendaShape'
<1>0. AgendaShape /\ Sweeper \in Agents /\ Sweeper \notin Jobs /\ Jobs \subseteq Agents
      /\ op[Sweeper].tier \in Tiers
  BY TieredAssumption DEF Shapes, Agents, Types, OpRecord
<1>1. ASSUME NEW a \in Agents, Serve(a) PROVE AgendaShape'
  <2>1. Served(a) /\ agenda' = agenda
    BY <1>1, ServeMoves DEF Serve
  <2> QED
    BY <1>0, <2>1 DEF Served, OpMoves, AgendaShape
<1>2. ASSUME op'[Sweeper] = op[Sweeper], agenda' = agenda PROVE AgendaShape'
  BY <1>0, <1>2 DEF AgendaShape
<1>3. ASSUME NEW j \in Jobs, \A b \in Agents \ {j} : op'[b] = op[b], agenda' = agenda
      PROVE  AgendaShape'
  BY <1>0, <1>2, <1>3
<1>4. ASSUME NEW j \in Jobs, NEW r \in Refs,
             PutBegins(j, r) \/ PutTree(j, r) \/ GetBegins(j, r) \/ DeleteBegins(j, r)
      PROVE  AgendaShape'
  <2>1. agenda' = agenda /\ \A b \in Agents \ {j} : op'[b] = op[b]
    BY <1>4 DEF PutBegins, PutTree, GetBegins, DeleteBegins, Types
  <2> QED
    BY <1>3, <2>1
<1>5. ASSUME NEW j \in Jobs, NEW t \in Tiers, Write(j, t) \/ Written(j, t) PROVE AgendaShape'
  BY <1>2, <1>5 DEF Write, Written
<1>6. ASSUME NEW j \in Jobs,
             \/ PutReturns(j) \/ PutRaises(j) \/ PutCancelled(j) \/ GetRaises(j)
             \/ DeleteEnds(j) \/ CallCancelled(j)
      PROVE  AgendaShape'
  <2>1. OpEnds(j) /\ agenda' = agenda
    BY <1>0, <1>6, EndsMoves
       DEF PutReturns, PutRaises, PutOver, PutCancelled, GetRaises, DeleteEnds, CallCancelled
  <2> QED
    BY <1>3, <2>1 DEF OpEnds, OpMoves
<1>7. ASSUME NEW j \in Jobs, GetMisses(j) \/ GetFound(j) \/ Promoted(j) \/ DeleteGoesOn(j)
      PROVE  AgendaShape'
  <2>1. \A b \in Agents \ {j} : op'[b] = op[b]
    BY <1>7, MissMoves, FoundMoves, PromotedMoves, DeleteMoves DEF OpEnds, OpMoves
  <2>2. agenda' = agenda
    BY <1>7 DEF GetMisses, GetFound, Promoted, DeleteGoesOn
  <2> QED
    BY <1>3, <2>1, <2>2
<1>8. ASSUME NEW t \in Nat \ {0}, SweepGoesTo(t) PROVE AgendaShape'
  <2>1. CASE OpEnds(Sweeper) /\ agenda' = <<>>
    BY <2>1 DEF AgendaShape
  <2>2. ASSUME t \in Tiers, NEW s \in Agendas(t), agenda' = s,
               OpMoves(Sweeper, "evict", NoRef, t, "pick", "ok", "none", 0)
        PROVE  AgendaShape'
    <3>1. s # <<>> => t \in LRU \cup TTL
      BY <2>2, AgendaTracked
    <3> QED
      BY <2>2, <3>1 DEF AgendaShape, OpMoves
  <2> QED
    BY <1>8, <2>1, <2>2, SweepMoves
<1>9. ASSUME SweepBegins \/ SweepNextTier PROVE AgendaShape'
  <2>1. op[Sweeper].tier + 1 \in Nat \ {0}
    BY <1>0, TierFacts
  <2> QED
    BY <1>8, <1>9, <2>1 DEF SweepBegins, SweepNextTier
<1>10. ASSUME Evict PROVE AgendaShape'
  <2>1. agenda # <<>> /\ op'[Sweeper].kind = op[Sweeper].kind
        /\ op'[Sweeper].tier = op[Sweeper].tier
    BY <1>10, EvictMoves DEF OpMoves
  <2> QED
    BY <1>0, <2>1 DEF AgendaShape
<1>11. ASSUME Evicted PROVE AgendaShape'
  <2>1. agenda' = agenda /\ op'[Sweeper].kind = op[Sweeper].kind
        /\ op'[Sweeper].tier = op[Sweeper].tier
    BY <1>11, EvictedMoves DEF Evicted, OpMoves
  <2> QED
    BY <1>0, <2>1 DEF AgendaShape
<1>12. ASSUME SweepRaises \/ Crash PROVE AgendaShape'
  BY <1>12 DEF SweepRaises, Crash, AgendaShape
<1> QED
  BY <1>1, <1>4, <1>5, <1>6, <1>7, <1>9, <1>10, <1>11, <1>12 DEF Next, Job, Sweeps

(* Two puts never have the same reference: each takes a new one.             *)
LEMMA PutShapesStep ==
    ASSUME Types, References, Shapes, Next
    PROVE  PutShapes'
<1>0. PutShapes /\ Sweeper \in Agents /\ Sweeper \notin Jobs /\ Jobs \subseteq Agents
      /\ \A a \in Agents : OpShape(a) /\ op[a].tier \in Tiers
      /\ writes \in [Jobs -> [Tiers -> WriteState]]
  BY TieredAssumption DEF Shapes, OpShapes, Agents, Types, OpRecord
<1>1. ASSUME NEW a \in Agents, \A b \in Agents \ {a} : op'[b] = op[b],
             op'[a].kind = "put" => op[a].kind = "put" /\ op'[a].ref = op[a].ref,
             op[a].kind = "put" => op'[a].kind = "put",
             writes' = writes
      PROVE  PutShapes'
  BY <1>0, <1>1 DEF PutShapes
<1>2. ASSUME NEW j \in Jobs, OpEnds(j), writes' = [writes EXCEPT ![j] = [t \in Tiers |-> "no"]]
      PROVE  PutShapes'
  <2>1. (\A i \in Jobs \ {j} : op'[i] = op[i] /\ writes'[i] = writes[i]) /\ op'[j].kind = "none"
    BY <1>0, <1>2 DEF OpEnds, OpMoves
  <2>2. \A t \in Tiers : writes'[j][t] = "no"
    BY <1>0, <1>2
  <2> QED
    BY <1>0, <2>1, <2>2 DEF PutShapes
<1>3. ASSUME NEW j \in Jobs, op[j].kind # "put", OpEnds(j), writes' = writes PROVE PutShapes'
  BY <1>0, <1>1, <1>3 DEF OpEnds, OpMoves
<1>4. ASSUME NEW a \in Agents, Serve(a) PROVE PutShapes'
  <2>1. Served(a) /\ writes' = writes
    BY <1>4, ServeMoves DEF Serve
  <2> QED
    BY <1>1, <2>1 DEF Served, OpMoves
<1>5. ASSUME NEW j \in Jobs, NEW r \in Refs, PutBegins(j, r) PROVE PutShapes'
  <2>1. OpMoves(j, "put", r, 1, "gather", "ok", "none", 0)
    BY <1>0, <1>5, BeginMoves DEF PutBegins
  <2>2. \A i \in Jobs : op[i].kind = "put" => op[i].ref # r
    BY <1>0, <1>5 DEF PutBegins, OpShape
  <2>3. \A i \in Jobs \ {j} : writes'[i] = writes[i]
    BY <1>0, <1>5 DEF PutBegins
  <2>4. op'[j].kind = "put" /\ op'[j].ref = r /\ \A i \in Jobs \ {j} : op'[i] = op[i]
    BY <1>0, <2>1 DEF OpMoves
  <2>5. \A t \in Tiers : writes'[j][t] # "no" <=> t \in WriteThrough
    BY <1>0, <1>5 DEF PutBegins
  <2> QED
    BY <1>0, <2>2, <2>3, <2>4, <2>5 DEF PutShapes
<1>6. ASSUME NEW j \in Jobs, NEW r \in Refs, GetBegins(j, r) \/ DeleteBegins(j, r)
      PROVE  PutShapes'
  <2>1. op[j].kind # "put" /\ writes' = writes
    BY <1>6 DEF GetBegins, DeleteBegins, Idle
  <2>2. Calls(1) \in {"gather", "sent", "run"}
    BY TierFacts
  <2>3. \/ OpMoves(j, "get", r, 1, Calls(1), "ok", "none", 0)
        \/ OpMoves(j, "delete", r, 1, Calls(1), "ok", "none", 0)
    <3>1. CASE GetBegins(j, r)
      BY <1>0, <2>2, <3>1, BeginMoves DEF GetBegins
    <3>2. CASE DeleteBegins(j, r)
      BY <1>0, <2>2, <3>2, BeginMoves DEF DeleteBegins
    <3> QED
      BY <1>6, <3>1, <3>2
  <2> QED
    BY <1>0, <1>1, <2>1, <2>3 DEF OpMoves
<1>7. ASSUME NEW j \in Jobs, NEW r \in Refs, PutTree(j, r) PROVE PutShapes'
  BY <1>0, <1>7 DEF PutTree, PutShapes
<1>8. ASSUME NEW j \in Jobs, NEW t \in Tiers, Write(j, t) \/ Written(j, t) PROVE PutShapes'
  <2>1. op' = op /\ writes[j][t] # "no"
    BY <1>8 DEF Write, Written
  <2>2. \E state \in WriteState \ {"no"} : WriteGoes(j, t, state)
    BY <1>8 DEF Write, Written, WriteState
  <2>3. \A i \in Jobs, u \in Tiers : writes'[i][u] # "no" <=> writes[i][u] # "no"
    BY <2>1, <2>2, WriteBecomes DEF WriteMoves
  <2> QED
    BY <1>0, <2>1, <2>3 DEF PutShapes
<1>9. ASSUME NEW j \in Jobs, PutReturns(j) \/ PutRaises(j) \/ PutCancelled(j) PROVE PutShapes'
  BY <1>0, <1>2, <1>9, EndsMoves DEF PutReturns, PutRaises, PutOver, PutCancelled
<1>10. ASSUME NEW j \in Jobs, GetRaises(j) \/ DeleteEnds(j) \/ CallCancelled(j)
       PROVE  PutShapes'
  BY <1>0, <1>3, <1>10, EndsMoves DEF GetRaises, DeleteEnds, CallCancelled, Ready
<1>11. ASSUME NEW j \in Jobs, GetMisses(j) \/ GetFound(j) \/ Promoted(j) \/ DeleteGoesOn(j)
       PROVE  PutShapes'
  <2>1. writes' = writes /\ op[j].kind # "put"
    BY <1>11 DEF GetMisses, GetFound, Promoted, DeleteGoesOn, Ready
  <2>2. (\A b \in Agents \ {j} : op'[b] = op[b]) /\ op'[j].kind # "put"
    BY <1>11, <2>1, MissMoves, FoundMoves, PromotedMoves, DeleteMoves DEF OpEnds, OpMoves
  <2> QED
    BY <1>0, <1>1, <2>1, <2>2
<1>12. ASSUME writes' = writes, \A j \in Jobs : op'[j] = op[j] PROVE PutShapes'
  BY <1>0, <1>12 DEF PutShapes
<1>13. ASSUME NEW t \in Nat \ {0}, SweepGoesTo(t), writes' = writes PROVE PutShapes'
  BY <1>0, <1>12, <1>13, SweepMoves DEF OpEnds, OpMoves
<1>14. ASSUME SweepBegins \/ SweepNextTier PROVE PutShapes'
  <2>1. op[Sweeper].tier + 1 \in Nat \ {0}
    BY <1>0, TierFacts
  <2> QED
    BY <1>13, <1>14, <2>1 DEF SweepBegins, SweepNextTier
<1>15. ASSUME Evict \/ Evicted PROVE PutShapes'
  BY <1>0, <1>12, <1>15, EvictMoves, EvictedMoves DEF Evict, Evicted, OpMoves
<1>16. ASSUME SweepRaises PROVE PutShapes'
  BY <1>0, <1>12, <1>16, EndsMoves DEF SweepRaises, OpEnds, OpMoves
<1>17. ASSUME Crash PROVE PutShapes'
  BY <1>0, <1>17 DEF Crash, PutShapes, Idle
<1> QED
  BY <1>4, <1>5, <1>6, <1>7, <1>8, <1>9, <1>10, <1>11, <1>14, <1>15, <1>16, <1>17
     DEF Next, Job, Sweeps

(***************************************************************************)
(* What was put stays.                                                     *)
(***************************************************************************)

(* Few steps touch the objects, or what was put, made a tree or condemned.    *)
LEMMA Changes ==
    ASSUME Next
    PROVE  \/ UNCHANGED <<stored, known, trees, condemned>>
           \/ \E a \in Agents : Serve(a)
           \/ \E j \in Jobs, r \in Refs : PutTree(j, r) \/ DeleteBegins(j, r)
           \/ \E j \in Jobs, t \in Tiers : Write(j, t)
           \/ \E j \in Jobs : PutReturns(j)
           \/ Crash
<1>1. ASSUME NEW j \in Jobs, NEW r \in Refs, PutBegins(j, r) \/ GetBegins(j, r)
      PROVE  UNCHANGED <<stored, known, trees, condemned>>
  BY <1>1 DEF PutBegins, GetBegins, history
<1>2. ASSUME NEW j \in Jobs, NEW t \in Tiers, Written(j, t)
      PROVE  UNCHANGED <<stored, known, trees, condemned>>
  BY <1>2 DEF Written, history
<1>3. ASSUME NEW j \in Jobs,
             \/ PutRaises(j) \/ PutCancelled(j) \/ GetMisses(j) \/ GetRaises(j) \/ GetFound(j)
             \/ Promoted(j) \/ DeleteGoesOn(j) \/ DeleteEnds(j) \/ CallCancelled(j)
      PROVE  UNCHANGED <<stored, known, trees, condemned>>
  BY <1>3 DEF PutRaises, PutCancelled, GetMisses, GetRaises, GetFound, Promoted,
              DeleteGoesOn, DeleteEnds, CallCancelled, history
<1>4. ASSUME Sweeps PROVE UNCHANGED <<stored, known, trees, condemned>>
  BY <1>4 DEF Sweeps, SweepBegins, SweepNextTier, Evict, Evicted, SweepRaises, history
<1> QED
  BY <1>1, <1>2, <1>3, <1>4 DEF Next, Job

LEMMA ServedRefs ==
    ASSUME Shapes, NEW a \in Agents, Served(a)
    PROVE  /\ op[a].kind \in {"get", "promote", "delete"} =>
                 a \in Jobs /\ op[a].ref \in known \cup trees
           /\ op[a].kind = "delete" => op[a].ref \in condemned
           /\ op[a].kind = "evict" =>
                 a = Sweeper /\ op[a].ref \in issued \ trees /\ op[a].tier \in LRU \cup TTL
BY DEF Shapes, OpShapes, OpShape, Served

LEMMA KeptObjectsStep ==
    ASSUME Types, References, Shapes, KeptObjects, KeptWrites, Next
    PROVE  KeptObjects'
<1>0. known \cup trees \subseteq issued /\ known \cup trees \subseteq Refs
      /\ Steady \subseteq Tiers /\ 1 \in Tiers /\ Steady \cap (LRU \cup TTL) = {}
      /\ stored \in [Tiers -> [Refs -> Objects]]
  BY TierFacts, TieredAssumption DEF References, Steady, Types
<1>1. ASSUME UNCHANGED <<stored, known, trees, condemned>> PROVE KeptObjects'
  BY <1>1 DEF KeptObjects, Home
<1>2. ASSUME NEW a \in Agents, Serve(a) PROVE KeptObjects'
  <2>1. Served(a) /\ UNCHANGED <<known, trees, condemned>>
    BY <1>2, ServeMoves DEF Serve
  <2> DEFINE t == op[a].tier
             q == op[a].ref
  <2>2. \A r \in Refs, s \in Tiers : s # t \/ r # q => stored'[s][r] = stored[s][r]
    BY <2>1 DEF Served, ObjectMoves
  <2>3. ASSUME NEW r \in (known \cup trees) \ condemned, NEW s \in Home(r)
        PROVE  stored'[s][r] # "none"
    <3>1. stored[s][r] # "none" /\ s \in Tiers /\ r \in Refs
      BY <1>0, <2>3 DEF KeptObjects, Home
    <3>2. CASE s # t \/ r # q
      BY <2>2, <3>1, <3>2
    <3>3. CASE s = t /\ r = q
      <4>1. op[a].kind # "delete"
        BY <2>1, <2>3, <3>3, ServedRefs
      <4>2. op[a].kind # "evict"
        BY <1>0, <2>1, <2>3, <3>3, ServedRefs DEF Home
      <4> QED
        BY <2>1, <3>1, <3>3, <4>1, <4>2 DEF Served
    <3> QED
      BY <3>2, <3>3
  <2> QED
    BY <2>1, <2>3 DEF KeptObjects, Home
<1>3. ASSUME NEW j \in Jobs, NEW r \in Refs, PutTree(j, r) PROVE KeptObjects'
  <2>1. /\ trees' = trees \cup {r} /\ UNCHANGED <<known, condemned>> /\ r \notin issued
        /\ stored' = [stored EXCEPT ![1][r] = "whole"]
    BY <1>3 DEF PutTree
  <2>2. stored'[1][r] = "whole"
        /\ \A q \in Refs \ {r}, s \in Tiers : stored'[s][q] = stored[s][q]
    BY <1>0, <2>1
  <2>3. \A q \in known \cup trees : Home(q)' = Home(q) /\ q # r
    BY <1>0, <2>1 DEF Home
  <2>4. Home(r)' = {1}
    BY <2>1 DEF Home
  <2>5. \A q \in known \cup trees : Home(q) \subseteq Tiers
    BY <1>0 DEF Home
  <2> QED
    BY <1>0, <2>1, <2>2, <2>3, <2>4, <2>5 DEF KeptObjects
<1>4. ASSUME NEW j \in Jobs, NEW r \in Refs, DeleteBegins(j, r) PROVE KeptObjects'
  BY <1>4 DEF DeleteBegins, KeptObjects, Home
<1>5. ASSUME NEW j \in Jobs, NEW t \in Tiers, Write(j, t) PROVE KeptObjects'
  <2>1. Wrote(j, t) /\ UNCHANGED <<known, trees, condemned>>
    BY <1>5, WriteWrites DEF Write
  <2>2. \A q \in known \cup trees, s \in Tiers : stored'[s][q] = stored[s][q]
    BY <1>0, <2>1 DEF Wrote, ObjectMoves
  <2> QED
    BY <1>0, <2>1, <2>2 DEF KeptObjects, Home
<1>6. ASSUME NEW j \in Jobs, PutReturns(j) PROVE KeptObjects'
  <2>1. /\ UNCHANGED <<stored, trees, condemned>> /\ known' = known \cup {op[j].ref}
        /\ op[j].kind = "put" /\ \A t \in Tiers : writes[j][t] \in {"no", "ok"}
    BY <1>6 DEF PutReturns, PutOver, Over
  <2>2. \A s \in Steady : writes[j][s] = "ok"
    BY <1>0, <2>1 DEF Shapes, PutShapes, Steady
  <2>3. \A s \in Steady : stored[s][op[j].ref] # "none"
    BY <2>2 DEF KeptWrites
  <2>4. op[j].ref \notin trees
    BY <2>1 DEF Shapes, OpShapes, OpShape, Agents
  <2> QED
    BY <2>1, <2>3, <2>4 DEF KeptObjects, Home
<1>7. ASSUME Crash PROVE KeptObjects'
  <2>0. PICK T : stored' = [t \in Tiers |-> [r \in Refs |->
                               IF <<t, r>> \in T THEN "torn" ELSE stored[t][r]]]
    BY <1>7, Zenon DEF Crash
  <2>1. \A s \in Tiers, r \in Refs : stored'[s][r] = stored[s][r] \/ stored'[s][r] = "torn"
    BY <2>0
  <2>2. UNCHANGED <<known, trees, condemned>>
    BY <1>7 DEF Crash
  <2>3. \A r : Home(r) \subseteq Tiers /\ Home(r)' = Home(r)
    BY <1>0, <2>2 DEF Home
  <2> QED
    BY <1>0, <2>1, <2>2, <2>3 DEF KeptObjects
<1> QED
  BY <1>1, <1>2, <1>3, <1>4, <1>5, <1>6, <1>7, Changes

LEMMA KeptSearchStep ==
    ASSUME Types, References, Shapes, KeptObjects, KeptSearch, Next
    PROVE  KeptSearch'
<1>0. /\ Jobs \subseteq Agents
      /\ \A j \in Jobs : op[j] \in OpRecord /\ op[j].tier \in Nat /\ op[j].tier \in Tiers
      /\ \A j \in Jobs : op[j].kind = "get" => op[j].ref \in (known \cup trees)
      /\ \A j \in Jobs : Searches(j)
      /\ known \cup trees \subseteq issued /\ known \cup trees \subseteq Refs
  BY TierFacts
     DEF Types, OpRecord, Agents, References, Shapes, OpShapes, OpShape, KeptSearch
<1>h. \A r : Home(r) \subseteq Nat
  BY TierFacts, TieredAssumption DEF Home, Steady
<1>1. ASSUME NEW a \in Agents, \A b \in Agents \ {a} : op'[b] = op[b],
             trees' = trees, condemned \subseteq condemned',
             a \in Jobs => Searches(a)'
      PROVE  KeptSearch'
  <2>1. ASSUME NEW j \in Jobs, j # a PROVE Searches(j)'
    BY <1>0, <1>1, <2>1 DEF Searches, Searched, Home
  <2> QED
    BY <1>0, <1>1, <2>1 DEF KeptSearch
<1>2. ASSUME NEW a \in Agents, OpEnds(a), UNCHANGED <<trees, condemned>> PROVE KeptSearch'
  BY <1>1, <1>2 DEF OpEnds, OpMoves, Searches
<1>3. ASSUME NEW a \in Agents, Serve(a) PROVE KeptSearch'
  <2>1. Served(a) /\ UNCHANGED <<known, trees, condemned>>
    BY <1>3, ServeMoves DEF Serve
  <2>2. op'[a].kind = op[a].kind /\ op'[a].ref = op[a].ref /\ op'[a].tier = op[a].tier
        /\ \A b \in Agents \ {a} : op'[b] = op[b]
    BY <2>1 DEF Served, OpMoves
  <2>3. ASSUME a \in Jobs, op[a].kind = "get", op[a].tier \in Home(op[a].ref),
               op'[a].answer = "missing"
        PROVE  op[a].ref \in condemned
    <3>1. stored[op[a].tier][op[a].ref] = "none" \/ (Kind[op[a].tier] = "minio" /\ Faults)
      BY <2>1, <2>3 DEF Served
    <3>2. ~(Kind[op[a].tier] = "minio" /\ Faults)
      BY <2>3, TieredAssumption DEF Home, Steady, References
    <3> QED
      BY <1>0, <2>3, <3>1, <3>2 DEF KeptObjects
  <2>4. ASSUME a \in Jobs PROVE Searches(a)'
    BY <1>0, <2>1, <2>2, <2>3, <2>4 DEF Home, Searches, Searched
  <2> QED
    BY <1>1, <2>1, <2>2, <2>4
<1>4. ASSUME NEW j \in Jobs, NEW r \in Refs, PutBegins(j, r) PROVE KeptSearch'
  <2>1. OpMoves(j, "put", r, 1, "gather", "ok", "none", 0) /\ UNCHANGED <<trees, condemned>>
    BY <1>0, <1>4, BeginMoves DEF PutBegins
  <2> QED
    BY <1>0, <1>1, <2>1 DEF OpMoves, Searches
<1>5. ASSUME NEW j \in Jobs, NEW r \in Refs, PutTree(j, r) PROVE KeptSearch'
  <2>1. op' = op /\ UNCHANGED <<known, condemned>> /\ trees' = trees \cup {r} /\ r \notin issued
    BY <1>5 DEF PutTree
  <2>2. \A j2 \in Jobs : op[j2].kind = "get" => Home(op[j2].ref)' = Home(op[j2].ref)
    BY <1>0, <2>1 DEF Home
  <2> QED
    BY <1>0, <2>1, <2>2 DEF KeptSearch, Searches, Searched
<1>6. ASSUME NEW j \in Jobs, NEW r \in Refs, GetBegins(j, r) PROVE KeptSearch'
  <2>1. OpMoves(j, "get", r, 1, Calls(1), "ok", "none", 0)
    BY <1>0, <1>6, TierFacts, BeginMoves DEF GetBegins
  <2>2. UNCHANGED <<trees, condemned>>
    BY <1>6 DEF GetBegins, history
  <2>3. \A s \in Home(r) : ~(s < 1)
    BY TierFacts, TieredAssumption DEF Home, Steady
  <2>4. Searches(j)'
    BY <2>1, <2>2, <2>3 DEF OpMoves, Home, Searches, Searched
  <2> QED
    BY <1>0, <1>1, <2>1, <2>2, <2>4 DEF OpMoves
<1>7. ASSUME NEW j \in Jobs, NEW r \in Refs, DeleteBegins(j, r) PROVE KeptSearch'
  <2>1. OpMoves(j, "delete", r, 1, Calls(1), "ok", "none", 0)
    BY <1>0, <1>7, TierFacts, BeginMoves DEF DeleteBegins
  <2>2. trees' = trees /\ condemned \subseteq condemned'
    BY <1>7 DEF DeleteBegins
  <2> QED
    BY <1>0, <1>1, <2>1, <2>2 DEF OpMoves, Searches
<1>8. ASSUME NEW j \in Jobs, NEW t \in Tiers, Write(j, t) \/ Written(j, t) PROVE KeptSearch'
  <2>1. UNCHANGED <<op, trees, condemned>>
    BY <1>8 DEF Write, Written, history
  <2> QED
    BY <2>1 DEF KeptSearch, Searches, Searched, Home
<1>9. ASSUME NEW j \in Jobs,
             \/ PutReturns(j) \/ PutRaises(j) \/ PutCancelled(j) \/ GetRaises(j)
             \/ DeleteEnds(j) \/ CallCancelled(j)
      PROVE  KeptSearch'
  <2>1. OpEnds(j) /\ UNCHANGED <<trees, condemned>>
    BY <1>0, <1>9, EndsMoves
       DEF PutReturns, PutRaises, PutOver, PutCancelled, GetRaises, DeleteEnds, CallCancelled,
           history
  <2> QED
    BY <1>0, <1>2, <2>1
<1>10. ASSUME NEW j \in Jobs, GetMisses(j) PROVE KeptSearch'
  <2>0. UNCHANGED <<trees, condemned>> /\ op[j].kind = "get" /\ op[j].answer = "missing"
    BY <1>10 DEF GetMisses, Ready
  <2>1. CASE OpEnds(j)
    BY <1>0, <1>2, <2>0, <2>1
  <2>2. CASE /\ op[j].tier + 1 \in Tiers
             /\ OpMoves(j, "get", op[j].ref, op[j].tier + 1, Calls(op[j].tier + 1), "ok",
                        op[j].data, op[j].errors)
    <3>1. \A s \in Home(op[j].ref) : s < op[j].tier + 1 => op[j].ref \in condemned
      <4>1. ASSUME NEW s \in Home(op[j].ref), s < op[j].tier + 1 PROVE Searched(j, s)
        BY <1>0, <1>h, <2>0, <4>1 DEF Searched
      <4>2. Searches(j)
        BY <1>0
      <4> QED
        BY <2>0, <4>1, <4>2 DEF Searches
    <3>2. Searches(j)'
      BY <2>0, <2>2, <3>1 DEF OpMoves, Home, Searches, Searched
    <3> QED
      BY <1>0, <1>1, <2>0, <2>2, <3>2 DEF OpMoves
  <2> QED
    BY <1>10, <2>1, <2>2, MissMoves
<1>11. ASSUME NEW j \in Jobs, GetFound(j) \/ Promoted(j) \/ DeleteGoesOn(j) PROVE KeptSearch'
  <2>1. GetFound(j) => UNCHANGED <<trees, condemned>>
    BY DEF GetFound, history
  <2>2. Promoted(j) => UNCHANGED <<trees, condemned>>
    BY DEF Promoted, history
  <2>3. DeleteGoesOn(j) => UNCHANGED <<trees, condemned>> /\ op[j].kind = "delete"
    BY DEF DeleteGoesOn, Ready, history
  <2> DEFINE Leaves == (\A b \in Agents \ {j} : op'[b] = op[b]) /\ op'[j].kind # "get"
  <2>4. ASSUME OpEnds(j) PROVE Leaves
    BY <2>4 DEF OpEnds, OpMoves
  <2>5. ASSUME NEW r, NEW h, NEW w, NEW d, NEW n, OpMoves(j, "promote", r, h, w, "ok", d, n)
        PROVE  Leaves
    BY <2>5 DEF OpMoves
  <2>6. DeleteGoesOn(j) => Leaves
    BY <1>0, <2>3, DeleteMoves DEF OpMoves
  <2>7. GetFound(j) \/ Promoted(j) => Leaves
    BY <1>0, <2>4, <2>5, FoundMoves, PromotedMoves
  <2>8. Leaves
    BY <1>11, <2>6, <2>7
  <2> QED
    BY <1>0, <1>1, <1>11, <2>1, <2>2, <2>3, <2>8 DEF Searches
<1>12. ASSUME \A j \in Jobs : op'[j] = op[j], UNCHANGED <<trees, condemned>> PROVE KeptSearch'
  BY <1>0, <1>12 DEF KeptSearch, Searches, Searched, Home
<1>s. Sweeper \in Agents /\ Sweeper \notin Jobs /\ op[Sweeper].tier + 1 \in Nat \ {0}
  BY TierFacts, TieredAssumption DEF Agents, Types, OpRecord
<1>13. ASSUME NEW t \in Nat \ {0}, SweepGoesTo(t), UNCHANGED history PROVE KeptSearch'
  BY <1>0, <1>s, <1>12, <1>13, SweepMoves DEF OpEnds, OpMoves, history
<1>14. ASSUME SweepBegins \/ SweepNextTier PROVE KeptSearch'
  BY <1>s, <1>13, <1>14 DEF SweepBegins, SweepNextTier
<1>15. ASSUME Evict \/ Evicted \/ SweepRaises PROVE KeptSearch'
  <2>1. \A j \in Jobs : op'[j] = op[j]
    BY <1>0, <1>s, <1>15, EvictMoves, EvictedMoves, EndsMoves
       DEF Evict, Evicted, SweepRaises, OpEnds, OpMoves
  <2> QED
    BY <1>12, <1>15, <2>1 DEF Evict, Evicted, SweepRaises, history
<1>16. ASSUME Crash PROVE KeptSearch'
  BY <1>0, <1>16 DEF Crash, KeptSearch, Searches, Idle
<1> QED
  BY <1>3, <1>4, <1>5, <1>6, <1>7, <1>8, <1>9, <1>10, <1>11, <1>14, <1>15, <1>16
     DEF Next, Job, Sweeps

LEMMA KeptWritesStep ==
    ASSUME Types, References, Shapes, KeptWrites, Next
    PROVE  KeptWrites'
<1>0. /\ Jobs \subseteq Agents /\ Steady \subseteq Tiers /\ 1 \in Tiers
      /\ Steady \cap (LRU \cup TTL) = {}
      /\ writes \in [Jobs -> [Tiers -> WriteState]]
      /\ \A j \in Jobs, s \in Tiers : writes[j][s] # "no" =>
            op[j].kind = "put" /\ op[j].ref \in Refs
            /\ op[j].ref \in issued \ (known \cup trees)
      /\ known \cup trees \subseteq issued
  <2>1. /\ Jobs \subseteq Agents /\ Steady \subseteq Tiers /\ 1 \in Tiers
        /\ Steady \cap (LRU \cup TTL) = {}
    BY TierFacts, TieredAssumption DEF Steady, Agents
  <2>2. writes \in [Jobs -> [Tiers -> WriteState]] /\ known \cup trees \subseteq issued
        /\ issued \subseteq Refs
    BY DEF Types, References
  <2>3. \A j \in Jobs : op[j].kind = "put" => op[j].ref \in issued \ (known \cup trees)
    BY <2>1 DEF Shapes, OpShapes, OpShape
  <2> QED
    BY <2>1, <2>2, <2>3 DEF Shapes, PutShapes
<1>1. ASSUME \A j \in Jobs, s \in Tiers : writes[j][s] # "no" =>
                op'[j].ref = op[j].ref /\ stored'[s][op[j].ref] = stored[s][op[j].ref],
             writes' = writes
      PROVE  KeptWrites'
  BY <1>0, <1>1 DEF KeptWrites
<1>2. ASSUME NEW j \in Jobs, op[j].kind # "put", \A b \in Agents \ {j} : op'[b] = op[b],
             UNCHANGED <<stored, writes>>
      PROVE  KeptWrites'
  BY <1>0, <1>1, <1>2
<1>3. ASSUME NEW j \in Jobs, OpEnds(j), stored' = stored,
             writes' = [writes EXCEPT ![j] = [t \in Tiers |-> "no"]]
      PROVE  KeptWrites'
  <2>1. \A i \in Jobs \ {j} : op'[i] = op[i] /\ writes'[i] = writes[i]
    BY <1>0, <1>3 DEF OpEnds, OpMoves
  <2>2. \A s \in Tiers : writes'[j][s] = "no"
    BY <1>0, <1>3
  <2> QED
    BY <1>0, <1>3, <2>1, <2>2 DEF KeptWrites
<1>4. ASSUME NEW a \in Agents, Serve(a) PROVE KeptWrites'
  <2>0. UNCHANGED writes
    BY <1>4 DEF Serve
  <2>1. Served(a) /\ UNCHANGED writes
    BY <1>4, <2>0, ServeMoves
  <2>2. ASSUME NEW j \in Jobs, NEW s \in Steady, writes[j][s] # "no"
        PROVE  op'[j].ref = op[j].ref /\ stored'[s][op[j].ref] = stored[s][op[j].ref]
    <3>1. s # op[a].tier \/ op[j].ref # op[a].ref
      BY <1>0, <2>1, <2>2, ServedRefs DEF Served
    <3>2. stored'[s][op[j].ref] = stored[s][op[j].ref]
      BY <1>0, <2>1, <2>2, <3>1 DEF Served, ObjectMoves
    <3> QED
      BY <1>0, <2>1, <3>2 DEF Served, OpMoves
  <2> QED
    BY <1>0, <2>1, <2>2 DEF KeptWrites
<1>5. ASSUME NEW j \in Jobs, NEW r \in Refs, PutBegins(j, r) PROVE KeptWrites'
  <2>1. OpMoves(j, "put", r, 1, "gather", "ok", "none", 0)
    BY <1>0, <1>5, BeginMoves DEF PutBegins
  <2>2. \A i \in Jobs \ {j} : op'[i] = op[i] /\ writes'[i] = writes[i]
    BY <1>0, <1>5, <2>1 DEF OpMoves, PutBegins
  <2>3. \A s \in Tiers : writes'[j][s] \in {"start", "no"}
    BY <1>0, <1>5 DEF PutBegins
  <2>4. stored' = stored
    BY <1>5 DEF PutBegins
  <2> QED
    BY <1>0, <2>2, <2>3, <2>4 DEF KeptWrites
<1>6. ASSUME NEW j \in Jobs, NEW r \in Refs, PutTree(j, r) PROVE KeptWrites'
  <2>1. /\ UNCHANGED <<op, writes>> /\ r \notin issued
        /\ stored' = [stored EXCEPT ![1][r] = "whole"]
    BY <1>6 DEF PutTree
  <2>2. \A s \in Tiers, q \in Refs \ {r} : stored'[s][q] = stored[s][q]
    BY <1>0, <2>1 DEF Types
  <2> QED
    BY <1>0, <1>1, <2>1, <2>2
<1>7. ASSUME NEW j \in Jobs, NEW r \in Refs, GetBegins(j, r) \/ DeleteBegins(j, r)
      PROVE  KeptWrites'
  <2>1. op[j].kind # "put" /\ UNCHANGED <<stored, writes>>
    BY <1>7 DEF GetBegins, DeleteBegins, Idle
  <2>2. \A b \in Agents \ {j} : op'[b] = op[b]
    BY <1>0, <1>7 DEF GetBegins, DeleteBegins, Types
  <2> QED
    BY <1>2, <2>1, <2>2
<1>8. ASSUME NEW j \in Jobs, NEW t \in Tiers, Write(j, t) PROVE KeptWrites'
  <2>1. Wrote(j, t) /\ op' = op
    BY <1>8, WriteWrites DEF Write
  <2>2. writes'[j][t] \in {"stored", "ok"} => stored'[t][op[j].ref] # "none"
    BY <2>1 DEF Wrote
  <2>3. ASSUME NEW i \in Jobs, NEW s \in Steady, i # j \/ s # t,
               writes'[i][s] \in {"stored", "ok"}
        PROVE  stored'[s][op[i].ref] # "none"
    <3>1. writes[i][s] \in {"stored", "ok"}
      BY <1>0, <2>1, <2>3 DEF Wrote, WriteMoves
    <3>2. s # t \/ op[i].ref # op[j].ref
      BY <1>0, <2>1, <2>3, <3>1 DEF Shapes, PutShapes, Wrote
    <3> QED
      BY <1>0, <2>1, <3>1, <3>2 DEF KeptWrites, Wrote, ObjectMoves
  <2> QED
    BY <2>1, <2>2, <2>3 DEF KeptWrites
<1>9. ASSUME NEW j \in Jobs, NEW t \in Tiers, Written(j, t) PROVE KeptWrites'
  <2>1. UNCHANGED <<stored, op>>
    BY <1>9 DEF Written
  <2>2. PICK state \in WriteState :
           WriteGoes(j, t, state) /\ (state = "ok" => writes[j][t] = "stored")
           /\ state # "stored"
    BY <1>9 DEF Written, WriteState
  <2>3. WriteMoves(j, t, state)
    BY <2>2, WriteBecomes
  <2> QED
    BY <1>0, <2>1, <2>2, <2>3 DEF KeptWrites, WriteMoves
<1>10. ASSUME NEW j \in Jobs, PutReturns(j) \/ PutRaises(j) \/ PutCancelled(j) PROVE KeptWrites'
  BY <1>0, <1>3, <1>10, EndsMoves DEF PutReturns, PutRaises, PutOver, PutCancelled
<1>11. ASSUME NEW j \in Jobs, GetRaises(j) \/ DeleteEnds(j) \/ CallCancelled(j)
       PROVE  KeptWrites'
  <2>1. OpEnds(j) /\ op[j].kind # "put" /\ UNCHANGED <<stored, writes>>
    BY <1>0, <1>11, EndsMoves DEF GetRaises, DeleteEnds, CallCancelled, Ready
  <2> QED
    BY <1>2, <2>1 DEF OpEnds, OpMoves
<1>12. ASSUME NEW j \in Jobs, GetMisses(j) \/ GetFound(j) \/ Promoted(j) \/ DeleteGoesOn(j)
       PROVE  KeptWrites'
  <2>1. UNCHANGED <<stored, writes>> /\ op[j].kind # "put"
    BY <1>12 DEF GetMisses, GetFound, Promoted, DeleteGoesOn, Ready
  <2>2. \A b \in Agents \ {j} : op'[b] = op[b]
    BY <1>12, MissMoves, FoundMoves, PromotedMoves, DeleteMoves DEF OpEnds, OpMoves
  <2> QED
    BY <1>2, <2>1, <2>2
<1>s. Sweeper \in Agents /\ Sweeper \notin Jobs /\ op[Sweeper].tier + 1 \in Nat \ {0}
  BY TierFacts, TieredAssumption DEF Agents, Types, OpRecord
<1>13. ASSUME UNCHANGED <<stored, writes>>, \A j \in Jobs : op'[j] = op[j] PROVE KeptWrites'
  BY <1>1, <1>13
<1>14. ASSUME NEW t \in Nat \ {0}, SweepGoesTo(t), UNCHANGED <<stored, writes>>
       PROVE  KeptWrites'
  BY <1>0, <1>s, <1>13, <1>14, SweepMoves DEF OpEnds, OpMoves
<1>15. ASSUME SweepBegins \/ SweepNextTier PROVE KeptWrites'
  BY <1>s, <1>14, <1>15 DEF SweepBegins, SweepNextTier
<1>16. ASSUME Evict \/ Evicted \/ SweepRaises PROVE KeptWrites'
  <2>1. \A j \in Jobs : op'[j] = op[j]
    BY <1>0, <1>s, <1>16, EvictMoves, EvictedMoves, EndsMoves
       DEF Evict, Evicted, SweepRaises, OpEnds, OpMoves
  <2> QED
    BY <1>13, <1>16, <2>1 DEF Evict, Evicted, SweepRaises
<1>17. ASSUME Crash PROVE KeptWrites'
  BY <1>0, <1>17 DEF Crash, KeptWrites
<1> QED
  BY <1>4, <1>5, <1>6, <1>7, <1>8, <1>9, <1>10, <1>11, <1>12, <1>15, <1>16, <1>17
     DEF Next, Job, Sweeps

LEMMA KeptSearchedStep ==
    ASSUME Types, References, Shapes, KeptSearch, KeptSearched, Next
    PROVE  KeptSearched'
<1>1. ASSUME NEW j \in Jobs, GetMisses(j), op[j].tier = N, Steady # {}
      PROVE  op[j].ref \in condemned
  <2>1. Searches(j) /\ op[j].kind = "get" /\ op[j].answer = "missing"
    BY <1>1 DEF KeptSearch, GetMisses, Ready
  <2>2. PICK s \in Home(op[j].ref) : s \in Tiers
    BY <1>1, TierFacts, TieredAssumption DEF Home, Steady
  <2>3. Searched(j, s)
    BY <1>1, <2>1, <2>2, TierFacts, TieredAssumption DEF Searched
  <2> QED
    BY <2>1, <2>2, <2>3 DEF Searches
<1>2. condemned \subseteq condemned'
  <2>1. CASE Crash
    BY <2>1 DEF Crash
  <2>2. CASE \E a \in Agents : Serve(a)
    BY <2>2 DEF Serve
  <2>3. CASE \E j \in Jobs : PutReturns(j)
    BY <2>3 DEF PutReturns
  <2>4. CASE \E j \in Jobs, r \in Refs : PutTree(j, r) \/ DeleteBegins(j, r)
    BY <2>4 DEF PutTree, DeleteBegins
  <2>5. CASE \E j \in Jobs, t \in Tiers : Write(j, t)
    BY <2>5 DEF Write
  <2> QED
    BY <2>1, <2>2, <2>3, <2>4, <2>5, Changes
<1>3. ASSUME missed' # missed PROVE \E j \in Jobs : GetMisses(j)
  <2>1. ASSUME NEW a \in Agents, Serve(a) PROVE missed' = missed
    BY <2>1 DEF Serve
  <2>2. ASSUME NEW j \in Jobs, NEW r \in Refs,
               PutBegins(j, r) \/ PutTree(j, r) \/ GetBegins(j, r) \/ DeleteBegins(j, r)
        PROVE  missed' = missed
    BY <2>2 DEF PutBegins, PutTree, GetBegins, DeleteBegins, history
  <2>3. ASSUME NEW j \in Jobs, NEW t \in Tiers, Write(j, t) \/ Written(j, t)
        PROVE  missed' = missed
    BY <2>3 DEF Write, Written, history
  <2>4. ASSUME NEW j \in Jobs,
               \/ PutReturns(j) \/ PutRaises(j) \/ PutCancelled(j) \/ GetRaises(j)
               \/ GetFound(j) \/ Promoted(j) \/ DeleteGoesOn(j) \/ DeleteEnds(j)
               \/ CallCancelled(j)
        PROVE  missed' = missed
    BY <2>4 DEF PutReturns, PutRaises, PutCancelled, GetRaises, GetFound, Promoted,
                DeleteGoesOn, DeleteEnds, CallCancelled, history
  <2>5. Sweeps \/ Crash => missed' = missed
    BY DEF Sweeps, SweepBegins, SweepNextTier, Evict, Evicted, SweepRaises, Crash, history
  <2> QED
    BY <1>3, <2>1, <2>2, <2>3, <2>4, <2>5 DEF Next, Job
<1>4. ASSUME NEW j \in Jobs, GetMisses(j)
      PROVE  missed' = missed \/ (op[j].tier = N /\ missed' = missed \cup {op[j].ref})
  <2>1. op[j].tier \in Nat /\ op[j].tier <= N
    BY TierFacts DEF Types, OpRecord, Agents
  <2> QED
    BY <1>4, <2>1, TieredAssumption DEF GetMisses
<1> QED
  BY <1>1, <1>2, <1>3, <1>4 DEF KeptSearched, Steady

(***************************************************************************)
(* What was deleted is gone.                                               *)
(***************************************************************************)

LEMMA ExcusedGrows ==
    ASSUME Next
    PROVE  excused \subseteq excused'
<1>1. ASSUME NEW a \in Agents, Serve(a) PROVE excused \subseteq excused'
  BY <1>1 DEF Serve, Excuses
<1>2. ASSUME NEW j \in Jobs, NEW r \in Refs,
             PutBegins(j, r) \/ PutTree(j, r) \/ GetBegins(j, r) \/ DeleteBegins(j, r)
      PROVE  excused' = excused
  BY <1>2 DEF PutBegins, PutTree, GetBegins, DeleteBegins, history
<1>3. ASSUME NEW j \in Jobs, NEW t \in Tiers, Write(j, t) \/ Written(j, t)
      PROVE  excused' = excused
  BY <1>3 DEF Write, Written, history
<1>4. ASSUME NEW j \in Jobs,
             \/ PutReturns(j) \/ PutRaises(j) \/ PutCancelled(j) \/ GetRaises(j) \/ GetFound(j)
             \/ GetMisses(j) \/ Promoted(j) \/ CallCancelled(j)
      PROVE  excused' = excused
  BY <1>4 DEF PutReturns, PutRaises, PutCancelled, GetRaises, GetFound, GetMisses, Promoted,
              CallCancelled, history
<1>5. ASSUME NEW j \in Jobs, DeleteGoesOn(j) \/ DeleteEnds(j) PROVE excused \subseteq excused'
  BY <1>5 DEF DeleteGoesOn, DeleteEnds
<1>6. Sweeps => excused' = excused
  BY DEF Sweeps, SweepBegins, SweepNextTier, Evict, Evicted, SweepRaises, history
<1>7. Crash => excused \subseteq excused'
  BY DEF Crash, Excuses
<1> QED
  BY <1>1, <1>2, <1>3, <1>4, <1>5, <1>6, <1>7 DEF Next, Job

(* Only a promotion or a crash can put a reference back that is condemned,    *)
(* and both excuse it.                                                      *)
LEMMA NoneStays ==
    ASSUME Types, References, Shapes, Next, NEW r \in condemned, r \notin excused',
           NEW t \in Tiers, stored[t][r] = "none"
    PROVE  stored'[t][r] = "none"
<1>0. r \in known \cup trees /\ r \in issued /\ r \in Refs
  BY DEF References
<1>1. CASE stored' = stored
  BY <1>1
<1>2. ASSUME NEW a \in Agents, Serve(a) PROVE stored'[t][r] = "none"
  <2>1. Served(a)
    BY <1>2, ServeMoves
  <2>2. CASE t = op[a].tier /\ r = op[a].ref
    <3>1. op[a].kind # "promote"
      BY <1>2, <2>2 DEF Serve, Excuses
    <3> QED
      BY <2>1, <2>2, <3>1 DEF Served
  <2>3. CASE ~(t = op[a].tier /\ r = op[a].ref)
    BY <1>0, <2>1, <2>3 DEF Served, ObjectMoves
  <2> QED
    BY <2>2, <2>3
<1>3. ASSUME NEW j \in Jobs, NEW q \in Refs, PutTree(j, q) PROVE stored'[t][r] = "none"
  BY <1>0, <1>3 DEF PutTree, Types
<1>4. ASSUME NEW j \in Jobs, NEW u \in Tiers, Write(j, u) PROVE stored'[t][r] = "none"
  <2>1. Wrote(j, u)
    BY <1>4, WriteWrites
  <2> QED
    BY <1>0, <2>1 DEF Wrote, ObjectMoves
<1>5. CASE Crash
  <2>1. PICK T : /\ stored' = [u \in Tiers |-> [q \in Refs |->
                                  IF <<u, q>> \in T THEN "torn" ELSE stored[u][q]]]
                 /\ excused' = Excuses({p[2] : p \in T})
    BY <1>5 DEF Crash
  <2>2. <<t, r>> \in T => r \in {p[2] : p \in T}
    OBVIOUS
  <2>3. <<t, r>> \notin T
    BY <2>1, <2>2 DEF Excuses
  <2> QED
    BY <1>0, <2>1, <2>3
<1>6. ASSUME NEW j \in Jobs, NEW q \in Refs, DeleteBegins(j, q) PROVE stored' = stored
  BY <1>6 DEF DeleteBegins
<1>7. ASSUME NEW j \in Jobs, PutReturns(j) PROVE stored' = stored
  BY <1>7 DEF PutReturns
<1> QED
  BY <1>1, <1>2, <1>3, <1>4, <1>5, <1>6, <1>7, Changes

LEMMA DeletedStep ==
    ASSUME Types, References, Shapes, Gone, DeletedIsGone, Next
    PROVE  DeletedIsGone'
<1>1. ASSUME NEW r \in deleted, r \notin excused', NEW t \in Tiers
      PROVE  stored'[t][r] = "none"
  <2>1. r \in condemned /\ r \notin excused
    BY <1>1, ExcusedGrows DEF References
  <2> QED
    BY <1>1, <2>1, NoneStays DEF DeletedIsGone
<1>2. ASSUME NEW j \in Jobs, DeleteEnds(j), op[j].ref \notin excused', NEW t \in Tiers
      PROVE  stored'[t][op[j].ref] = "none"
  <2>1. /\ Clears(j) /\ op[j].kind = "delete" /\ op[j].at \in {"ran", "answered"}
        /\ ~Fault(j) /\ op[j].ref \notin excused /\ op[j].tier = N /\ stored' = stored
    BY <1>2 DEF Gone, DeleteEnds, Ready
  <2>2. t < N \/ t = N
    BY TierFacts, TieredAssumption
  <2> QED
    BY <2>1, <2>2 DEF Clears
<1>3. ASSUME NEW j \in Jobs, DeleteEnds(j) PROVE deleted' \subseteq deleted \cup {op[j].ref}
  BY <1>3 DEF DeleteEnds
<1>4. CASE deleted' = deleted
  BY <1>1, <1>4 DEF DeletedIsGone
<1>5. ASSUME deleted' # deleted PROVE \E j \in Jobs : DeleteEnds(j)
  <2>1. ASSUME NEW a \in Agents, Serve(a) PROVE deleted' = deleted
    BY <2>1 DEF Serve
  <2>2. ASSUME NEW j \in Jobs, NEW r \in Refs,
               PutBegins(j, r) \/ PutTree(j, r) \/ GetBegins(j, r) \/ DeleteBegins(j, r)
        PROVE  deleted' = deleted
    BY <2>2 DEF PutBegins, PutTree, GetBegins, DeleteBegins, history
  <2>3. ASSUME NEW j \in Jobs, NEW t \in Tiers, Write(j, t) \/ Written(j, t)
        PROVE  deleted' = deleted
    BY <2>3 DEF Write, Written, history
  <2>4. ASSUME NEW j \in Jobs,
               \/ PutReturns(j) \/ PutRaises(j) \/ PutCancelled(j) \/ GetRaises(j)
               \/ GetFound(j) \/ GetMisses(j) \/ Promoted(j) \/ DeleteGoesOn(j)
               \/ CallCancelled(j)
        PROVE  deleted' = deleted
    BY <2>4 DEF PutReturns, PutRaises, PutCancelled, GetRaises, GetFound, GetMisses, Promoted,
                DeleteGoesOn, CallCancelled, history
  <2>5. Sweeps \/ Crash => deleted' = deleted
    BY DEF Sweeps, SweepBegins, SweepNextTier, Evict, Evicted, SweepRaises, Crash, history
  <2> QED
    BY <1>5, <2>1, <2>2, <2>3, <2>4, <2>5 DEF Next, Job
<1>6. ASSUME NEW j \in Jobs, DeleteEnds(j) PROVE DeletedIsGone'
  BY <1>1, <1>2, <1>3, <1>6 DEF DeletedIsGone
<1> QED
  BY <1>4, <1>5, <1>6

LEMMA GoneStep ==
    ASSUME Types, References, Shapes, Gone, Next
    PROVE  Gone'
<1>0. /\ Jobs \subseteq Agents /\ Sweeper \in Agents /\ Sweeper \notin Jobs
      /\ \A j \in Jobs : Clears(j) /\ op[j].tier \in Tiers /\ op[j].tier \in Nat
      /\ \A j \in Jobs : op[j].kind = "delete" => op[j].ref \in condemned
      /\ op[Sweeper].tier + 1 \in Nat \ {0}
  BY TierFacts, TieredAssumption
     DEF Gone, Agents, Types, OpRecord, Shapes, OpShapes, OpShape
<1>s. ASSUME NEW j \in Jobs, op[j].kind = "delete", op[j].ref \notin excused'
      PROVE  /\ op[j].ref \notin excused
             /\ \A u \in Tiers : stored[u][op[j].ref] = "none" => stored'[u][op[j].ref] = "none"
  BY <1>0, <1>s, NoneStays, ExcusedGrows
<1>1. ASSUME NEW j \in Jobs, op'[j] = op[j] PROVE Clears(j)'
  BY <1>0, <1>1, <1>s DEF Clears, Fault
<1>2. ASSUME NEW a \in Agents, \A b \in Agents \ {a} : op'[b] = op[b],
             a \in Jobs => Clears(a)'
      PROVE  Gone'
  BY <1>0, <1>1, <1>2 DEF Gone
<1>3. ASSUME NEW a \in Agents, \A b \in Agents \ {a} : op'[b] = op[b],
             a \in Jobs => op'[a].kind # "delete"
      PROVE  Gone'
  BY <1>2, <1>3 DEF Clears
<1>4. ASSUME op' = op PROVE Gone'
  BY <1>1, <1>4 DEF Gone
<1>5. ASSUME NEW a \in Agents, Serve(a) PROVE Gone'
  <2>1. Served(a)
    BY <1>5, ServeMoves
  <2>2. /\ op'[a].kind = op[a].kind /\ op'[a].ref = op[a].ref /\ op'[a].tier = op[a].tier
        /\ \A b \in Agents \ {a} : op'[b] = op[b]
    BY <2>1 DEF Served, OpMoves
  <2>3. ASSUME a \in Jobs, op[a].kind = "delete", op[a].ref \notin excused' PROVE Clears(a)'
    <3>1. \A u \in Tiers : u < op[a].tier => stored'[u][op[a].ref] = "none"
      BY <1>0, <1>s, <2>3 DEF Clears
    <3>2. ~Fault(a)' => stored'[op[a].tier][op[a].ref] = "none"
      BY <2>1, <2>2, <2>3 DEF Served, Fault
    <3> QED
      BY <2>2, <3>1, <3>2 DEF Clears
  <2>4. a \in Jobs => Clears(a)'
    BY <2>2, <2>3 DEF Clears
  <2> QED
    BY <1>2, <2>2, <2>4
<1>6. ASSUME NEW a \in Agents, OpEnds(a) PROVE Gone'
  BY <1>3, <1>6 DEF OpEnds, OpMoves
<1>7. ASSUME NEW j \in Jobs, NEW r \in Refs, PutBegins(j, r) PROVE Gone'
  <2>1. OpMoves(j, "put", r, 1, "gather", "ok", "none", 0)
    BY <1>0, <1>7, BeginMoves DEF PutBegins
  <2> QED
    BY <1>0, <1>3, <2>1 DEF OpMoves
<1>8. ASSUME NEW j \in Jobs, NEW r \in Refs, GetBegins(j, r) PROVE Gone'
  <2>1. OpMoves(j, "get", r, 1, Calls(1), "ok", "none", 0)
    BY <1>0, <1>8, TierFacts, BeginMoves DEF GetBegins
  <2> QED
    BY <1>0, <1>3, <2>1 DEF OpMoves
<1>9. ASSUME NEW j \in Jobs, NEW r \in Refs, DeleteBegins(j, r) PROVE Gone'
  <2>1. OpMoves(j, "delete", r, 1, Calls(1), "ok", "none", 0)
    BY <1>0, <1>9, TierFacts, BeginMoves DEF DeleteBegins
  <2>2. Calls(1) \notin {"ran", "answered"} /\ \A u \in Tiers : ~(u < 1)
    BY TierFacts
  <2>3. Clears(j)'
    BY <2>1, <2>2 DEF Clears, OpMoves
  <2> QED
    BY <1>0, <1>2, <2>1, <2>3 DEF OpMoves
<1>10. ASSUME NEW j \in Jobs, NEW r \in Refs, PutTree(j, r) PROVE Gone'
  BY <1>4, <1>10 DEF PutTree
<1>11. ASSUME NEW j \in Jobs, NEW t \in Tiers, Write(j, t) \/ Written(j, t) PROVE Gone'
  BY <1>4, <1>11 DEF Write, Written
<1>12. ASSUME NEW j \in Jobs,
              \/ PutReturns(j) \/ PutRaises(j) \/ PutCancelled(j) \/ GetRaises(j)
              \/ DeleteEnds(j) \/ CallCancelled(j)
       PROVE  Gone'
  BY <1>0, <1>6, <1>12, EndsMoves
     DEF PutReturns, PutRaises, PutOver, PutCancelled, GetRaises, DeleteEnds, CallCancelled
<1>13. ASSUME NEW j \in Jobs, GetMisses(j) \/ GetFound(j) \/ Promoted(j) PROVE Gone'
  <2>1. (\A b \in Agents \ {j} : op'[b] = op[b]) /\ op'[j].kind # "delete"
    BY <1>13, MissMoves, FoundMoves, PromotedMoves DEF OpEnds, OpMoves
  <2> QED
    BY <1>0, <1>3, <2>1
<1>14. ASSUME NEW j \in Jobs, DeleteGoesOn(j) PROVE Gone'
  <2>1. /\ op[j].tier + 1 \in Tiers
        /\ OpMoves(j, op[j].kind, op[j].ref, op[j].tier + 1, Calls(op[j].tier + 1), "ok",
                   op[j].data, Errors(j))
    BY <1>14, DeleteMoves
  <2>2. /\ op[j].kind = "delete" /\ op[j].at \in {"ran", "answered"}
        /\ excused' = IF Fault(j) THEN excused \cup {op[j].ref} ELSE excused
    BY <1>14 DEF DeleteGoesOn, Ready
  <2>3. ASSUME op[j].ref \notin excused', NEW u \in Tiers, u < op[j].tier + 1
        PROVE  stored'[u][op[j].ref] = "none"
    <3>1. op[j].ref \notin excused /\ ~Fault(j) /\ Clears(j)
      BY <1>0, <2>2, <2>3
    <3>2. u < op[j].tier \/ u = op[j].tier
      BY <1>0, <2>3, TierFacts
    <3>3. stored[u][op[j].ref] = "none"
      BY <2>2, <3>1, <3>2 DEF Clears
    <3> QED
      BY <1>s, <2>2, <2>3, <3>3
  <2>4. Calls(op[j].tier + 1) \notin {"ran", "answered"}
    BY <2>1, CallsTo
  <2>5. Clears(j)'
    BY <2>1, <2>3, <2>4 DEF Clears, OpMoves
  <2> QED
    BY <1>0, <1>2, <2>1, <2>5 DEF OpMoves
<1>15. ASSUME NEW t \in Nat \ {0}, SweepGoesTo(t) PROVE Gone'
  BY <1>0, <1>3, <1>15, SweepMoves DEF OpEnds, OpMoves
<1>16. ASSUME SweepBegins \/ SweepNextTier PROVE Gone'
  BY <1>0, <1>15, <1>16 DEF SweepBegins, SweepNextTier
<1>17. ASSUME Evict \/ Evicted \/ SweepRaises PROVE Gone'
  <2>1. \A b \in Agents \ {Sweeper} : op'[b] = op[b]
    BY <1>0, <1>17, EvictMoves, EvictedMoves, EndsMoves
       DEF Evict, Evicted, SweepRaises, OpEnds, OpMoves
  <2> QED
    BY <1>0, <1>3, <2>1
<1>18. ASSUME Crash PROVE Gone'
  BY <1>0, <1>18 DEF Crash, Gone, Clears, Idle
<1> QED
  BY <1>5, <1>7, <1>8, <1>9, <1>10, <1>11, <1>12, <1>13, <1>14, <1>16, <1>17, <1>18
     DEF Next, Job, Sweeps

(***************************************************************************)
(* What is stored is accounted for.                                        *)
(***************************************************************************)

(* Between its answer and its return to the sweep, an eviction holds the loop. *)
LEMMA EvictsStep ==
    ASSUME Types, References, Shapes, OnlyCertainEvict, Evicts, Next
    PROVE  Evicts'
<1>0. /\ Jobs \subseteq Agents /\ Sweeper \in Agents /\ Sweeper \notin Jobs
      /\ op[Sweeper].tier + 1 \in Nat \ {0} /\ op[Sweeper].tier \in Tiers
      /\ op[Sweeper].at = "ran" => Kind[op[Sweeper].tier] # "postgres"
      /\ op[Sweeper].kind = "evict" /\ op[Sweeper].at = "ran" => op[Sweeper].ref \in Refs
  BY TierFacts, TieredAssumption
     DEF Agents, Types, OpRecord, Shapes, OpShapes, OpShape, Waits, References
<1>1. ASSUME op'[Sweeper] = op[Sweeper],
             op[Sweeper].kind = "evict" /\ op[Sweeper].at = "ran" =>
                stored'[op[Sweeper].tier][op[Sweeper].ref]
                  = stored[op[Sweeper].tier][op[Sweeper].ref]
      PROVE  Evicts'
  BY <1>1 DEF Evicts
<1>2. ASSUME stored' = stored, op'[Sweeper] = op[Sweeper] PROVE Evicts'
  BY <1>1, <1>2
<1>3. ASSUME NEW j \in Jobs, \A b \in Agents \ {j} : op'[b] = op[b], stored' = stored
      PROVE  Evicts'
  BY <1>0, <1>2, <1>3
<1>4. ASSUME op'[Sweeper].at # "ran" PROVE Evicts'
  BY <1>4 DEF Evicts
<1>5. ASSUME Serve(Sweeper) PROVE Evicts'
  <2>1. Served(Sweeper)
    BY <1>0, <1>5, ServeMoves
  <2>2. op'[Sweeper].kind = op[Sweeper].kind /\ op'[Sweeper].ref = op[Sweeper].ref
        /\ op'[Sweeper].tier = op[Sweeper].tier
    BY <2>1 DEF Served, OpMoves
  <2>3. op[Sweeper].kind = "evict" => Certain(op[Sweeper].tier)
    BY <1>0, <2>1, ServedRefs DEF OnlyCertainEvict
  <2> QED
    BY <2>1, <2>2, <2>3 DEF Evicts, Served, Certain
<1>6. ASSUME NEW a \in Agents, a # Sweeper, Serve(a) PROVE Evicts'
  <2>1. Served(a) /\ op'[Sweeper] = op[Sweeper]
    BY <1>0, <1>6, ServeMoves DEF Served, OpMoves
  <2>2. op[Sweeper].at = "ran" => op[a].at = "sent"
    BY <1>0, <1>6 DEF Serve, Shapes, OneHolds, Holds
  <2>3. op[a].at = "sent" => Kind[op[a].tier] = "postgres"
    BY DEF Shapes, OpShapes, OpShape
  <2> QED
    BY <1>0, <1>1, <2>1, <2>2, <2>3 DEF Served, ObjectMoves
<1>7. ASSUME NEW j \in Jobs, NEW r \in Refs, PutTree(j, r) PROVE Evicts'
  BY <1>0, <1>4, <1>7 DEF PutTree, Turn, Holds
<1>8. ASSUME NEW j \in Jobs, NEW r \in Refs,
             PutBegins(j, r) \/ GetBegins(j, r) \/ DeleteBegins(j, r)
      PROVE  Evicts'
  <2>1. stored' = stored /\ \A b \in Agents \ {j} : op'[b] = op[b]
    BY <1>8 DEF PutBegins, GetBegins, DeleteBegins, Types
  <2> QED
    BY <1>3, <2>1
<1>9. ASSUME NEW j \in Jobs, NEW t \in Tiers, Write(j, t) PROVE Evicts'
  <2>1. Wrote(j, t) /\ op' = op
    BY <1>9, WriteWrites DEF Write
  <2>2. op[Sweeper].at = "ran" => Kind[t] = "postgres"
    BY <1>0, <1>9 DEF Write, Turn, Holds
  <2> QED
    BY <1>0, <1>1, <2>1, <2>2 DEF Wrote, ObjectMoves
<1>10. ASSUME NEW j \in Jobs, NEW t \in Tiers, Written(j, t) PROVE Evicts'
  BY <1>2, <1>10 DEF Written
<1>11. ASSUME NEW j \in Jobs,
              \/ PutReturns(j) \/ PutRaises(j) \/ PutCancelled(j) \/ GetRaises(j)
              \/ DeleteEnds(j) \/ CallCancelled(j)
       PROVE  Evicts'
  <2>1. OpEnds(j) /\ stored' = stored
    BY <1>0, <1>11, EndsMoves
       DEF PutReturns, PutRaises, PutOver, PutCancelled, GetRaises, DeleteEnds, CallCancelled
  <2> QED
    BY <1>3, <2>1 DEF OpEnds, OpMoves
<1>12. ASSUME NEW j \in Jobs, GetMisses(j) \/ GetFound(j) \/ Promoted(j) \/ DeleteGoesOn(j)
       PROVE  Evicts'
  <2>1. stored' = stored
    BY <1>12 DEF GetMisses, GetFound, Promoted, DeleteGoesOn
  <2>2. \A b \in Agents \ {j} : op'[b] = op[b]
    BY <1>12, MissMoves, FoundMoves, PromotedMoves, DeleteMoves DEF OpEnds, OpMoves
  <2> QED
    BY <1>3, <2>1, <2>2
<1>13. ASSUME NEW t \in Nat \ {0}, SweepGoesTo(t) PROVE Evicts'
  BY <1>4, <1>13, SweepMoves DEF OpEnds, OpMoves
<1>14. ASSUME SweepBegins \/ SweepNextTier PROVE Evicts'
  BY <1>0, <1>13, <1>14 DEF SweepBegins, SweepNextTier
<1>15. ASSUME Evict PROVE Evicts'
  BY <1>0, <1>4, <1>15, EvictMoves, CallsTo DEF OpMoves
<1>16. ASSUME Evicted PROVE Evicts'
  BY <1>4, <1>16, EvictedMoves DEF OpMoves
<1>17. ASSUME SweepRaises PROVE Evicts'
  BY <1>0, <1>4, <1>17, EndsMoves DEF SweepRaises, OpEnds, OpMoves
<1>18. ASSUME Crash PROVE Evicts'
  BY <1>0, <1>4, <1>18 DEF Crash, Idle
<1> QED
  BY <1>5, <1>6, <1>7, <1>8, <1>9, <1>10, <1>11, <1>12, <1>14, <1>15, <1>16, <1>17, <1>18
     DEF Next, Job, Sweeps

LEMMA PlacedStep ==
    ASSUME Types, References, Shapes, Gone, OnlyCertainEvict, Evicts, Next,
           NEW t \in Tiers, NEW r \in Refs, Placed(t, r)
    PROVE  Placed(t, r)'
<1>0. /\ Jobs \subseteq Agents /\ Sweeper \in Agents /\ Sweeper \notin Jobs
      /\ op[Sweeper].tier + 1 \in Nat \ {0}
      /\ writes \in [Jobs -> [Tiers -> WriteState]] /\ tracked \in [Tiers -> SUBSET Refs]
      /\ excused \subseteq excused'
      /\ \A j \in Jobs, u \in Tiers : writes[j][u] # "no" => op[j].kind = "put"
  BY TierFacts, TieredAssumption, ExcusedGrows
     DEF Agents, Types, OpRecord, Shapes, PutShapes
<1>1. ASSUME stored'[t][r] # "none" => stored[t][r] # "none",
             r \in tracked[t] => r \in tracked'[t] \cup excused' \/ stored[t][r] = "none",
             trees \subseteq trees',
             <<t, r>> \in forgotten /\ stored'[t][r] # "none" => <<t, r>> \in forgotten',
             \A j \in Jobs : Tracks(j, t, r) /\ stored'[t][r] # "none" =>
                Tracks(j, t, r)' \/ r \in tracked'[t] \/ <<t, r>> \in forgotten'
      PROVE  Placed(t, r)'
  BY <1>0, <1>1 DEF Placed
<1>2. ASSUME NEW j \in Jobs, UNCHANGED <<stored, tracked, trees, forgotten, writes>>,
             \A b \in Agents \ {j} : op'[b] = op[b], ~Tracks(j, t, r)
      PROVE  Placed(t, r)'
  <2>1. \A i \in Jobs : Tracks(i, t, r) => Tracks(i, t, r)'
    BY <1>0, <1>2 DEF Tracks
  <2> QED
    BY <1>1, <1>2, <2>1
<1>3. ASSUME NEW a \in Agents, Serve(a) PROVE Placed(t, r)'
  <2>1. Served(a) /\ UNCHANGED <<tracked, trees, writes>>
    BY <1>3, ServeMoves DEF Serve, memory
  <2>2. /\ op'[a].kind = op[a].kind /\ op'[a].ref = op[a].ref /\ op'[a].tier = op[a].tier
        /\ op'[a].at \in {"ran", "answered"} /\ op[a].at \in {"run", "sent"}
        /\ \A b \in Agents \ {a} : op'[b] = op[b]
    BY <1>3, <2>1 DEF Served, OpMoves, Serve
  <2>3. <<t, r>> \in forgotten /\ stored'[t][r] # "none" => <<t, r>> \in forgotten'
    BY <1>3 DEF Serve, Forgets
  <2>4. \A i \in Jobs : Tracks(i, t, r) => Tracks(i, t, r)'
    BY <1>0, <2>1, <2>2 DEF Tracks
  <2>5. CASE t = op[a].tier /\ r = op[a].ref /\ op[a].kind = "promote"
    <3>1. a \in Jobs
      BY <2>1, <2>5, ServedRefs
    <3>2. CASE op'[a].answer = "ok"
      BY <2>2, <2>5, <3>1, <3>2 DEF Placed, Tracks
    <3>3. CASE op'[a].answer = "error"
      <4>1. stored'[t][r] # "none" => <<t, r>> \in forgotten'
        <5>1. PICK o \in Effects(a) :
                 /\ op' = [op EXCEPT ![a].answer = o.answer,
                                     ![a].at = IF @ = "run" THEN "ran" ELSE "answered"]
                 /\ Forgets(IF op[a].kind = "promote" /\ o.answer = "error"
                            THEN {<<op[a].tier, op[a].ref>>} ELSE {})
          BY <1>3 DEF Serve
        <5>2. o.answer = "error"
          BY <3>3, <5>1 DEF Types, OpRecord
        <5> QED
          BY <2>5, <5>1, <5>2 DEF Forgets
      <4> QED
        BY <4>1 DEF Placed
    <3> QED
      BY <2>1, <2>5, <3>2, <3>3 DEF Served
  <2>6. CASE t = op[a].tier /\ r = op[a].ref /\ op[a].kind # "promote"
    <3>1. stored'[t][r] # "none" => stored[t][r] # "none"
      BY <2>1, <2>6 DEF Served
    <3> QED
      BY <1>1, <2>1, <2>3, <2>4, <3>1
  <2>7. CASE ~(t = op[a].tier /\ r = op[a].ref)
    <3>1. stored'[t][r] = stored[t][r]
      BY <2>1, <2>7 DEF Served, ObjectMoves
    <3> QED
      BY <1>1, <2>1, <2>3, <2>4, <3>1
  <2> QED
    BY <2>5, <2>6, <2>7
<1>4. ASSUME NEW j \in Jobs, NEW q \in Refs,
             PutBegins(j, q) \/ GetBegins(j, q) \/ DeleteBegins(j, q)
      PROVE  Placed(t, r)'
  <2>1. op[j].kind = "none"
    BY <1>4 DEF PutBegins, GetBegins, DeleteBegins, Idle
  <2>2. UNCHANGED <<stored, tracked, trees, forgotten>>
        /\ \A b \in Agents \ {j} : op'[b] = op[b]
    BY <1>4 DEF PutBegins, GetBegins, DeleteBegins, Types, memory, history
  <2>3. \A i \in Jobs \ {j} : writes'[i] = writes[i]
    BY <1>0, <1>4 DEF PutBegins, GetBegins, DeleteBegins
  <2>4. ~Tracks(j, t, r)
    BY <1>0, <2>1 DEF Tracks
  <2>5. \A i \in Jobs : Tracks(i, t, r) => Tracks(i, t, r)'
    BY <1>0, <2>2, <2>3, <2>4 DEF Tracks
  <2> QED
    BY <1>1, <2>2, <2>5
<1>5. ASSUME NEW j \in Jobs, NEW q \in Refs, PutTree(j, q) PROVE Placed(t, r)'
  <2>1. /\ UNCHANGED <<op, writes, tracked, forgotten>> /\ trees' = trees \cup {q}
        /\ stored' = [stored EXCEPT ![1][q] = "whole"]
    BY <1>5 DEF PutTree, memory
  <2>2. CASE r = q
    BY <2>1, <2>2 DEF Placed
  <2>3. CASE r # q
    <3>1. stored'[t][r] = stored[t][r]
      BY <2>1, <2>3, TierFacts DEF Types
    <3>2. \A i \in Jobs : Tracks(i, t, r) => Tracks(i, t, r)'
      BY <2>1 DEF Tracks
    <3> QED
      BY <1>1, <2>1, <3>1, <3>2
  <2> QED
    BY <2>2, <2>3
<1>6. ASSUME NEW j \in Jobs, NEW u \in Tiers, Write(j, u) PROVE Placed(t, r)'
  <2>1. Wrote(j, u) /\ UNCHANGED <<op, trees>>
    BY <1>6, WriteWrites DEF Write
  <2>2. r \in tracked[t] => r \in tracked'[t]
    BY <1>0, <2>1 DEF Wrote
  <2>3. CASE t = u /\ r = op[j].ref
    <3>1. CASE writes'[j][t] = "ok"
      BY <1>0, <2>1, <2>3, <3>1 DEF Wrote, Placed
    <3>2. CASE writes'[j][t] = "stored"
      BY <2>1, <2>3, <3>2 DEF Placed, Tracks
    <3>3. CASE writes'[j][t] \in {"refused", "failed"}
      <4>1. stored'[t][r] # "none" => <<t, r>> \in forgotten'
        BY <2>1, <2>3, <3>3 DEF Wrote
      <4> QED
        BY <4>1 DEF Placed
    <3> QED
      BY <2>1, <2>3, <3>1, <3>2, <3>3 DEF Wrote
  <2>4. CASE ~(t = u /\ r = op[j].ref)
    <3>1. stored'[t][r] = stored[t][r]
      BY <2>1, <2>4 DEF Wrote, ObjectMoves
    <3>2. <<t, r>> \in forgotten /\ stored'[t][r] # "none" => <<t, r>> \in forgotten'
      BY <2>1 DEF Wrote
    <3>3. \A i \in Jobs : Tracks(i, t, r) => Tracks(i, t, r)'
      BY <2>1, <2>4 DEF Wrote, WriteMoves, Tracks
    <3> QED
      BY <1>1, <2>1, <2>2, <3>1, <3>2, <3>3
  <2> QED
    BY <2>3, <2>4
<1>7. ASSUME NEW j \in Jobs, NEW u \in Tiers, Written(j, u) PROVE Placed(t, r)'
  <2>1. UNCHANGED <<stored, op, trees, forgotten>>
    BY <1>7 DEF Written, history
  <2>2. r \in tracked[t] => r \in tracked'[t]
    BY <1>0, <1>7 DEF Written
  <2>3. PICK state \in WriteState : WriteGoes(j, u, state)
    BY <1>7 DEF Written, WriteState
  <2>4. WriteMoves(j, u, state)
    BY <2>3, WriteBecomes
  <2>5. writes[j][u] = "stored" => op[j].ref \in tracked'[u]
    BY <1>0, <1>7 DEF Written
  <2>6. ASSUME NEW i \in Jobs, Tracks(i, t, r) PROVE Tracks(i, t, r)' \/ r \in tracked'[t]
    BY <2>1, <2>4, <2>5, <2>6 DEF Tracks, WriteMoves
  <2> QED
    BY <1>1, <2>1, <2>2, <2>6
<1>8. ASSUME NEW j \in Jobs, OpEnds(j), UNCHANGED <<stored, tracked, trees>>,
             writes' = [writes EXCEPT ![j] = [u \in Tiers |-> "no"]],
             forgotten \subseteq forgotten', Tracks(j, t, r) => <<t, r>> \in forgotten'
      PROVE  Placed(t, r)'
  <2>1. \A i \in Jobs \ {j} : op'[i] = op[i] /\ writes'[i] = writes[i]
    BY <1>0, <1>8 DEF OpEnds, OpMoves
  <2>2. \A i \in Jobs \ {j} : Tracks(i, t, r) => Tracks(i, t, r)'
    BY <2>1 DEF Tracks
  <2> QED
    BY <1>1, <1>8, <2>2
<1>9. ASSUME NEW j \in Jobs, PutReturns(j) \/ PutRaises(j) PROVE Placed(t, r)'
  <2>1. OpEnds(j) /\ UNCHANGED <<stored, tracked, trees, forgotten>>
        /\ writes' = [writes EXCEPT ![j] = [u \in Tiers |-> "no"]]
    BY <1>0, <1>9, EndsMoves DEF PutReturns, PutRaises, PutOver, memory, history
  <2>2. ~Tracks(j, t, r)
    BY <1>9 DEF PutReturns, PutRaises, PutOver, Over, Tracks
  <2> QED
    BY <1>8, <2>1, <2>2
<1>10. ASSUME NEW j \in Jobs, PutCancelled(j) PROVE Placed(t, r)'
  <2>1. OpEnds(j) /\ UNCHANGED <<stored, tracked, trees>>
        /\ writes' = [writes EXCEPT ![j] = [u \in Tiers |-> "no"]]
    BY <1>0, <1>10, EndsMoves DEF PutCancelled, memory
  <2>2. Tracks(j, t, r) => r = op[j].ref /\ writes[j][t] = "stored"
    BY <1>10 DEF PutCancelled, Tracks
  <2>3. forgotten \subseteq forgotten' /\ (Tracks(j, t, r) => <<t, r>> \in forgotten')
    BY <1>10, <2>2 DEF PutCancelled
  <2> QED
    BY <1>8, <2>1, <2>3
<1>11. ASSUME NEW j \in Jobs, GetMisses(j) \/ GetRaises(j) \/ GetFound(j) PROVE Placed(t, r)'
  <2>1. UNCHANGED <<stored, tracked, trees, forgotten, writes>> /\ op[j].kind = "get"
    BY <1>11 DEF GetMisses, GetRaises, GetFound, Ready, memory, history
  <2>2. \A b \in Agents \ {j} : op'[b] = op[b]
    BY <1>0, <1>11, MissMoves, FoundMoves, EndsMoves DEF OpEnds, OpMoves, GetRaises
  <2>3. ~Tracks(j, t, r)
    BY <1>0, <2>1 DEF Tracks
  <2> QED
    BY <1>2, <2>1, <2>2, <2>3
<1>12. ASSUME NEW j \in Jobs, Promoted(j) PROVE Placed(t, r)'
  <2>1. UNCHANGED <<stored, trees, forgotten, writes>> /\ op[j].kind = "promote"
    BY <1>12 DEF Promoted, Ready, history
  <2>2. \A b \in Agents \ {j} : op'[b] = op[b]
    BY <1>12, PromotedMoves DEF OpEnds, OpMoves
  <2>3. r \in tracked[t] => r \in tracked'[t]
    BY <1>0, <1>12 DEF Promoted
  <2>4. Tracks(j, t, r) => r \in tracked'[t]
    BY <1>0, <1>12, <2>1 DEF Promoted, Tracks
  <2>5. \A i \in Jobs \ {j} : Tracks(i, t, r) => Tracks(i, t, r)'
    BY <1>0, <2>1, <2>2 DEF Tracks
  <2> QED
    BY <1>1, <2>1, <2>3, <2>4, <2>5
<1>13. ASSUME NEW j \in Jobs, DeleteGoesOn(j) \/ DeleteEnds(j) PROVE Placed(t, r)'
  <2>1. UNCHANGED <<stored, trees, forgotten, writes>> /\ op[j].kind = "delete" /\ Discards(j)
        /\ op[j].at \in {"ran", "answered"}
        /\ excused' = IF Fault(j) THEN excused \cup {op[j].ref} ELSE excused
    BY <1>13 DEF DeleteGoesOn, DeleteEnds, Ready
  <2>2. \A b \in Agents \ {j} : op'[b] = op[b]
    BY <1>0, <1>13, DeleteMoves, EndsMoves DEF OpEnds, OpMoves, DeleteEnds
  <2>3. r \in tracked[t] => r \in tracked'[t] \cup excused' \/ stored[t][r] = "none"
    <3>1. CASE t = op[j].tier /\ r = op[j].ref
      BY <1>0, <2>1, <3>1 DEF Gone, Clears
    <3>2. CASE ~(t = op[j].tier /\ r = op[j].ref)
      BY <1>0, <2>1, <3>2 DEF Discards
    <3> QED
      BY <3>1, <3>2
  <2>4. \A i \in Jobs : Tracks(i, t, r) => Tracks(i, t, r)'
    BY <1>0, <2>1, <2>2 DEF Tracks
  <2> QED
    BY <1>1, <2>1, <2>3, <2>4
<1>14. ASSUME NEW j \in Jobs, CallCancelled(j) PROVE Placed(t, r)'
  <2>1. UNCHANGED <<stored, tracked, trees, writes>> /\ op[j].kind # "put" /\ OpEnds(j)
    BY <1>0, <1>14, EndsMoves DEF CallCancelled, memory
  <2>2. forgotten \subseteq forgotten'
    BY <1>14 DEF CallCancelled
  <2>3. Tracks(j, t, r) /\ stored'[t][r] # "none" => <<t, r>> \in forgotten'
    BY <1>0, <1>14, <2>1 DEF CallCancelled, Tracks
  <2>4. \A i \in Jobs \ {j} : Tracks(i, t, r) => Tracks(i, t, r)'
    BY <1>0, <2>1 DEF Tracks, OpEnds, OpMoves
  <2> QED
    BY <1>1, <2>1, <2>2, <2>3, <2>4
<1>15. ASSUME \A j \in Jobs : op'[j] = op[j], UNCHANGED <<stored, trees, forgotten, writes>>,
              r \in tracked[t] => r \in tracked'[t] \/ stored[t][r] = "none"
       PROVE  Placed(t, r)'
  <2>1. \A i \in Jobs : Tracks(i, t, r) => Tracks(i, t, r)'
    BY <1>15 DEF Tracks
  <2> QED
    BY <1>1, <1>15, <2>1
<1>16. ASSUME NEW u \in Nat \ {0}, SweepGoesTo(u),
              UNCHANGED <<stored, memory, writes, history>>
       PROVE  Placed(t, r)'
  <2>1. \A j \in Jobs : op'[j] = op[j]
    BY <1>0, <1>16, SweepMoves DEF OpEnds, OpMoves
  <2> QED
    BY <1>15, <1>16, <2>1 DEF memory, history
<1>17. ASSUME SweepBegins \/ SweepNextTier PROVE Placed(t, r)'
  BY <1>0, <1>16, <1>17 DEF SweepBegins, SweepNextTier
<1>18. ASSUME Evict \/ SweepRaises PROVE Placed(t, r)'
  <2>1. \A j \in Jobs : op'[j] = op[j]
    BY <1>0, <1>18, EvictMoves, EndsMoves DEF SweepRaises, OpEnds, OpMoves
  <2> QED
    BY <1>15, <1>18, <2>1 DEF Evict, SweepRaises, memory, history
<1>19. ASSUME Evicted PROVE Placed(t, r)'
  <2>1. \A j \in Jobs : op'[j] = op[j]
    BY <1>0, <1>19, EvictedMoves DEF OpMoves
  <2>2. op[Sweeper].kind = "evict" /\ op[Sweeper].at \in {"ran", "answered"}
        /\ op[Sweeper].answer \in {"ok", "missing"} /\ Discards(Sweeper)
    BY <1>19 DEF Evicted, Ready
  <2>3. Certain(op[Sweeper].tier) /\ op[Sweeper].at = "ran"
    BY <1>0, <2>2 DEF Shapes, OpShapes, OpShape, Waits, OnlyCertainEvict, Certain
  <2>4. r \in tracked[t] => r \in tracked'[t] \/ stored[t][r] = "none"
    BY <1>0, <2>2, <2>3 DEF Discards, Evicts
  <2> QED
    BY <1>15, <1>19, <2>1, <2>4 DEF Evicted, history
<1>20. ASSUME Crash PROVE Placed(t, r)'
  BY <1>20 DEF Crash, Forgets, Placed
<1> QED
  BY <1>3, <1>4, <1>5, <1>6, <1>7, <1>9, <1>10, <1>11, <1>12, <1>13, <1>14, <1>17, <1>18,
     <1>19, <1>20
     DEF Next, Job, Sweeps

(***************************************************************************)
(* The theorems.                                                           *)
(***************************************************************************)

LEMMA NextIInv == IInv /\ Next => IInv'
<1> SUFFICES ASSUME IInv, Next
             PROVE  IInv'
  OBVIOUS
<1>0. Types /\ References /\ Shapes /\ Kept /\ Gone /\ DeletedIsGone /\ Accounted
  BY DEF IInv
<1>1. Types' /\ References'
  BY <1>0, TypeStep, ReferenceStep
<1>2. Shapes'
  BY <1>0, OpShapesStep, HoldsStep, AgendaStep, PutShapesStep DEF Shapes
<1>3. Kept'
  BY <1>0, KeptObjectsStep, KeptWritesStep, KeptSearchStep, KeptSearchedStep DEF Kept
<1>4. Gone' /\ DeletedIsGone'
  BY <1>0, GoneStep, DeletedStep
<1>5. ASSUME OnlyCertainEvict PROVE Evicts' /\ \A t \in Tiers, r \in Refs : Placed(t, r)'
  <2>1. Evicts /\ \A t \in Tiers, r \in Refs : Placed(t, r)
    BY <1>0, <1>5 DEF Accounted
  <2>2. Evicts'
    BY <1>0, <1>5, <2>1, EvictsStep
  <2>3. ASSUME NEW t \in Tiers, NEW r \in Refs PROVE Placed(t, r)'
    BY <1>0, <1>5, <2>1, <2>3, PlacedStep
  <2> QED
    BY <2>2, <2>3
<1>6. Accounted'
  BY <1>5 DEF Accounted, OnlyCertainEvict, Certain
<1> QED
  BY <1>1, <1>2, <1>3, <1>4, <1>6 DEF IInv

LEMMA StutterIInv == IInv /\ UNCHANGED vars => IInv'
<1> SUFFICES ASSUME IInv, UNCHANGED vars
             PROVE  IInv'
  OBVIOUS
<1>0. Types /\ References /\ Shapes /\ Kept /\ Gone /\ DeletedIsGone /\ Accounted
  BY DEF IInv
<1> USE DEF vars
<1>1. Types' /\ References'
  BY <1>0 DEF Types, References
<1>2. Shapes'
  BY <1>0 DEF Shapes, OpShapes, OpShape, Waits, OneHolds, Holds, AgendaShape, PutShapes
<1>3. Kept'
  BY <1>0 DEF Kept, KeptObjects, KeptWrites, KeptSearch, Searches, Searched, KeptSearched,
              Steady, Home
<1>4. Gone' /\ DeletedIsGone'
  BY <1>0 DEF Gone, Clears, Fault, DeletedIsGone
<1>5. Accounted'
  BY <1>0 DEF Accounted, OnlyCertainEvict, Certain, Evicts, Placed, Tracks
<1> QED
  BY <1>1, <1>2, <1>3, <1>4, <1>5 DEF IInv

(* TieredSnapshotStore keeps the inductive invariant, whatever its tiers and  *)
(* whoever calls put, get, delete and the sweep in between.                  *)
THEOREM Invariant == Spec => []IInv
<1>1. Init => IInv
  BY InitIInv
<1>2. IInv /\ [Next]_vars => IInv'
  BY NextIInv, StutterIInv
<1> QED
  BY <1>1, <1>2, PTL DEF Spec

(* get goes through the tiers one by one, past tiers that promotions fill and *)
(* sweeps empty meanwhile: it never misses a reference whose put returned and *)
(* that nobody deletes, if a write-through tier without eviction answers.    *)
THEOREM KeptSnapshotIsFound == Spec => []FoundWhileKept
<1>1. IInv => FoundWhileKept
  BY DEF IInv, Kept, KeptSearched, FoundWhileKept, Steady
<1> QED
  BY <1>1, Invariant, PTL

(* put, get's promotion, delete and _evict_tier keep _tier_refs so that what  *)
(* a tier holds can be evicted from it, where only tiers that do not suspend  *)
(* evict; otherwise an object is a tree's, or a crash, a fault, a             *)
(* cancellation or a promotion behind a delete left it.                      *)
THEOREM StoredSnapshotIsTracked == Spec => []StoredIsTracked
<1>1. IInv => StoredIsTracked
  <2> SUFFICES ASSUME IInv, OnlyCertainEvict, NEW t \in Tiers, NEW r \in Refs,
                      stored[t][r] # "none", ~Busy(t, r)
               PROVE  r \in tracked[t] \cup trees \cup excused \/ <<t, r>> \in forgotten
    BY DEF StoredIsTracked, OnlyCertainEvict
  <2>1. Placed(t, r)
    BY DEF IInv, Accounted
  <2>2. \A j \in Jobs : ~Tracks(j, t, r)
    BY DEF Tracks, Busy, Agents
  <2> QED
    BY <2>1, <2>2 DEF Placed
<1> QED
  BY <1>1, Invariant, PTL

(* A delete that returned has emptied every tier, and no put, eviction or     *)
(* sweep brings the object back: only a promotion that read it before.       *)
THEOREM DeletedSnapshotIsGone == Spec => []DeletedIsGone
<1>1. IInv => DeletedIsGone
  BY DEF IInv
<1> QED
  BY <1>1, Invariant, PTL

=============================================================================
