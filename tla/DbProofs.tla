------------------------------ MODULE DbProofs ------------------------------
(***************************************************************************)
(* What holds of Db for any providers, services, connections, ids, queries *)
(* and answers: both sides know the same services, a query comes in no     *)
(* more parts than it has, whatever there is to tell a user a callback is  *)
(* about to tell, and what is told is what was answered.                   *)
(***************************************************************************)
EXTENDS Db, SequenceTheorems, FiniteSetTheorems, NaturalsInduction, WellFoundedInduction, TLAPS

-----------------------------------------------------------------------------
(* Numbers, sequences and maps *)

\* Every set of numbers has a least one.
LEMMA LeastNat ==
  ASSUME NEW T, T \subseteq Nat, T # {}
  PROVE  \E x \in T : \A y \in T : x <= y
<1> DEFINE R == {ss \in Nat \X Nat : ss[1] < ss[2]}
<1>1. IsWellFoundedOn(R, Nat)
  BY NatLessThanWellFounded DEF OpToRel
<1>2. PICK x \in T : \A y \in T : ~(<<y, x>> \in R)
  BY <1>1, WFMin
<1>3. ASSUME NEW y \in T PROVE x <= y
  <2>1. x \in Nat /\ y \in Nat
    OBVIOUS
  <2>2. ~(y < x)
    BY <1>2, <2>1
  <2>3. QED
    BY <2>1, <2>2
<1>4. QED
  BY <1>2, <1>3

\* What holds first, and at each step if it did at the one before, holds last.
LEMMA StepByStep ==
  ASSUME NEW T, NEW L \in Nat, 0 \in T,
         \A n \in 1 .. L : n - 1 \in T => n \in T
  PROVE  0 .. L \subseteq T
<1> DEFINE U == {n \in 0 .. L : n \notin T}
<1> SUFFICES ASSUME U # {} PROVE FALSE
  OBVIOUS
<1>1. PICK n \in U : \A m \in U : n <= m
  <2>1. U \subseteq Nat
    OBVIOUS
  <2> HIDE DEF U
  <2>2. QED
    BY <2>1, LeastNat
<1>2. n \in 1 .. L /\ n - 1 \in 0 .. L /\ n - 1 \notin U
  BY <1>1
<1>3. QED
  BY <1>1, <1>2

\* The first of a set of queries is one of them.
LEMMA FirstIsOne ==
  ASSUME NEW S, S \subseteq Nat, S # {}
  PROVE  first(S) \in S
<1>1. \E q \in S : \A r \in S : q <= r
  BY LeastNat
<1>2. QED
  BY <1>1 DEF first

\* The numbers of queries are numbers.
LEMMA QueryIdsAreNumbers == QueryIds \subseteq Nat
  BY DbAssumption DEF QueryIds

\* Where the elements of a sequence come to be as one is added behind or taken
\* from the front.
LEMMA Appended ==
  ASSUME NEW S, NEW s \in Seq(S), NEW x \in S
  PROVE  /\ Append(s, x) \in Seq(S)
         /\ Len(Append(s, x)) = Len(s) + 1
         /\ Append(s, x)[Len(s) + 1] = x
         /\ \A i \in 1 .. Len(s) : Append(s, x)[i] = s[i]
  OBVIOUS

LEMMA Taken ==
  ASSUME NEW S, NEW s \in Seq(S), s # <<>>
  PROVE  /\ Tail(s) \in Seq(S)
         /\ Len(Tail(s)) = Len(s) - 1
         /\ Len(s) \in Nat \ {0}
         /\ Head(s) = s[1] /\ s[1] \in S
         /\ \A i \in 1 .. Len(s) - 1 : Tail(s)[i] = s[i + 1]
<1>1. Len(s) \in Nat \ {0}
  BY EmptySeq
<1>2. QED
  BY <1>1, HeadTailProperties

-----------------------------------------------------------------------------
(* Types *)

Statuses == {"ROWS", "DONE", "ERROR"}

\* One command's answer so far.
Answer == [status : Statuses, rows : Seq(Nat), was_read : BOOLEAN]

Entry == [command : Nat, status : Statuses, rows : Seq(Nat)]

Query ==
  [connection : Connections, service_id : ServiceIds,
   query : {"Prepared", "NeedSendCancel", "CancelWasSent", "Aborted"}, unsent : Nat,
   response : {"Running", "Completed", "Aborted", "Cancelled"},
   answers : Seq(Answer)]

Response ==
  [connection : Connections, service_id : ServiceIds, service : Services, parts : Nat,
   completed : BOOLEAN, was_read : BOOLEAN, was_cancelled : BOOLEAN, failed : BOOLEAN,
   answers : Seq(Answer), buffer : Seq(Entry), begun : BOOLEAN]

\* of a query with n commands
ResponseOK(r, n) ==
  /\ r \in Response
  /\ r.was_read => r.completed
  /\ r.answers = <<>> \/ Len(r.answers) = n

\* Services and their ids.
Tables == UNION {[S -> ServiceIds] : S \in SUBSET Services}

AskerMessages ==
  [kind : {"a"}, service : Services, id : ServiceIds]
    \cup [kind : {"A"}, id : ServiceIds]
    \cup [kind : {"E"}, id : ServiceIds, query : QueryIds]
    \cup [kind : {"r", "R"}, id : ServiceIds, query : QueryIds, inside : BOOLEAN, entries : Seq(Entry)]

\* about the queries in Q
ProviderMessages(Q) ==
  [kind : {"C"}, id : ServiceIds, query : Q]
    \cup [kind : {"q", "Q"}, id : ServiceIds, query : Q, parts : Nat]

ServicesTyped ==
  /\ my_services \in [Providers -> SUBSET Services]
  /\ told \in [Connections -> Tables]
  /\ known \in [Connections -> Tables]

LinksTyped ==
  /\ asker_up \subseteq met
  /\ provider_up \subseteq met
  /\ met \subseteq Connections

ChannelsTyped ==
  /\ to_asker \in [Connections -> Seq(AskerMessages)]
  /\ to_provider \in [Connections -> Seq(ProviderMessages(DOMAIN asked))]
  /\ \A c \in Connections : Len(to_asker[c]) <= MaxInFlight
  /\ \A c \in Connections : Len(to_provider[c]) <= MaxInFlight

\* Queries are numbered as they are sent.
AskedTyped ==
  /\ DOMAIN asked \subseteq QueryIds
  /\ \E n \in Nat : DOMAIN asked = 1 .. n
  /\ asked \in [DOMAIN asked -> [service : Services, commands : Nat, parts : Nat]]
  /\ DOMAIN heard = DOMAIN asked
  /\ DOMAIN given = DOMAIN asked
  /\ \A q \in DOMAIN asked :
       /\ heard[q] \in [1 .. asked[q].commands -> [status : Statuses, rows : Seq(Nat)]]
       /\ given[q] \in [1 .. asked[q].commands -> [status : Statuses, rows : Nat]]
  /\ failed \subseteq DOMAIN asked
  /\ ended \subseteq DOMAIN asked

QueriesTyped ==
  /\ DOMAIN queries \subseteq DOMAIN asked
  /\ queries = [q \in DOMAIN queries |-> queries[q]]
  /\ \A q \in DOMAIN queries : queries[q] \in Query
  /\ \A q \in DOMAIN queries : Len(queries[q].answers) = asked[q].commands

ResponsesTyped ==
  /\ DOMAIN responses \subseteq DOMAIN asked
  /\ responses = [q \in DOMAIN responses |-> responses[q]]
  /\ \A q \in DOMAIN responses : ResponseOK(responses[q], asked[q].commands)

Texts == {"exact", "hole", "sound", "torn"}

RestTyped ==
  /\ text \in [QueryIds -> Texts]
  /\ asker_callback \in BOOLEAN
  /\ provider_callback \in [Providers -> BOOLEAN]

Typed ==
  /\ ServicesTyped /\ LinksTyped /\ ChannelsTyped /\ AskedTyped
  /\ QueriesTyped /\ ResponsesTyped /\ RestTyped

-----------------------------------------------------------------------------
(* What is computed step by step, from a first value in S by steps that stay *)
(* in S.                                                                      *)

Computes(g, k, a, step) ==
  /\ g[0] = a
  /\ \A n \in 1 .. k : g[n] = step[n, g[n - 1]]

LEMMA StepsExist ==
  ASSUME NEW L \in Nat, NEW S, NEW a \in S, NEW step \in [(1 .. L) \X S -> S]
  PROVE  \E g \in [0 .. L -> S] : Computes(g, L, a, step)
<1> DEFINE T == {k \in 0 .. L : \E g \in [0 .. k -> S] : Computes(g, k, a, step)}
<1>1. 0 \in T
  <2> DEFINE h == [n \in 0 .. 0 |-> a]
  <2>1. h \in [0 .. 0 -> S] /\ Computes(h, 0, a, step)
    BY DEF Computes
  <2> HIDE DEF h
  <2>2. 0 \in 0 .. L
    OBVIOUS
  <2>3. QED
    BY <2>1, <2>2
<1>2. ASSUME NEW k \in 1 .. L, k - 1 \in T PROVE k \in T
  <2>1. PICK g \in [0 .. k - 1 -> S] : Computes(g, k - 1, a, step)
    BY <1>2
  <2> DEFINE h == [n \in 0 .. k |-> IF n = k THEN step[k, g[k - 1]] ELSE g[n]]
  <2>2. k - 1 \in 0 .. k - 1 /\ k # 0
    OBVIOUS
  <2>3. step[k, g[k - 1]] \in S
    <3>1. g[k - 1] \in S
      BY <2>2
    <3>2. <<k, g[k - 1]>> \in (1 .. L) \X S
      BY <3>1
    <3>3. QED
      BY <3>2
  <2>4. h \in [0 .. k -> S]
    <3>1. ASSUME NEW n \in 0 .. k, n # k PROVE n \in 0 .. k - 1
      BY <3>1
    <3>2. QED
      BY <2>3, <3>1
  <2>5. h[0] = a
    <3>1. 0 \in 0 .. k
      OBVIOUS
    <3>2. h[0] = g[0]
      BY <2>2, <3>1
    <3>3. QED
      BY <2>1, <3>2 DEF Computes
  <2>6. ASSUME NEW n \in 1 .. k PROVE h[n] = step[n, h[n - 1]]
    <3>1. n \in 0 .. k /\ n - 1 \in 0 .. k /\ n - 1 # k
      OBVIOUS
    <3>2. h[n - 1] = g[n - 1]
      BY <3>1
    <3>3. CASE n = k
      BY <3>1, <3>2, <3>3
    <3>4. CASE n # k
      <4>1. n \in 1 .. k - 1
        BY <3>4
      <4>2. h[n] = g[n]
        BY <3>1, <3>4
      <4>3. QED
        BY <4>1, <4>2, <3>2, <2>1 DEF Computes
    <3>5. QED
      BY <3>3, <3>4
  <2> HIDE DEF h
  <2>7. Computes(h, k, a, step)
    BY <2>5, <2>6 DEF Computes
  <2>8. k \in 0 .. L
    OBVIOUS
  <2>9. QED
    BY <2>4, <2>7, <2>8
<1> HIDE DEF T
<1>3. L \in T
  <2>1. 0 .. L \subseteq T
    BY <1>1, <1>2, StepByStep
  <2>2. QED
    BY <2>1
<1>4. QED
  BY <1>3 DEF T

\* Two that are computed in the same way are the same.
SameSteps(L, f, g) ==
  /\ f[0] = g[0]
  /\ \A n \in 1 .. L : f[n - 1] = g[n - 1] => f[n] = g[n]

LEMMA StepsAgree ==
  ASSUME NEW L \in Nat, NEW f, NEW g, SameSteps(L, f, g)
  PROVE  \A n \in 0 .. L : f[n] = g[n]
<1> USE DEF SameSteps
<1> DEFINE T == {n \in 0 .. L : f[n] = g[n]}
<1>1. 0 \in T
  OBVIOUS
<1>2. \A n \in 1 .. L : n - 1 \in T => n \in T
  OBVIOUS
<1> HIDE DEF T
<1>3. 0 .. L \subseteq T
  BY <1>1, <1>2, StepByStep
<1>4. QED
  BY <1>3 DEF T

-----------------------------------------------------------------------------
(* The operators *)

LEMMA IsSeq ==
  ASSUME NEW S, NEW n \in Nat, NEW f \in [1 .. n -> S]
  PROVE  f \in Seq(S) /\ Len(f) = n
  OBVIOUS

LEMMA Replaced ==
  ASSUME NEW S, NEW s \in Seq(S), NEW i, NEW v, i \in DOMAIN s => v \in S
  PROVE  [s EXCEPT ![i] = v] \in Seq(S) /\ Len([s EXCEPT ![i] = v]) = Len(s)
<1>1. s \in [1 .. Len(s) -> S] /\ Len(s) \in Nat
  OBVIOUS
<1> DEFINE n == Len(s)
           f == [s EXCEPT ![i] = v]
<1>2. f \in [1 .. n -> S] /\ n \in Nat
  BY <1>1
<1> HIDE DEF n, f
<1>3. f \in Seq(S) /\ Len(f) = n
  BY <1>2, IsSeq
<1>4. QED
  BY <1>3 DEF f, n

\* A service is learned, or some are forgotten.
LEMMA SetTable ==
  ASSUME NEW t \in Tables, NEW s \in Services, NEW id \in ServiceIds
  PROVE  /\ set(t, s, id) \in Tables
         /\ DOMAIN set(t, s, id) = DOMAIN t \cup {s}
         /\ set(t, s, id)[s] = id
         /\ \A x \in DOMAIN t : x # s => set(t, s, id)[x] = t[x]
<1>1. t \in [DOMAIN t -> ServiceIds] /\ DOMAIN t \subseteq Services
  BY DEF Tables
<1>2. DOMAIN t \cup {s} \in SUBSET Services
  BY <1>1
<1>3. set(t, s, id) \in [DOMAIN t \cup {s} -> ServiceIds]
  BY <1>1 DEF set
<1>4. QED
  BY <1>2, <1>3 DEF Tables, set

LEMMA WithoutTable ==
  ASSUME NEW t \in Tables, NEW S
  PROVE  /\ without(t, S) \in Tables
         /\ DOMAIN without(t, S) = DOMAIN t \ S
         /\ \A x \in DOMAIN t \ S : without(t, S)[x] = t[x]
<1>1. t \in [DOMAIN t -> ServiceIds] /\ DOMAIN t \subseteq Services
  BY DEF Tables
<1>2. DOMAIN t \ S \in SUBSET Services
  BY <1>1
<1>3. without(t, S) \in [DOMAIN t \ S -> ServiceIds]
  BY <1>1 DEF without
<1>4. QED
  BY <1>2, <1>3 DEF Tables, without

LEMMA IdsOfTable ==
  ASSUME NEW t \in Tables
  PROVE  /\ DOMAIN t \subseteq Services
         /\ ids(t) \subseteq ServiceIds
         /\ \A s \in DOMAIN t : t[s] \in ids(t)
         /\ \A id \in ids(t) : named(t, id) \in DOMAIN t /\ t[named(t, id)] = id
<1>1. t \in [DOMAIN t -> ServiceIds] /\ DOMAIN t \subseteq Services
  BY DEF Tables
<1>2. ASSUME NEW id \in ids(t) PROVE named(t, id) \in DOMAIN t /\ t[named(t, id)] = id
  <2>1. \E s \in DOMAIN t : t[s] = id
    BY DEF ids
  <2>2. QED
    BY <2>1 DEF named
<1>3. QED
  BY <1>1, <1>2 DEF ids

\* What a message makes known.
LEMMA ReceivedService ==
  ASSUME NEW t \in Tables, NEW m \in AskerMessages
  PROVE  receive_service(t, m) \in Tables
<1>1. CASE m.kind = "a" /\ m.service \notin DOMAIN t /\ m.id \notin ids(t)
  <2>1. m.service \in Services /\ m.id \in ServiceIds
    BY <1>1 DEF AskerMessages
  <2>2. receive_service(t, m) = set(t, m.service, m.id)
    BY <1>1 DEF receive_service
  <2> DEFINE service == m.service
             id == m.id
  <2> HIDE DEF service, id
  <2>3. set(t, service, id) \in Tables
    <3>1. service \in Services /\ id \in ServiceIds
      BY <2>1 DEF service, id
    <3>2. QED
      BY <3>1, SetTable
  <2>4. QED
    BY <2>2, <2>3 DEF service, id
<1>2. CASE m.kind = "A" /\ m.id \in ids(t)
  <2>1. receive_service(t, m) = without(t, {named(t, m.id)})
    BY <1>2 DEF receive_service
  <2>2. QED
    BY <2>1, WithoutTable
<1>3. CASE /\ ~(m.kind = "a" /\ m.service \notin DOMAIN t /\ m.id \notin ids(t))
           /\ ~(m.kind = "A" /\ m.id \in ids(t))
  BY <1>3 DEF receive_service
<1>4. QED
  BY <1>1, <1>2, <1>3

\* The answer to a command gets on.
LEMMA AddedToAnswer ==
  ASSUME NEW r \in Answer, NEW status \in Statuses, NEW rows \in Seq(Nat)
  PROVE  add_to_query_state(r, status, rows) \in Answer
<1>1. r.rows \o rows \in Seq(Nat)
  BY DEF Answer
<1>2. (r.was_read /\ status = "ROWS" /\ rows = <<>>) \in BOOLEAN
  OBVIOUS
<1> DEFINE w == r.was_read /\ status = "ROWS" /\ rows = <<>>
           t == r.rows \o rows
<1>3. add_to_query_state(r, status, rows)
        = IF r.status # "ROWS" THEN r ELSE [status |-> status, rows |-> t, was_read |-> w]
  BY DEF add_to_query_state
<1> HIDE DEF w, t
<1>4. w \in BOOLEAN /\ t \in Seq(Nat)
  BY <1>1, <1>2 DEF w, t
<1>5. QED
  BY <1>3, <1>4 DEF Answer

\* The entries of a message are added one by one.
LEMMA AddedInSteps ==
  ASSUME NEW answers \in Seq(Answer), NEW entries \in Seq(Entry)
  PROVE  \E g \in [0 .. Len(entries) -> [1 .. Len(answers) -> Answer]] :
           /\ g[0] = answers
           /\ \A n \in 1 .. Len(entries) :
                g[n] = [g[n - 1] EXCEPT ![entries[n].command] =
                          add_to_query_state(@, entries[n].status, entries[n].rows)]
           /\ g[Len(entries)] = added(answers, entries)
<1> DEFINE L == Len(entries)
           S == [1 .. Len(answers) -> Answer]
           next(n, s) == [s EXCEPT ![entries[n].command] =
                            add_to_query_state(@, entries[n].status, entries[n].rows)]
           step == [x \in (1 .. L) \X S |-> next(x[1], x[2])]
           F == CHOOSE f : f = [n \in 0 .. L |-> IF n = 0 THEN answers ELSE next(n, f[n - 1])]
<1>1. L \in Nat /\ answers \in S
  OBVIOUS
<1>2. ASSUME NEW n \in 1 .. L, NEW s \in S PROVE next(n, s) \in S
  <2>1. entries[n] \in Entry
    OBVIOUS
  <2>2. entries[n].status \in Statuses /\ entries[n].rows \in Seq(Nat)
    BY <2>1 DEF Entry
  <2>3. \A r \in Answer : add_to_query_state(r, entries[n].status, entries[n].rows) \in Answer
    BY <2>2, AddedToAnswer
  <2>4. QED
    BY <2>3
<1> HIDE DEF next
<1>3. step \in [(1 .. L) \X S -> S]
  BY <1>2
<1>4. PICK g \in [0 .. L -> S] : Computes(g, L, answers, step)
  <2> HIDE DEF S, L, step
  <2>1. QED
    BY <1>1, <1>3, StepsExist
<1>5. g = [n \in 0 .. L |-> IF n = 0 THEN answers ELSE next(n, g[n - 1])]
  <2>1. ASSUME NEW n \in 0 .. L PROVE g[n] = IF n = 0 THEN answers ELSE next(n, g[n - 1])
    <3>1. CASE n = 0
      BY <1>4, <3>1 DEF Computes
    <3>2. CASE n # 0
      <4>1. n \in 1 .. L /\ n - 1 \in 0 .. L
        BY <3>2
      <4>2. g[n - 1] \in S
        BY <4>1
      <4>3. step[n, g[n - 1]] = next(n, g[n - 1])
        BY <4>1, <4>2
      <4>4. QED
        BY <1>4, <3>2, <4>1, <4>3 DEF Computes
    <3>3. QED
      BY <3>1, <3>2
  <2> HIDE DEF S, L
  <2>2. QED
    BY <2>1
<1>6. F = [n \in 0 .. L |-> IF n = 0 THEN answers ELSE next(n, F[n - 1])]
  BY <1>5
<1> HIDE DEF F, L
<1>7. \A n \in 0 .. L : F[n] = g[n]
  <2>1. F[0] = g[0]
    BY <1>1, <1>5, <1>6
  <2>2. ASSUME NEW n \in 1 .. L, F[n - 1] = g[n - 1] PROVE F[n] = g[n]
    <3>1. n \in 0 .. L /\ n # 0
      BY <1>1
    <3>2. F[n] = next(n, F[n - 1])
      BY <1>6, <3>1
    <3>3. g[n] = next(n, g[n - 1])
      BY <1>5, <3>1
    <3>4. QED
      BY <2>2, <3>2, <3>3
  <2>3. \A n \in 1 .. L : F[n - 1] = g[n - 1] => F[n] = g[n]
    BY <2>2
  <2> HIDE DEF S
  <2>4. QED
    <3>1. SameSteps(L, F, g)
      BY <2>1, <2>3 DEF SameSteps
    <3>2. QED
      BY <1>1, <3>1, StepsAgree
<1>8. added(answers, entries) = F[L]
  BY DEF added, F, L, next
<1>9. g[0] = answers /\ g[L] = added(answers, entries)
  <2>1. 0 \in 0 .. L /\ L \in 0 .. L
    BY <1>1
  <2>2. QED
    BY <1>4, <1>7, <1>8, <2>1 DEF Computes
<1>10. \A n \in 1 .. L : g[n] = next(n, g[n - 1])
  <2>1. \A n \in 1 .. L : n \in 0 .. L /\ n # 0
    BY <1>1
  <2>2. QED
    BY <1>5, <2>1
<1>11. QED
  BY <1>9, <1>10 DEF next, L

LEMMA AnswersAdded ==
  ASSUME NEW answers \in Seq(Answer), NEW entries \in Seq(Entry)
  PROVE  added(answers, entries) \in Seq(Answer) /\ Len(added(answers, entries)) = Len(answers)
<1>1. Len(answers) \in Nat /\ Len(entries) \in 0 .. Len(entries)
  OBVIOUS
<1>2. added(answers, entries) \in [1 .. Len(answers) -> Answer]
  BY <1>1, AddedInSteps
<1>3. QED
  BY <1>1, <1>2, IsSeq

LEMMA AnswersMapped ==
  ASSUME NEW answers \in Seq(Answer), NEW f \in [DOMAIN answers -> Answer]
  PROVE  f \in Seq(Answer) /\ Len(f) = Len(answers)
<1>1. DOMAIN answers = 1 .. Len(answers) /\ Len(answers) \in Nat
  OBVIOUS
<1>2. QED
  BY <1>1, IsSeq

\* What is not answered yet has no answer.
LEMMA NoAnswers ==
  ASSUME NEW n \in Nat
  PROVE  /\ [i \in 1 .. n |-> NoAnswer] \in Seq(Answer)
         /\ Len([i \in 1 .. n |-> NoAnswer]) = n
<1>1. NoAnswer \in Answer
  <2>1. <<>> \in Seq(Nat)
    OBVIOUS
  <2>2. QED
    BY <2>1 DEF NoAnswer, Answer, Statuses
<1>2. [i \in 1 .. n |-> NoAnswer] \in [1 .. n -> Answer]
  BY <1>1
<1>3. QED
  BY <1>2, IsSeq

\* What has not ended gets an error.
LEMMA AnswersFail ==
  ASSUME NEW answers \in Seq(Answer)
  PROVE  failing(answers) \in Seq(Answer) /\ Len(failing(answers)) = Len(answers)
<1> DEFINE fail(r) == IF r.status = "ROWS" THEN [r EXCEPT !.status = "ERROR", !.was_read = FALSE] ELSE r
<1>1. \A r \in Answer : fail(r) \in Answer
  BY DEF Answer, Statuses
<1>2. failing(answers) = [i \in DOMAIN answers |-> fail(answers[i])]
  BY DEF failing
<1> HIDE DEF fail
<1>3. failing(answers) \in [DOMAIN answers -> Answer]
  BY <1>1, <1>2
<1>4. QED
  BY <1>3, AnswersMapped

\* What there was to tell was told, and nothing is left.
read_all(answers) ==
  [i \in DOMAIN answers |->
    IF has_news(answers[i]) THEN [answers[i] EXCEPT !.was_read = TRUE, !.rows = <<>>]
    ELSE answers[i]]

LEMMA AnswersRead ==
  ASSUME NEW answers \in Seq(Answer)
  PROVE  /\ read_all(answers) \in Seq(Answer)
         /\ Len(read_all(answers)) = Len(answers)
         /\ \A i \in DOMAIN read_all(answers) : ~has_news(read_all(answers)[i])
<1> DEFINE read(r) == IF has_news(r) THEN [r EXCEPT !.was_read = TRUE, !.rows = <<>>] ELSE r
<1>1. \A r \in Answer : read(r) \in Answer /\ ~has_news(read(r))
  <2>1. <<>> \in Seq(Nat)
    OBVIOUS
  <2>2. QED
    BY <2>1 DEF Answer, has_news
<1>2. read_all(answers) = [i \in DOMAIN answers |-> read(answers[i])]
  BY DEF read_all
<1> HIDE DEF read
<1>3. read_all(answers) \in [DOMAIN answers -> Answer]
  BY <1>1, <1>2
<1>4. ASSUME NEW i \in DOMAIN read_all(answers) PROVE ~has_news(read_all(answers)[i])
  <2>1. i \in DOMAIN answers /\ answers[i] \in Answer
    BY <1>4 DEF read_all
  <2>2. QED
    BY <1>1, <1>2, <2>1
<1>5. QED
  BY <1>3, <1>4, AnswersMapped

\* A query keeps its type and its number of commands.
StaysQuery(q, r) ==
  /\ r \in Query
  /\ r.connection = q.connection
  /\ r.unsent \in 0 .. q.unsent
  /\ Len(r.answers) = Len(q.answers)

LEMMA QuerySame ==
  ASSUME NEW q \in Query, NEW r \in Query, r.connection = q.connection,
         r.unsent = q.unsent, Len(r.answers) = Len(q.answers)
  PROVE  StaysQuery(q, r)
  BY DEF StaysQuery, Query

LEMMA QueryAborted ==
  ASSUME NEW q \in Query
  PROVE  StaysQuery(q, aborted(q))
<1> DEFINE answers == failing(q.answers)
<1>1. answers \in Seq(Answer) /\ Len(answers) = Len(q.answers)
  BY AnswersFail DEF Query
<1>2. aborted(q) = [q EXCEPT !.response = "Aborted", !.answers = answers]
  BY DEF aborted
<1> HIDE DEF answers
<1>3. /\ aborted(q) \in Query
      /\ aborted(q).connection = q.connection /\ aborted(q).unsent = q.unsent
      /\ Len(aborted(q).answers) = Len(q.answers)
  BY <1>1, <1>2 DEF Query
<1>4. QED
  BY <1>3, QuerySame

\* Another state of the query itself.
LEMMA QueryMarked ==
  ASSUME NEW q, NEW r, StaysQuery(q, r),
         NEW status \in {"Prepared", "NeedSendCancel", "CancelWasSent", "Aborted"}
  PROVE  StaysQuery(q, [r EXCEPT !.query = status])
  BY DEF StaysQuery, Query

LEMMA QueryStays ==
  ASSUME NEW q \in Query
  PROVE  StaysQuery(q, q)
  BY DEF StaysQuery, Query

LEMMA QueryRead ==
  ASSUME NEW q \in Query
  PROVE  StaysQuery(q, query_read(q)) /\ query_read(q).answers = read_all(q.answers)
<1> DEFINE answers == read_all(q.answers)
<1>1. answers \in Seq(Answer) /\ Len(answers) = Len(q.answers)
  BY AnswersRead DEF Query
<1>2. query_read(q) = [q EXCEPT !.answers = answers]
  BY DEF query_read, read_all
<1> HIDE DEF answers
<1>3. StaysQuery(q, query_read(q)) /\ query_read(q).answers = answers
  BY <1>1, <1>2 DEF StaysQuery, Query
<1>4. QED
  BY <1>3 DEF answers

\* A query that is overdue.
LEMMA QueryOverdue ==
  ASSUME NEW q \in Query, NEW r \in Query, StaysQuery(q, r)
  PROVE  StaysQuery(q, overdue(r))
<1> DEFINE r1 == aborted(r)
           status == "NeedSendCancel"
<1>1. StaysQuery(r, r1)
  BY QueryAborted
<1>2. overdue(r) = [r1 EXCEPT !.query = status]
  BY DEF overdue
<1>3. status \in {"Prepared", "NeedSendCancel", "CancelWasSent", "Aborted"}
  OBVIOUS
<1> HIDE DEF r1, status
<1>4. StaysQuery(r, [r1 EXCEPT !.query = status])
  BY <1>1, <1>3, QueryMarked
<1> DEFINE r2 == [r1 EXCEPT !.query = status]
<1> HIDE DEF r2
<1>5. StaysQuery(r, r2) /\ overdue(r) = r2
  BY <1>2, <1>4 DEF r2
<1>6. r2.unsent \in 0 .. q.unsent
  BY <1>5 DEF StaysQuery, Query
<1>7. QED
  BY <1>5, <1>6 DEF StaysQuery

\* What a parser makes of a part of an answer are entries, and those that are in
\* it if no entry is torn.
Reading == [entries : Seq(Entry), parses : BOOLEAN]

LEMMA ReadingsAreTyped ==
  ASSUME NEW q \in Query, NEW m \in AskerMessages, m.kind \in {"r", "R", "E"}, NEW t,
         NEW reading \in readings(t, q, m)
  PROVE  /\ reading \in Reading
         /\ m.kind \in {"r", "R"} /\ t # "torn" => reading.entries = m.entries /\ reading.parses
<1>1. CASE m.kind = "E"
  <2>1. reading = [entries |-> <<>>, parses |-> TRUE] /\ <<>> \in Seq(Entry)
    BY <1>1 DEF readings
  <2>2. QED
    BY <1>1, <2>1 DEF Reading
<1>2. CASE m.kind \in {"r", "R"}
  <2>1. m.entries \in Seq(Entry)
    BY <1>2 DEF AskerMessages
  <2>2. CASE t # "torn"
    <3>1. reading = [entries |-> m.entries, parses |-> TRUE]
      BY <1>2, <2>2 DEF readings
    <3>2. QED
      BY <2>1, <3>1 DEF Reading
  <2>3. CASE t = "torn"
    <3> DEFINE Odd == {<<>>} \cup {<<e>> : e \in mangled(q)}
               read(odd, k, ok) ==
                 [entries |-> odd \o SubSeq(m.entries, k, Len(m.entries)), parses |-> ok]
    <3> DEFINE Torn == {read(odd, k, ok) :
                          odd \in Odd, k \in 1 .. Len(m.entries) + 1, ok \in BOOLEAN}
               none == {[entries |-> <<>>, parses |-> TRUE]}
               all == {[entries |-> m.entries, parses |-> TRUE]}
    <3>a. readings(t, q, m) = IF m.kind = "E" THEN none ELSE IF t # "torn" THEN all ELSE Torn
      BY DEF readings
    <3> HIDE DEF Torn, none, all
    <3>c. reading \in Torn
      BY <1>2, <2>3, <3>a
    <3> HIDE DEF Odd, read
    <3>b. PICK odd \in Odd, k \in 1 .. Len(m.entries) + 1, ok \in BOOLEAN : reading = read(odd, k, ok)
      BY <3>c DEF Torn
    <3>1. reading = [entries |-> odd \o SubSeq(m.entries, k, Len(m.entries)), parses |-> ok]
      BY <3>b DEF read
    <3>2. odd \in Seq(Entry)
      <4>1. CASE odd = <<>>
        BY <4>1
      <4>2. ASSUME NEW e \in mangled(q), odd = <<e>> PROVE odd \in Seq(Entry)
        <5>1. e \in Entry
          <6>1. q.answers \in Seq(Answer)
            BY DEF Query
          <6>2. DOMAIN q.answers \subseteq Nat /\ {<<>>, <<0>>} \subseteq Seq(Nat)
            BY <6>1
          <6>3. QED
            BY <6>2 DEF mangled, Entry, Answers, Statuses
        <5>2. QED
          BY <4>2, <5>1
      <4>3. QED
        BY <4>1, <4>2 DEF Odd
    <3>3. SubSeq(m.entries, k, Len(m.entries)) \in Seq(Entry)
      BY <2>1
    <3> DEFINE entries == odd \o SubSeq(m.entries, k, Len(m.entries))
    <3>4. entries \in Seq(Entry)
      BY <3>2, <3>3
    <3>5. reading = [entries |-> entries, parses |-> ok]
      BY <3>1
    <3> HIDE DEF entries
    <3>6. QED
      BY <2>3, <3>4, <3>5 DEF Reading
  <2>4. QED
    BY <2>2, <2>3
<1>3. QED
  BY <1>1, <1>2

LEMMA QueryAnswered ==
  ASSUME NEW q \in Query, NEW m \in AskerMessages, m.kind \in {"r", "R", "E"}, NEW reading \in Reading
  PROVE  StaysQuery(q, receive_response(q, m, reading))
<1>1. CASE m.kind = "E"
  <2>1. receive_response(q, m, reading) = [aborted(q) EXCEPT !.query = "Aborted"]
    BY <1>1 DEF receive_response
  <2>2. StaysQuery(q, aborted(q))
    BY QueryAborted
  <2> DEFINE r == aborted(q)
             status == "Aborted"
  <2>3. status \in {"Prepared", "NeedSendCancel", "CancelWasSent", "Aborted"}
    OBVIOUS
  <2> HIDE DEF r, status
  <2>4. StaysQuery(q, [r EXCEPT !.query = status])
    BY <2>2, <2>3, QueryMarked DEF r
  <2>5. QED
    BY <2>1, <2>4 DEF r, status
<1>2. CASE m.kind \in {"r", "R"}
  <2> DEFINE answers == added(q.answers, reading.entries)
             read == [q EXCEPT !.answers = answers]
  <2>1. answers \in Seq(Answer) /\ Len(answers) = Len(q.answers)
    <3>1. q.answers \in Seq(Answer) /\ reading.entries \in Seq(Entry)
      BY DEF Query, Reading
    <3>2. QED
      BY <3>1, AnswersAdded
  <2>2. CASE ~reading.parses
    <3>1. receive_response(q, m, reading) = overdue(read)
      BY <1>2, <2>2 DEF receive_response
    <3> HIDE DEF answers
    <3>2. read \in Query /\ StaysQuery(q, read)
      BY <2>1 DEF StaysQuery, Query
    <3> HIDE DEF read
    <3>3. QED
      BY <3>1, <3>2, QueryOverdue
  <2>3. CASE reading.parses /\ m.kind = "r"
    <3>1. receive_response(q, m, reading) = read
      BY <2>3 DEF receive_response
    <3> HIDE DEF answers
    <3>2. QED
      BY <2>1, <3>1 DEF StaysQuery, Query
  <2>4. CASE reading.parses /\ m.kind = "R"
    <3> DEFINE f == failing(answers)
    <3>1. receive_response(q, m, reading) = [q EXCEPT !.response = "Completed", !.answers = f]
      <4>1. receive_response(q, m, reading) = [read EXCEPT !.response = "Completed", !.answers = failing(@)]
        BY <2>4 DEF receive_response
      <4> HIDE DEF answers
      <4>2. QED
        BY <4>1 DEF Query
    <3> HIDE DEF answers
    <3>2. f \in Seq(Answer) /\ Len(f) = Len(q.answers)
      BY <2>1, AnswersFail
    <3> HIDE DEF f
    <3> DEFINE r == receive_response(q, m, reading)
    <3> HIDE DEF r
    <3>3. r = [q EXCEPT !.response = "Completed", !.answers = f]
      BY <3>1 DEF r
    <3>4. r \in Query /\ r.connection = q.connection /\ r.unsent = q.unsent
          /\ Len(r.answers) = Len(q.answers)
      BY <3>2, <3>3 DEF Query
    <3>5. QED
      BY <3>4, QuerySame DEF r
  <2>5. QED
    BY <1>2, <2>2, <2>3, <2>4 DEF Reading
<1>3. QED
  BY <1>1, <1>2

\* A response keeps its type, and its connection.
LEMMA NewResponseIsTyped ==
  ASSUME NEW c \in Connections, NEW m, m.id \in ServiceIds, NEW service \in Services, NEW n
  PROVE  /\ ResponseOK(NewResponse(c, m, service), n)
         /\ NewResponse(c, m, service).connection = c
         /\ NewResponse(c, m, service).parts = 0
<1>1. <<>> \in Seq(Answer) /\ <<>> \in Seq(Entry)
  OBVIOUS
<1>2. QED
  BY <1>1 DEF NewResponse, ResponseOK, Response

LEMMA ResponseReceived ==
  ASSUME NEW r, NEW n \in Nat, ResponseOK(r, n),
         NEW m, m.kind \in {"q", "Q"}, m.parts \in Nat, n = asked[m.query].commands, NEW of_string
  PROVE  /\ ResponseOK(receive_query(r, m, of_string), n)
         /\ receive_query(r, m, of_string).connection = r.connection
         /\ receive_query(r, m, of_string).parts <= r.parts + m.parts
<1> DEFINE answers == [i \in 1 .. n |-> NoAnswer]
           parts == r.parts + m.parts
<1>1. answers \in Seq(Answer) /\ Len(answers) = n
  BY NoAnswers
<1>2. parts \in Nat
  BY DEF ResponseOK, Response
<1>3. \/ receive_query(r, m, of_string) = r
      \/ receive_query(r, m, of_string) = [r EXCEPT !.parts = parts]
      \/ receive_query(r, m, of_string) = [r EXCEPT !.parts = parts, !.completed = TRUE, !.answers = answers]
      \/ receive_query(r, m, of_string) = [r EXCEPT !.parts = parts, !.completed = TRUE, !.failed = TRUE]
  BY DEF receive_query
<1>4. r.parts \in Nat /\ r.parts <= r.parts + m.parts /\ parts = r.parts + m.parts
  BY DEF ResponseOK, Response
<1> HIDE DEF answers, parts
<1> DEFINE r1 == receive_query(r, m, of_string)
<1> HIDE DEF r1
<1>5. \/ r1 = r
      \/ r1 = [r EXCEPT !.parts = parts]
      \/ r1 = [r EXCEPT !.parts = parts, !.completed = TRUE, !.answers = answers]
      \/ r1 = [r EXCEPT !.parts = parts, !.completed = TRUE, !.failed = TRUE]
  BY <1>3 DEF r1
<1>6. ResponseOK(r1, n) /\ r1.connection = r.connection /\ r1.parts \in {r.parts, parts}
  BY <1>1, <1>2, <1>5 DEF ResponseOK, Response
<1>7. r1.parts <= r.parts + m.parts
  BY <1>4, <1>6
<1>8. QED
  BY <1>6, <1>7 DEF r1

LEMMA ResponseCancelled ==
  ASSUME NEW r, NEW n, ResponseOK(r, n), NEW m
  PROVE  /\ ResponseOK([r EXCEPT !.was_cancelled = TRUE], n)
         /\ [r EXCEPT !.was_cancelled = TRUE].connection = r.connection
         /\ [r EXCEPT !.was_cancelled = TRUE].parts = r.parts
         /\ ResponseOK(receive_cancel(r, m), n)
         /\ receive_cancel(r, m).connection = r.connection
         /\ receive_cancel(r, m).parts = r.parts
<1>1. /\ ResponseOK([r EXCEPT !.was_cancelled = TRUE], n)
      /\ [r EXCEPT !.was_cancelled = TRUE].connection = r.connection
      /\ [r EXCEPT !.was_cancelled = TRUE].parts = r.parts
  BY DEF ResponseOK, Response
<1>2. receive_cancel(r, m) \in {r, [r EXCEPT !.was_cancelled = TRUE]}
  BY DEF receive_cancel
<1>3. QED
  BY <1>1, <1>2

\* What goes into the buffer.
LEMMA EntriesAreTyped ==
  ASSUME NEW i \in Nat, NEW r \in Answer
  PROVE  entries_of(i, r) \in Seq(Entry)
<1>1. CASE ~has_news(r)
  BY <1>1 DEF entries_of
<1>2. CASE has_news(r) /\ (r.status = "ERROR" \/ r.rows = <<>>)
  <2>1. [command |-> i, status |-> r.status, rows |-> <<>>] \in Entry
    BY DEF Entry, Answer
  <2>2. entries_of(i, r) = <<[command |-> i, status |-> r.status, rows |-> <<>>]>>
    BY <1>2 DEF entries_of
  <2>3. QED
    BY <2>1, <2>2
<1>3. CASE has_news(r) /\ ~(r.status = "ERROR" \/ r.rows = <<>>)
  <2> DEFINE e(k) == [command |-> i, status |-> IF k = Len(r.rows) THEN r.status ELSE "ROWS",
                      rows |-> <<r.rows[k]>>]
  <2>1. r.rows \in Seq(Nat) /\ Len(r.rows) \in Nat
    BY DEF Answer
  <2>2. \A k \in 1 .. Len(r.rows) : e(k) \in Entry
    BY <2>1 DEF Entry, Answer, Statuses
  <2>3. entries_of(i, r) = [k \in 1 .. Len(r.rows) |-> e(k)]
    BY <1>3 DEF entries_of
  <2> HIDE DEF e
  <2>4. [k \in 1 .. Len(r.rows) |-> e(k)] \in [1 .. Len(r.rows) -> Entry]
    BY <2>2
  <2> DEFINE n == Len(r.rows)
             f == [k \in 1 .. Len(r.rows) |-> e(k)]
  <2>5. n \in Nat /\ f \in [1 .. n -> Entry]
    BY <2>1, <2>4
  <2> HIDE DEF n, f
  <2>6. f \in Seq(Entry)
    BY <2>5, IsSeq
  <2>7. QED
    BY <2>3, <2>6 DEF f
<1>4. QED
  BY <1>1, <1>2, <1>3

\* The answers go into the buffer one by one, and are read.
LEMMA FilledInSteps ==
  ASSUME NEW r, NEW n, ResponseOK(r, n)
  PROVE  \E g \in [0 .. Len(r.answers) -> Seq(Entry)] :
           /\ g[0] = r.buffer
           /\ \A k \in 1 .. Len(r.answers) : g[k] = g[k - 1] \o entries_of(k, r.answers[k])
           /\ fill_response_buffer(r) =
                [r EXCEPT !.buffer = g[Len(r.answers)], !.answers = read_all(r.answers)]
<1> DEFINE L == Len(r.answers)
           S == Seq(Entry)
           next(k, s) == s \o entries_of(k, r.answers[k])
           step == [x \in (1 .. L) \X S |-> next(x[1], x[2])]
           F == CHOOSE f : f = [k \in 0 .. L |-> IF k = 0 THEN r.buffer ELSE next(k, f[k - 1])]
<1>1. r.answers \in Seq(Answer) /\ r.buffer \in S /\ L \in Nat
  BY DEF ResponseOK, Response
<1>2. ASSUME NEW k \in 1 .. L, NEW s \in S PROVE next(k, s) \in S
  <2>1. r.answers[k] \in Answer /\ k \in Nat
    BY <1>1
  <2> DEFINE t == entries_of(k, r.answers[k])
  <2>2. t \in Seq(Entry)
    BY <2>1, EntriesAreTyped
  <2> HIDE DEF t
  <2>3. s \o t \in Seq(Entry)
    BY <2>2
  <2>4. QED
    BY <2>3 DEF t
<1> HIDE DEF next
<1>3. step \in [(1 .. L) \X S -> S]
  BY <1>2
<1>4. PICK g \in [0 .. L -> S] : Computes(g, L, r.buffer, step)
  <2> HIDE DEF S, L, step
  <2>1. QED
    BY <1>1, <1>3, StepsExist
<1>5. g = [k \in 0 .. L |-> IF k = 0 THEN r.buffer ELSE next(k, g[k - 1])]
  <2>1. ASSUME NEW k \in 0 .. L PROVE g[k] = IF k = 0 THEN r.buffer ELSE next(k, g[k - 1])
    <3>1. CASE k = 0
      BY <1>4, <3>1 DEF Computes
    <3>2. CASE k # 0
      <4>1. k \in 1 .. L /\ k - 1 \in 0 .. L
        BY <1>1, <3>2
      <4>2. g[k - 1] \in S
        BY <4>1
      <4>3. step[k, g[k - 1]] = next(k, g[k - 1])
        BY <4>1, <4>2
      <4>4. QED
        BY <1>4, <3>2, <4>1, <4>3 DEF Computes
    <3>3. QED
      BY <3>1, <3>2
  <2> HIDE DEF S, L
  <2>2. QED
    BY <2>1
<1>6. F = [k \in 0 .. L |-> IF k = 0 THEN r.buffer ELSE next(k, F[k - 1])]
  BY <1>5
<1> HIDE DEF F, L
<1>7. \A k \in 0 .. L : F[k] = g[k]
  <2>1. F[0] = g[0]
    BY <1>1, <1>5, <1>6
  <2>2. ASSUME NEW k \in 1 .. L, F[k - 1] = g[k - 1] PROVE F[k] = g[k]
    <3>1. k \in 0 .. L /\ k # 0
      BY <1>1
    <3>2. F[k] = next(k, F[k - 1])
      BY <1>6, <3>1
    <3>3. g[k] = next(k, g[k - 1])
      BY <1>5, <3>1
    <3>4. QED
      BY <2>2, <3>2, <3>3
  <2>3. \A k \in 1 .. L : F[k - 1] = g[k - 1] => F[k] = g[k]
    BY <2>2
  <2> HIDE DEF S
  <2>4. QED
    <3>1. SameSteps(L, F, g)
      BY <2>1, <2>3 DEF SameSteps
    <3>2. QED
      BY <1>1, <3>1, StepsAgree
<1>8. fill_response_buffer(r) = [r EXCEPT !.buffer = F[L], !.answers = read_all(r.answers)]
  BY DEF fill_response_buffer, read_all, F, L, next
<1>9. g[0] = r.buffer /\ F[L] = g[L]
  <2>1. 0 \in 0 .. L /\ L \in 0 .. L
    BY <1>1
  <2>2. QED
    BY <1>4, <1>7, <2>1 DEF Computes
<1>10. \A k \in 1 .. L : g[k] = next(k, g[k - 1])
  <2>1. \A k \in 1 .. L : k \in 0 .. L /\ k # 0
    BY <1>1
  <2>2. QED
    BY <1>5, <2>1
<1>11. QED
  BY <1>8, <1>9, <1>10 DEF next, L

LEMMA BufferFilled ==
  ASSUME NEW r, NEW n, ResponseOK(r, n)
  PROVE  /\ ResponseOK(fill_response_buffer(r), n)
         /\ fill_response_buffer(r).connection = r.connection
         /\ fill_response_buffer(r).parts = r.parts
         /\ fill_response_buffer(r).service_id = r.service_id
         /\ fill_response_buffer(r).failed = r.failed
         /\ fill_response_buffer(r).completed = r.completed
         /\ fill_response_buffer(r).was_read = r.was_read
         /\ fill_response_buffer(r).was_cancelled = r.was_cancelled
<1> DEFINE answers == read_all(r.answers)
<1>1. PICK g \in [0 .. Len(r.answers) -> Seq(Entry)] :
        fill_response_buffer(r) = [r EXCEPT !.buffer = g[Len(r.answers)], !.answers = answers]
  BY FilledInSteps
<1>2. r.answers \in Seq(Answer)
  BY DEF ResponseOK, Response
<1>3. answers \in Seq(Answer) /\ Len(answers) = Len(r.answers)
  BY <1>2, AnswersRead
<1>4. g[Len(r.answers)] \in Seq(Entry)
  <2>1. Len(r.answers) \in 0 .. Len(r.answers)
    BY <1>2
  <2>2. QED
    BY <2>1
<1> DEFINE b == g[Len(r.answers)]
<1>5. answers = <<>> \/ Len(answers) = n
  BY <1>2, <1>3 DEF ResponseOK
<1> HIDE DEF b, answers
<1>6. b \in Seq(Entry) /\ fill_response_buffer(r) = [r EXCEPT !.buffer = b, !.answers = answers]
  BY <1>1, <1>4 DEF b
<1>7. QED
  BY <1>3, <1>5, <1>6 DEF ResponseOK, Response

-----------------------------------------------------------------------------
(* Every state has its type *)

LEMMA InitTyped == Init => Typed
<1> SUFFICES ASSUME Init PROVE Typed
  OBVIOUS
<1>1. Empty \in Tables /\ DOMAIN Empty = {}
  <2>1. Empty \in [{} -> ServiceIds] /\ {} \in SUBSET Services
    BY DEF Empty
  <2>2. QED
    BY <2>1 DEF Tables, Empty
<1>2. ServicesTyped
  BY <1>1 DEF Init, ServicesTyped
<1>3. LinksTyped
  BY DEF Init, LinksTyped
<1>4. ChannelsTyped
  <2>1. Len(<<>>) <= MaxInFlight
    BY DbAssumption
  <2>2. QED
    BY <2>1 DEF Init, ChannelsTyped
<1>5. AskedTyped
  <2>1. DOMAIN asked = 1 .. 0
    BY <1>1 DEF Init
  <2>2. \E n \in Nat : DOMAIN asked = 1 .. n
    BY <2>1
  <2>3. QED
    BY <1>1, <2>2 DEF Init, AskedTyped, Empty
<1>6. QueriesTyped /\ ResponsesTyped /\ RestTyped
  BY <1>1 DEF Init, QueriesTyped, ResponsesTyped, RestTyped, Texts, Empty
<1>7. QED
  BY <1>2, <1>3, <1>4, <1>5, <1>6 DEF Typed

\* What a step leaves alone keeps its type.
LEMMA UntouchedTyped ==
  ASSUME Typed
  PROVE  /\ UNCHANGED <<my_services, told, known>> => ServicesTyped'
         /\ UNCHANGED <<asker_up, provider_up, met>> => LinksTyped'
         /\ UNCHANGED <<to_asker, to_provider, asked>> => ChannelsTyped'
         /\ UNCHANGED <<asked, heard, given, failed, ended>> => AskedTyped'
         /\ UNCHANGED <<queries, asked>> => QueriesTyped'
         /\ UNCHANGED <<responses, asked>> => ResponsesTyped'
<1>1. UNCHANGED <<my_services, told, known>> => ServicesTyped'
  BY DEF Typed, ServicesTyped
<1>2. UNCHANGED <<asker_up, provider_up, met>> => LinksTyped'
  BY DEF Typed, LinksTyped
<1>3. UNCHANGED <<to_asker, to_provider, asked>> => ChannelsTyped'
  BY DEF Typed, ChannelsTyped
<1>4. UNCHANGED <<asked, heard, given, failed, ended>> => AskedTyped'
  BY DEF Typed, AskedTyped
<1>5. UNCHANGED <<queries, asked>> => QueriesTyped'
  BY DEF Typed, QueriesTyped
<1>6. UNCHANGED <<responses, asked>> => ResponsesTyped'
  BY DEF Typed, ResponsesTyped
<1>7. QED
  BY <1>1, <1>2, <1>3, <1>4, <1>5, <1>6

\* A message is sent, or a channel gets shorter.
ChannelOf(S, channel) ==
  /\ channel \in [Connections -> Seq(S)]
  /\ \A d \in Connections : Len(channel[d]) <= MaxInFlight

Sending(channel, after, c, up, m) ==
  /\ Len(channel[c]) < MaxInFlight
  /\ after = IF c \in up THEN [channel EXCEPT ![c] = Append(channel[c], m)] ELSE channel

LEMMA ChannelSent ==
  ASSUME NEW S, NEW channel, ChannelOf(S, channel),
         NEW c \in Connections, NEW m \in S, NEW up,
         NEW after, Sending(channel, after, c, up, m)
  PROVE  ChannelOf(S, after)
<1>1. /\ channel \in [Connections -> Seq(S)]
      /\ \A d \in Connections : Len(channel[d]) <= MaxInFlight
      /\ Len(channel[c]) < MaxInFlight
      /\ after = IF c \in up THEN [channel EXCEPT ![c] = Append(channel[c], m)] ELSE channel
  BY DEF ChannelOf, Sending
<1>2. Append(channel[c], m) \in Seq(S) /\ Len(Append(channel[c], m)) = Len(channel[c]) + 1
  BY <1>1, Appended
<1>3. MaxInFlight \in Nat /\ Len(channel[c]) \in Nat
  BY <1>1, DbAssumption
<1>4. CASE c \in up
  <2>1. after = [channel EXCEPT ![c] = Append(channel[c], m)]
    BY <1>4, <1>1
  <2>2. ASSUME NEW d \in Connections PROVE Len(after[d]) <= MaxInFlight
    <3>1. CASE d = c
      BY <1>2, <1>3, <1>1, <2>1, <3>1
    <3>2. CASE d # c
      BY <1>1, <2>1, <3>2
    <3>3. QED
      BY <3>1, <3>2
  <2>3. QED
    BY <1>2, <1>1, <2>1, <2>2 DEF ChannelOf
<1>5. CASE c \notin up
  BY <1>5, <1>1 DEF ChannelOf
<1>6. QED
  BY <1>4, <1>5

LEMMA ChannelShortened ==
  ASSUME NEW S, NEW channel, ChannelOf(S, channel),
         NEW c \in Connections, NEW s, s = <<>> \/ (s = Tail(channel[c]) /\ channel[c] # <<>>)
  PROVE  ChannelOf(S, [channel EXCEPT ![c] = s])
<1> USE DEF ChannelOf
<1>1. MaxInFlight \in Nat /\ Len(channel[c]) \in Nat
  BY DbAssumption
<1>2. s \in Seq(S) /\ Len(s) <= MaxInFlight
  <2>1. CASE s = <<>>
    BY <1>1, <2>1
  <2>2. CASE s = Tail(channel[c]) /\ channel[c] # <<>>
    <3> DEFINE t == channel[c]
    <3>1. t \in Seq(S) /\ t # <<>> /\ s = Tail(t) /\ Len(t) <= MaxInFlight
      BY <2>2
    <3> HIDE DEF t
    <3>2. Tail(t) \in Seq(S) /\ Len(Tail(t)) = Len(t) - 1 /\ Len(t) \in Nat
      BY <3>1, Taken
    <3>3. QED
      BY <1>1, <3>1, <3>2
  <2>3. QED
    BY <2>1, <2>2
<1>3. ASSUME NEW d \in Connections PROVE Len([channel EXCEPT ![c] = s][d]) <= MaxInFlight
  BY <1>2
<1>4. QED
  BY <1>2, <1>3

\* What the messages on their way are, by the two sides.
LEMMA AskerChannelTyped ==
  ASSUME Typed, UNCHANGED <<to_provider, asked>>, ChannelOf(AskerMessages, to_asker')
  PROVE  ChannelsTyped'
  BY DEF Typed, ChannelsTyped, ChannelOf

LEMMA ProviderChannelTyped ==
  ASSUME Typed, UNCHANGED <<to_asker, asked>>,
         ChannelOf(ProviderMessages(DOMAIN asked), to_provider')
  PROVE  ChannelsTyped'
  BY DEF Typed, ChannelsTyped, ChannelOf

\* A message is sent to the asker, or to the provider.
LEMMA SentToAsker ==
  ASSUME Typed, NEW c \in Connections, NEW m \in AskerMessages, Sent(c, to_asker, asker_up, m),
         UNCHANGED <<to_provider, asked>>
  PROVE  ChannelsTyped'
<1> DEFINE after == to_asker'
<1>1. Sending(to_asker, after, c, asker_up, m)
  BY DEF Sent, Sending
<1>2. ChannelOf(AskerMessages, to_asker)
  BY DEF Typed, ChannelsTyped, ChannelOf
<1> HIDE DEF after
<1>3. ChannelOf(AskerMessages, after)
  BY <1>1, <1>2, ChannelSent
<1>4. QED
  BY <1>3, AskerChannelTyped DEF after

LEMMA SentToProvider ==
  ASSUME Typed, NEW c \in Connections, NEW m \in ProviderMessages(DOMAIN asked),
         Sent(c, to_provider, provider_up, m), UNCHANGED <<to_asker, asked>>
  PROVE  ChannelsTyped'
<1> DEFINE after == to_provider'
           S == ProviderMessages(DOMAIN asked)
<1>1. Sending(to_provider, after, c, provider_up, m)
  BY DEF Sent, Sending
<1>2. ChannelOf(S, to_provider) /\ m \in S
  BY DEF Typed, ChannelsTyped, ChannelOf
<1> HIDE DEF after, S
<1>3. ChannelOf(S, after)
  BY <1>1, <1>2, ChannelSent
<1>4. QED
  BY <1>3, ProviderChannelTyped DEF after, S

\* The first message of a channel is taken from it, or all are lost.
LEMMA TakenByAsker ==
  ASSUME Typed, NEW c \in Connections, NEW s,
         s = <<>> \/ (s = Tail(to_asker[c]) /\ to_asker[c] # <<>>),
         to_asker' = [to_asker EXCEPT ![c] = s], UNCHANGED <<to_provider, asked>>
  PROVE  ChannelsTyped'
<1>1. ChannelOf(AskerMessages, to_asker)
  BY DEF Typed, ChannelsTyped, ChannelOf
<1>2. ChannelOf(AskerMessages, [to_asker EXCEPT ![c] = s])
  BY <1>1, ChannelShortened
<1>3. QED
  BY <1>2, AskerChannelTyped

LEMMA TakenByProvider ==
  ASSUME Typed, NEW c \in Connections, NEW s,
         s = <<>> \/ (s = Tail(to_provider[c]) /\ to_provider[c] # <<>>),
         to_provider' = [to_provider EXCEPT ![c] = s], UNCHANGED <<to_asker, asked>>
  PROVE  ChannelsTyped'
<1> DEFINE S == ProviderMessages(DOMAIN asked)
<1>1. ChannelOf(S, to_provider)
  BY DEF Typed, ChannelsTyped, ChannelOf
<1> HIDE DEF S
<1>2. ChannelOf(S, [to_provider EXCEPT ![c] = s])
  BY <1>1, ChannelShortened
<1>3. QED
  BY <1>2, ProviderChannelTyped DEF S

\* Some queries stay, others go.
QueriesGoOn ==
  /\ DOMAIN queries' \subseteq DOMAIN queries
  /\ queries' = [q \in DOMAIN queries' |-> queries'[q]]
  /\ \A q \in DOMAIN queries' : StaysQuery(queries[q], queries'[q])

LEMMA QueriesUntouched ==
  ASSUME Typed, UNCHANGED queries
  PROVE  QueriesGoOn
  BY QueryStays DEF Typed, QueriesTyped, QueriesGoOn

LEMMA QueriesKept ==
  ASSUME Typed, UNCHANGED asked, QueriesGoOn
  PROVE  QueriesTyped'
<1> USE DEF QueriesGoOn
<1>1. ASSUME NEW q \in DOMAIN queries'
      PROVE  queries'[q] \in Query /\ Len(queries'[q].answers) = asked'[q].commands
  BY DEF Typed, QueriesTyped, StaysQuery
<1>2. QED
  BY <1>1 DEF Typed, QueriesTyped

LEMMA ResponsesKept ==
  ASSUME Typed, UNCHANGED asked, DOMAIN responses' \subseteq DOMAIN asked,
         responses' = [q \in DOMAIN responses' |-> responses'[q]],
         \A q \in DOMAIN responses' : ResponseOK(responses'[q], asked[q].commands)
  PROVE  ResponsesTyped'
  BY DEF ResponsesTyped

LEMMA ServicesKeepTypes ==
  ASSUME Typed, NEW p \in Providers, NEW services \in SUBSET Services, SetAcceptedServices(p, services)
  PROVE  Typed'
<1>1. ServicesTyped'
  BY DEF Typed, ServicesTyped, SetAcceptedServices, asking
<1>2. RestTyped'
  BY DEF Typed, RestTyped, SetAcceptedServices, asking
<1>3. QED
  BY <1>1, <1>2, UntouchedTyped DEF Typed, SetAcceptedServices, links, asking

LEMMA AnnounceKeepsTypes ==
  ASSUME Typed, NEW c \in Connections, Announce(c)
  PROVE  Typed'
<1>1. ASSUME NEW m \in AskerMessages, Sent(c, to_asker, asker_up, m), UNCHANGED <<to_provider, asked>>
      PROVE  ChannelsTyped'
  BY <1>1, SentToAsker
<1>2. told[c] \in Tables
  BY DEF Typed, ServicesTyped
<1>3. UNCHANGED <<to_provider, asked, my_services, known>>
  BY DEF Announce, asking
<1>4. ServicesTyped' /\ ChannelsTyped'
  <2>1. CASE \E s \in unannounced(c), id \in ServiceIds \ ids(told[c]) :
               /\ told' = [told EXCEPT ![c] = set(@, s, id)]
               /\ Sent(c, to_asker, asker_up, [kind |-> "a", service |-> s, id |-> id])
    <3>1. PICK s \in unannounced(c), id \in ServiceIds \ ids(told[c]) :
               /\ told' = [told EXCEPT ![c] = set(@, s, id)]
               /\ Sent(c, to_asker, asker_up, [kind |-> "a", service |-> s, id |-> id])
      BY <2>1
    <3>2. s \in Services /\ id \in ServiceIds
      BY DbAssumption DEF unannounced, Typed, ServicesTyped
    <3>3. set(told[c], s, id) \in Tables
      BY <1>2, <3>2, SetTable
    <3>4. ServicesTyped'
      BY <1>3, <3>1, <3>3 DEF Typed, ServicesTyped
    <3>5. [kind |-> "a", service |-> s, id |-> id] \in AskerMessages
      BY <3>2 DEF AskerMessages
    <3>6. QED
      BY <1>1, <1>3, <3>1, <3>4, <3>5
  <2>2. CASE \E s \in withdrawn(c) :
               /\ told' = [told EXCEPT ![c] = without(@, {s})]
               /\ Sent(c, to_asker, asker_up, [kind |-> "A", id |-> told[c][s]])
    <3>1. PICK s \in withdrawn(c) :
               /\ told' = [told EXCEPT ![c] = without(@, {s})]
               /\ Sent(c, to_asker, asker_up, [kind |-> "A", id |-> told[c][s]])
      BY <2>2
    <3>2. told[c][s] \in ServiceIds
      BY <1>2, IdsOfTable DEF withdrawn
    <3>3. without(told[c], {s}) \in Tables
      BY <1>2, WithoutTable
    <3>4. ServicesTyped'
      BY <1>3, <3>1, <3>3 DEF Typed, ServicesTyped
    <3>5. [kind |-> "A", id |-> told[c][s]] \in AskerMessages
      BY <3>2 DEF AskerMessages
    <3>6. QED
      BY <1>1, <1>3, <3>1, <3>4, <3>5
  <2>3. QED
    BY <2>1, <2>2 DEF Announce
<1>5. RestTyped'
  BY DEF Typed, RestTyped, Announce, asking
<1>6. QED
  BY <1>4, <1>5, UntouchedTyped DEF Typed, Announce, links, asking

\* The number of a new query is new.
LEMMA NumberIsNew ==
  ASSUME Typed
  PROVE  /\ Cardinality(DOMAIN asked) + 1 \notin DOMAIN asked
         /\ \E n \in Nat : DOMAIN asked \cup {Cardinality(DOMAIN asked) + 1} = 1 .. n
<1>1. PICK n \in Nat : DOMAIN asked = 1 .. n
  BY DEF Typed, AskedTyped
<1>2. Cardinality(1 .. n) = n
  <2>1. 1 \in Int /\ n \in Int
    OBVIOUS
  <2>2. Cardinality(1 .. n) = IF 1 > n THEN 0 ELSE n - 1 + 1
    BY <2>1, FS_Interval
  <2>3. QED
    BY <2>2
<1>3. n + 1 \notin 1 .. n /\ (1 .. n) \cup {n + 1} = 1 .. n + 1 /\ n + 1 \in Nat
  OBVIOUS
<1>4. QED
  BY <1>1, <1>2, <1>3

LEMMA ShapesAreTyped ==
  ASSUME NEW shape \in Shapes
  PROVE  shape.commands \in Nat /\ shape.parts \in Nat
  BY DbAssumption DEF Shapes

\* A map with another key.
LEMMA SetMap ==
  ASSUME NEW f, NEW k, NEW v
  PROVE  /\ set(f, k, v) = [x \in DOMAIN set(f, k, v) |-> set(f, k, v)[x]]
         /\ DOMAIN set(f, k, v) = DOMAIN f \cup {k}
         /\ set(f, k, v)[k] = v
         /\ \A x \in DOMAIN f : x # k => set(f, k, v)[x] = f[x]
  BY DEF set

LEMMA WithoutMap ==
  ASSUME NEW f, NEW S
  PROVE  /\ without(f, S) = [x \in DOMAIN without(f, S) |-> without(f, S)[x]]
         /\ DOMAIN without(f, S) = DOMAIN f \ S
         /\ \A x \in DOMAIN f \ S : without(f, S)[x] = f[x]
  BY DEF without

LEMMA NewQueryIsTyped ==
  ASSUME Typed, NEW c \in asker_up, NEW service \in DOMAIN known[c], NEW shape \in Shapes
  PROVE  /\ new_query(c, service, shape) \in Query
         /\ Len(new_query(c, service, shape).answers) = shape.commands
<1>1. shape.commands \in Nat /\ shape.parts \in Nat
  BY ShapesAreTyped
<1>2. c \in Connections /\ known[c] \in Tables
  BY DEF Typed, LinksTyped, ServicesTyped
<1>3. known[c][service] \in ServiceIds
  BY <1>2, IdsOfTable
<1> DEFINE answers == [i \in 1 .. shape.commands |-> NoAnswer]
<1>4. answers \in Seq(Answer) /\ Len(answers) = shape.commands
  BY <1>1, NoAnswers
<1>5. new_query(c, service, shape) =
        [connection |-> c, service_id |-> known[c][service], query |-> "Prepared",
         unsent |-> shape.parts, response |-> "Running", answers |-> answers]
  BY DEF new_query
<1> HIDE DEF answers
<1>6. QED
  BY <1>1, <1>2, <1>3, <1>4, <1>5 DEF Query

LEMMA SendQueryKeepsTypes ==
  ASSUME Typed, NEW service \in Services, NEW shape \in Shapes, SendQuery(service, shape)
  PROVE  Typed'
<1> DEFINE q == Cardinality(DOMAIN asked) + 1
           a == [service |-> service, commands |-> shape.commands, parts |-> shape.parts]
           h == [i \in 1 .. shape.commands |-> [status |-> "ROWS", rows |-> <<>>]]
           g == [i \in 1 .. shape.commands |-> [status |-> "ROWS", rows |-> 0]]
<1>1. /\ q \in QueryIds /\ asked' = set(asked, q, a) /\ heard' = set(heard, q, h)
      /\ given' = set(given, q, g)
      /\ \/ \E c \in asker_up : /\ service \in DOMAIN known[c]
                                /\ queries' = set(queries, q, new_query(c, service, shape))
                                /\ failed' = failed
         \/ failed' = failed \cup {q} /\ queries' = queries
      /\ asker_callback' = TRUE
      /\ UNCHANGED <<links, known, text, ended, my_services, unheard, told, responses,
                     provider_callback, changes, to_provider, to_asker>>
  BY DEF SendQuery
<1>2. q \notin DOMAIN asked /\ \E n \in Nat : DOMAIN asked \cup {q} = 1 .. n
  BY NumberIsNew
<1>3. shape.commands \in Nat /\ shape.parts \in Nat
  BY ShapesAreTyped
<1>4. /\ a \in [service : Services, commands : Nat, parts : Nat]
      /\ a.commands = shape.commands
      /\ h \in [1 .. shape.commands -> [status : Statuses, rows : Seq(Nat)]]
      /\ g \in [1 .. shape.commands -> [status : Statuses, rows : Nat]]
  <2>1. <<>> \in Seq(Nat)
    OBVIOUS
  <2>2. QED
    BY <1>3, <2>1 DEF Statuses
<1> HIDE DEF q, a, h, g
<1>5. /\ asked' = [x \in DOMAIN asked' |-> asked'[x]]
      /\ DOMAIN asked' = DOMAIN asked \cup {q} /\ asked'[q] = a
      /\ \A x \in DOMAIN asked : x # q => asked'[x] = asked[x]
  BY <1>1 DEF set
<1>6. /\ DOMAIN heard' = DOMAIN heard \cup {q} /\ heard'[q] = h
      /\ \A x \in DOMAIN heard : x # q => heard'[x] = heard[x]
  BY <1>1 DEF set
<1>7. /\ DOMAIN given' = DOMAIN given \cup {q} /\ given'[q] = g
      /\ \A x \in DOMAIN given : x # q => given'[x] = given[x]
  BY <1>1 DEF set
<1>8. AskedTyped'
  <2>1. asked' \in [DOMAIN asked' -> [service : Services, commands : Nat, parts : Nat]]
    <3>1. ASSUME NEW x \in DOMAIN asked' PROVE asked'[x] \in [service : Services, commands : Nat, parts : Nat]
      BY <1>2, <1>4, <1>5 DEF Typed, AskedTyped
    <3>2. QED
      BY <1>5, <3>1
  <2>2. ASSUME NEW x \in DOMAIN asked'
        PROVE  /\ heard'[x] \in [1 .. asked'[x].commands -> [status : Statuses, rows : Seq(Nat)]]
               /\ given'[x] \in [1 .. asked'[x].commands -> [status : Statuses, rows : Nat]]
    <3>1. CASE x = q
      BY <1>4, <1>5, <1>6, <1>7, <3>1
    <3>2. CASE x # q
      BY <1>5, <1>6, <1>7, <3>2 DEF Typed, AskedTyped
    <3>3. QED
      BY <3>1, <3>2
  <2>3. DOMAIN heard' = DOMAIN asked' /\ DOMAIN given' = DOMAIN asked'
    BY <1>5, <1>6, <1>7 DEF Typed, AskedTyped
  <2>4. DOMAIN asked' \subseteq QueryIds /\ \E n \in Nat : DOMAIN asked' = 1 .. n
    BY <1>1, <1>2, <1>5 DEF Typed, AskedTyped
  <2>5. failed' \subseteq DOMAIN asked' /\ ended' \subseteq DOMAIN asked'
    BY <1>1, <1>5 DEF Typed, AskedTyped
  <2>6. QED
    BY <2>1, <2>2, <2>3, <2>4, <2>5 DEF AskedTyped
<1>9. QueriesTyped'
  <2>1. CASE queries' = queries
    <3>1. ASSUME NEW x \in DOMAIN queries PROVE asked'[x] = asked[x] /\ x \in DOMAIN asked'
      BY <1>2, <1>5 DEF Typed, QueriesTyped
    <3>2. QED
      BY <2>1, <3>1 DEF Typed, QueriesTyped
  <2>2. ASSUME NEW c \in asker_up, service \in DOMAIN known[c],
               queries' = set(queries, q, new_query(c, service, shape))
        PROVE  QueriesTyped'
    <3> DEFINE n == new_query(c, service, shape)
    <3>1. n \in Query /\ Len(n.answers) = shape.commands
      BY <2>2, NewQueryIsTyped
    <3> HIDE DEF n
    <3>2. queries' = set(queries, q, n)
      BY <2>2 DEF n
    <3>3. /\ queries' = [x \in DOMAIN queries' |-> queries'[x]]
          /\ DOMAIN queries' = DOMAIN queries \cup {q} /\ queries'[q] = n
          /\ \A x \in DOMAIN queries : x # q => queries'[x] = queries[x]
      BY <3>2 DEF set
    <3>4. ASSUME NEW x \in DOMAIN queries'
          PROVE  /\ x \in DOMAIN asked' /\ queries'[x] \in Query
                 /\ Len(queries'[x].answers) = asked'[x].commands
      <4>1. CASE x = q
        BY <1>4, <1>5, <3>1, <3>3, <4>1
      <4>2. CASE x # q
        BY <1>5, <3>3, <4>2 DEF Typed, QueriesTyped
      <4>3. QED
        BY <4>1, <4>2
    <3>5. QED
      BY <3>3, <3>4 DEF QueriesTyped
  <2>3. QED
    BY <1>1, <2>1, <2>2
<1>10. ResponsesTyped'
  <2>1. ASSUME NEW x \in DOMAIN responses PROVE asked'[x] = asked[x] /\ x \in DOMAIN asked'
    BY <1>2, <1>5 DEF Typed, ResponsesTyped
  <2>2. responses' = responses
    BY <1>1
  <2>3. QED
    BY <2>1, <2>2 DEF Typed, ResponsesTyped
<1>11. ChannelsTyped'
  <2>1. ProviderMessages(DOMAIN asked) \subseteq ProviderMessages(DOMAIN asked')
    BY <1>5 DEF ProviderMessages
  <2>2. Seq(ProviderMessages(DOMAIN asked)) \subseteq Seq(ProviderMessages(DOMAIN asked'))
    BY <2>1
  <2>3. to_provider' = to_provider /\ to_asker' = to_asker
    BY <1>1
  <2>4. to_provider \in [Connections -> Seq(ProviderMessages(DOMAIN asked'))]
    BY <2>2 DEF Typed, ChannelsTyped
  <2>5. QED
    BY <2>3, <2>4 DEF Typed, ChannelsTyped
<1>12. RestTyped'
  BY <1>1 DEF Typed, RestTyped
<1>13. QED
  BY <1>1, <1>8, <1>9, <1>10, <1>11, <1>12, UntouchedTyped DEF Typed, links

\* The state of one query changes.
LEMMA QueryChanges ==
  ASSUME Typed, UNCHANGED asked, NEW q \in DOMAIN queries, NEW r, StaysQuery(queries[q], r),
         queries' = [queries EXCEPT ![q] = r]
  PROVE  QueriesGoOn
<1>1. queries' = [x \in DOMAIN queries |-> IF x = q THEN r ELSE queries[x]]
  BY DEF Typed, QueriesTyped
<1>2. ASSUME NEW x \in DOMAIN queries' PROVE StaysQuery(queries[x], queries'[x])
  <2>1. queries[x] \in Query
    BY <1>1 DEF Typed, QueriesTyped
  <2>2. QED
    BY <1>1, <2>1, QueryStays
<1>3. DOMAIN queries' = DOMAIN queries /\ queries' = [x \in DOMAIN queries' |-> queries'[x]]
  BY <1>1
<1>4. QED
  BY <1>2, <1>3 DEF QueriesGoOn

LEMMA CancelKeepsTypes ==
  ASSUME Typed, NEW q, NEW cb \in BOOLEAN, CancelQuery(q, cb)
  PROVE  Typed' /\ QueriesGoOn
<1> DEFINE after == [queries EXCEPT ![q] = cancelled(@, cb)]
<1>1. /\ q \in DOMAIN queries
      /\ queries' = remaining(after, {queries[q].connection})
      /\ asker_callback' = TRUE
      /\ UNCHANGED <<links, known, text, failed, asked, heard, ended, providing, to_provider, to_asker>>
  BY DEF CancelQuery
<1>2. after = [x \in DOMAIN queries |-> IF x = q THEN cancelled(queries[q], cb) ELSE queries[x]]
  BY <1>1 DEF Typed, QueriesTyped
<1>3. StaysQuery(queries[q], cancelled(queries[q], cb))
  <2> DEFINE p == queries[q]
             r == aborted(p)
  <2>1. p \in Query
    BY <1>1 DEF Typed, QueriesTyped
  <2> HIDE DEF p
  <2>2. StaysQuery(p, r)
    BY <2>1, QueryAborted
  <2>3. cancelled(p, cb) \in {[r EXCEPT !.query = "NeedSendCancel"],
                              [p EXCEPT !.query = "NeedSendCancel", !.response = "Cancelled"]}
    BY DEF cancelled
  <2> HIDE DEF r
  <2>4. StaysQuery(p, cancelled(p, cb))
    <3>1. StaysQuery(p, [r EXCEPT !.query = "NeedSendCancel"])
      BY <2>2 DEF StaysQuery, Query
    <3> DEFINE r1 == [p EXCEPT !.query = "NeedSendCancel", !.response = "Cancelled"]
    <3>2. r1 \in Query /\ r1.connection = p.connection /\ r1.unsent = p.unsent
          /\ Len(r1.answers) = Len(p.answers)
      BY <2>1 DEF Query
    <3> HIDE DEF r1
    <3>3. StaysQuery(p, r1)
      BY <2>1, <3>2, QuerySame
    <3>4. QED
      BY <2>3, <3>1, <3>3 DEF r1
  <2>5. QED
    BY <2>4 DEF p
<1>4. ASSUME NEW x \in DOMAIN queries PROVE StaysQuery(queries[x], after[x])
  <2>1. queries[x] \in Query
    BY DEF Typed, QueriesTyped
  <2>2. QED
    BY <1>2, <1>3, <2>1, QueryStays
<1>5. DOMAIN after = DOMAIN queries
  BY <1>2
<1> HIDE DEF after
<1>6. /\ DOMAIN queries' \subseteq DOMAIN after
      /\ queries' = [x \in DOMAIN queries' |-> queries'[x]]
      /\ \A x \in DOMAIN queries' : queries'[x] = after[x]
  BY <1>1 DEF remaining, without
<1>7. QueriesGoOn
  <2>1. ASSUME NEW x \in DOMAIN queries' PROVE StaysQuery(queries[x], queries'[x])
    BY <1>4, <1>5, <1>6
  <2>2. DOMAIN queries' \subseteq DOMAIN queries
    BY <1>5, <1>6
  <2>3. QED
    BY <1>1, <1>6, <2>1, <2>2 DEF QueriesGoOn
<1>8. RestTyped'
  BY <1>1 DEF Typed, RestTyped, providing
<1>9. QED
  BY <1>1, <1>7, <1>8, UntouchedTyped, QueriesKept DEF Typed, links, providing

LEMMA TimeOutKeepsTypes ==
  ASSUME Typed, NEW q, TimeOut(q)
  PROVE  Typed' /\ QueriesGoOn
<1>1. /\ q \in DOMAIN queries
      /\ queries' = [queries EXCEPT ![q] = overdue(queries[q])]
      /\ asker_callback' = TRUE
      /\ UNCHANGED <<links, known, text, failed, asked, heard, ended, providing, to_provider, to_asker>>
  BY DEF TimeOut
<1>2. StaysQuery(queries[q], overdue(queries[q]))
  <2> DEFINE p == queries[q]
             r == aborted(p)
  <2>1. p \in Query
    BY <1>1 DEF Typed, QueriesTyped
  <2> HIDE DEF p
  <2>2. StaysQuery(p, r)
    BY <2>1, QueryAborted
  <2>3. overdue(p) = [r EXCEPT !.query = "NeedSendCancel"]
    BY DEF overdue
  <2> HIDE DEF r
  <2>4. StaysQuery(p, overdue(p))
    BY <2>2, <2>3 DEF StaysQuery, Query
  <2>5. QED
    BY <2>4 DEF p
<1>3. QueriesGoOn
  <2> DEFINE r == overdue(queries[q])
  <2> HIDE DEF r
  <2>1. queries' = [queries EXCEPT ![q] = r] /\ StaysQuery(queries[q], r) /\ UNCHANGED asked
    BY <1>1, <1>2 DEF r
  <2>2. QED
    BY <1>1, <2>1, QueryChanges
<1>4. RestTyped'
  BY <1>1 DEF Typed, RestTyped, providing
<1>5. QED
  BY <1>1, <1>3, <1>4, UntouchedTyped, QueriesKept DEF Typed, links, providing

\* The query that sends is one of the asker's.
Sender(c) == first({q \in DOMAIN queries : queries[q].connection = c /\ has_to_send(queries[q])})

LEMMA SenderIsOne ==
  ASSUME Typed, NEW c, {q \in DOMAIN queries : queries[q].connection = c /\ has_to_send(queries[q])} # {}
  PROVE  Sender(c) \in DOMAIN queries /\ queries[Sender(c)].connection = c
<1> DEFINE S == {q \in DOMAIN queries : queries[q].connection = c /\ has_to_send(queries[q])}
<1>1. S \subseteq Nat /\ S # {}
  BY QueryIdsAreNumbers DEF Typed, QueriesTyped, AskedTyped
<1>2. first(S) \in S
  <2> HIDE DEF S
  <2>1. QED
    BY <1>1, FirstIsOne
<1>3. QED
  BY <1>2 DEF Sender

\* What SendOfQuery does with it.
LEMMA SendOfQuerySteps ==
  ASSUME Typed, NEW c \in Connections, SendOfQuery(c), NEW q, q = Sender(c)
  PROVE  /\ c \in asker_up /\ q \in DOMAIN queries /\ queries[q].connection = c
         /\ \/ /\ queries[q].query = "NeedSendCancel"
               /\ queries' = [queries EXCEPT ![q].query = "CancelWasSent"]
               /\ Sent(c, to_provider, provider_up,
                       [kind |-> "C", id |-> queries[q].service_id, query |-> q])
            \/ /\ queries[q].query = "Prepared"
               /\ \E n \in 1 .. queries[q].unsent :
                    /\ queries' = [queries EXCEPT ![q].unsent = @ - n]
                    /\ Sent(c, to_provider, provider_up,
                            [kind |-> IF n = queries[q].unsent THEN "Q" ELSE "q",
                             id |-> queries[q].service_id, query |-> q, parts |-> n])
         /\ UNCHANGED <<links, known, text, failed, asker_callback, asked, heard, ended, providing, to_asker>>
  BY SenderIsOne DEF SendOfQuery, Sender

LEMMA SendOfQueryKeepsTypes ==
  ASSUME Typed, NEW c \in Connections, SendOfQuery(c)
  PROVE  Typed' /\ QueriesGoOn
<1> DEFINE q == Sender(c)
           s == queries[q]
<1> HIDE DEF q
<1>1. /\ q \in DOMAIN queries
      /\ \/ /\ queries' = [queries EXCEPT ![q].query = "CancelWasSent"]
            /\ Sent(c, to_provider, provider_up, [kind |-> "C", id |-> s.service_id, query |-> q])
         \/ /\ \E n \in 1 .. s.unsent :
                 /\ queries' = [queries EXCEPT ![q].unsent = @ - n]
                 /\ Sent(c, to_provider, provider_up,
                         [kind |-> IF n = s.unsent THEN "Q" ELSE "q",
                          id |-> s.service_id, query |-> q, parts |-> n])
      /\ UNCHANGED <<links, known, text, failed, asker_callback, asked, heard, ended, providing, to_asker>>
  BY SendOfQuerySteps DEF q
<1>2. s \in Query /\ q \in DOMAIN asked
  BY <1>1 DEF Typed, QueriesTyped
<1>3. QueriesGoOn /\ ChannelsTyped'
  <2>1. UNCHANGED <<asked, to_asker>>
    BY <1>1
  <2>2. CASE /\ queries' = [queries EXCEPT ![q].query = "CancelWasSent"]
             /\ Sent(c, to_provider, provider_up, [kind |-> "C", id |-> s.service_id, query |-> q])
    <3> DEFINE r == [s EXCEPT !.query = "CancelWasSent"]
               m == [kind |-> "C", id |-> s.service_id, query |-> q]
    <3>1. StaysQuery(s, r)
      BY <1>2 DEF StaysQuery, Query
    <3>2. queries' = [queries EXCEPT ![q] = r] /\ Sent(c, to_provider, provider_up, m)
      BY <2>2
    <3>3. m \in ProviderMessages(DOMAIN asked)
      BY <1>2 DEF ProviderMessages, Query
    <3> HIDE DEF r, m
    <3>4. QueriesGoOn
      BY <1>1, <2>1, <3>1, <3>2, QueryChanges
    <3>5. ChannelsTyped'
      BY <2>1, <3>2, <3>3, SentToProvider
    <3>6. QED
      BY <3>4, <3>5
  <2>3. ASSUME NEW n \in 1 .. s.unsent,
               queries' = [queries EXCEPT ![q].unsent = @ - n],
               Sent(c, to_provider, provider_up,
                    [kind |-> IF n = s.unsent THEN "Q" ELSE "q",
                     id |-> s.service_id, query |-> q, parts |-> n])
        PROVE  QueriesGoOn /\ ChannelsTyped'
    <3> DEFINE k == s.unsent - n
               r == [s EXCEPT !.unsent = k]
               m == [kind |-> IF n = s.unsent THEN "Q" ELSE "q",
                     id |-> s.service_id, query |-> q, parts |-> n]
    <3>1. k \in Nat /\ n \in Nat
      BY <1>2 DEF Query
    <3>2. queries' = [queries EXCEPT ![q] = r] /\ Sent(c, to_provider, provider_up, m)
      BY <2>3
    <3>3. m \in ProviderMessages(DOMAIN asked)
      BY <1>2, <3>1 DEF ProviderMessages, Query
    <3>4. StaysQuery(s, r)
      <4>1. k \in 0 .. s.unsent
        BY <1>2, <3>1 DEF Query
      <4> HIDE DEF k
      <4>2. r \in Query /\ r.connection = s.connection /\ r.unsent = k
            /\ Len(r.answers) = Len(s.answers)
        BY <1>2, <3>1 DEF Query
      <4> HIDE DEF r
      <4>3. QED
        BY <4>1, <4>2 DEF StaysQuery
    <3> HIDE DEF r, m
    <3>5. QueriesGoOn
      BY <1>1, <2>1, <3>4, <3>2, QueryChanges
    <3>6. ChannelsTyped'
      BY <2>1, <3>2, <3>3, SentToProvider
    <3>7. QED
      BY <3>5, <3>6
  <2>4. QED
    BY <1>1, <2>2, <2>3
<1>4. RestTyped'
  BY <1>1 DEF Typed, RestTyped, providing
<1>5. QED
  BY <1>1, <1>3, <1>4, UntouchedTyped, QueriesKept DEF Typed, links, providing

\* What AskerReceives does with a message.
LEMMA AskerReceivesSteps ==
  ASSUME asker_callback \in BOOLEAN, NEW c, AskerReceives(c), NEW m, m = Head(to_asker[c])
  PROVE  /\ to_asker[c] # <<>>
         /\ to_asker' = [to_asker EXCEPT ![c] = Tail(to_asker[c])]
         /\ known' = [known EXCEPT ![c] = receive_service(known[c], m)]
         /\ \/ /\ is_awaited(c, m)
               /\ text' = [text EXCEPT ![m.query] = text_with(@, m)]
               /\ \E reading \in readings(text'[m.query], queries[m.query], m) :
                    queries' = [queries EXCEPT ![m.query] = receive_response(queries[m.query], m, reading)]
               /\ asker_callback' = TRUE
            \/ /\ queries' = queries
               /\ text' = IF is_awaited(c, m) THEN [text EXCEPT ![m.query] = text_without(@, m)] ELSE text
         /\ asker_callback' \in {TRUE, asker_callback}
         /\ UNCHANGED <<links, failed, asked, heard, ended, providing, to_provider>>
<1>1. PICK heeded : heeded = (is_awaited(c, m) /\ m.id \in ids(known[c]))
  OBVIOUS
<1>2. /\ to_asker[c] # <<>>
      /\ to_asker' = [to_asker EXCEPT ![c] = Tail(to_asker[c])]
      /\ known' = [known EXCEPT ![c] = receive_service(known[c], m)]
      /\ IF heeded
           THEN /\ text' = [text EXCEPT ![m.query] = text_with(@, m)]
                /\ \E reading \in readings(text'[m.query], queries[m.query], m) :
                     queries' = [queries EXCEPT ![m.query] = receive_response(queries[m.query], m, reading)]
           ELSE /\ text' = IF is_awaited(c, m) THEN [text EXCEPT ![m.query] = text_without(@, m)] ELSE text
                /\ queries' = queries
      /\ asker_callback' = (asker_callback \/ known' # known \/ heeded)
      /\ UNCHANGED <<links, failed, asked, heard, ended, providing, to_provider>>
  BY <1>1 DEF AskerReceives
<1>3. heeded => asker_callback' = TRUE
  BY <1>2
<1>4. asker_callback' \in {TRUE, asker_callback}
  BY <1>2
<1>5. heeded \in BOOLEAN /\ (heeded => is_awaited(c, m))
  BY <1>1
<1>6. CASE heeded
  BY <1>2, <1>3, <1>4, <1>5, <1>6
<1>7. CASE ~heeded
  BY <1>2, <1>4, <1>7
<1>8. QED
  BY <1>6, <1>7

\* A part of an answer is taken, or is not waited for or dropped.
Takes(c, m, reading) ==
  /\ is_awaited(c, m)
  /\ text' = [text EXCEPT ![m.query] = text_with(@, m)]
  /\ reading \in readings(text'[m.query], queries[m.query], m)
  /\ queries' = [queries EXCEPT ![m.query] = receive_response(queries[m.query], m, reading)]

Leaves(c, m) ==
  /\ queries' = queries
  /\ text' = IF is_awaited(c, m) THEN [text EXCEPT ![m.query] = text_without(@, m)] ELSE text

LEMMA TakesOrLeaves ==
  ASSUME NEW c, AskerReceives(c), NEW m, m = Head(to_asker[c])
  PROVE  Leaves(c, m) \/ \E reading : Takes(c, m, reading)
<1>1. PICK heeded : heeded = (is_awaited(c, m) /\ m.id \in ids(known[c]))
  OBVIOUS
<1>2. IF heeded
        THEN /\ text' = [text EXCEPT ![m.query] = text_with(@, m)]
             /\ \E reading \in readings(text'[m.query], queries[m.query], m) :
                  queries' = [queries EXCEPT ![m.query] = receive_response(queries[m.query], m, reading)]
        ELSE /\ text' = IF is_awaited(c, m) THEN [text EXCEPT ![m.query] = text_without(@, m)] ELSE text
             /\ queries' = queries
  BY <1>1 DEF AskerReceives
<1>3. CASE heeded
  <2>1. PICK reading \in readings(text'[m.query], queries[m.query], m) :
          queries' = [queries EXCEPT ![m.query] = receive_response(queries[m.query], m, reading)]
    BY <1>2, <1>3
  <2>2. Takes(c, m, reading)
    BY <1>1, <1>2, <1>3, <2>1 DEF Takes
  <2>3. QED
    BY <2>2
<1>4. CASE ~heeded
  BY <1>2, <1>4 DEF Leaves
<1>5. QED
  BY <1>3, <1>4

LEMMA AskerReceivesKeepsTypes ==
  ASSUME Typed, NEW c \in Connections, AskerReceives(c)
  PROVE  Typed' /\ QueriesGoOn
<1> DEFINE m == Head(to_asker[c])
<1>1. /\ to_asker[c] # <<>>
      /\ to_asker' = [to_asker EXCEPT ![c] = Tail(to_asker[c])]
      /\ known' = [known EXCEPT ![c] = receive_service(known[c], m)]
      /\ \/ /\ is_awaited(c, m)
            /\ text' = [text EXCEPT ![m.query] = text_with(@, m)]
            /\ \E reading \in readings(text'[m.query], queries[m.query], m) :
                 queries' = [queries EXCEPT ![m.query] = receive_response(queries[m.query], m, reading)]
         \/ /\ queries' = queries
            /\ text' = IF is_awaited(c, m) THEN [text EXCEPT ![m.query] = text_without(@, m)] ELSE text
      /\ asker_callback' \in {TRUE, asker_callback}
      /\ UNCHANGED <<links, failed, asked, heard, ended, providing, to_provider>>
  BY AskerReceivesSteps DEF Typed, RestTyped
<1>2. m \in AskerMessages
  <2> DEFINE s == to_asker[c]
  <2>1. s \in Seq(AskerMessages) /\ s # <<>>
    BY <1>1 DEF Typed, ChannelsTyped
  <2> HIDE DEF s
  <2>2. Head(s) \in AskerMessages
    BY <2>1, Taken
  <2>3. QED
    BY <2>2 DEF s
<1> HIDE DEF m
<1>3. ServicesTyped'
  <2>1. receive_service(known[c], m) \in Tables
    BY <1>2, ReceivedService DEF Typed, ServicesTyped
  <2>2. QED
    BY <1>1, <2>1 DEF Typed, ServicesTyped, providing
<1>4. ChannelsTyped'
  <2> DEFINE s == Tail(to_asker[c])
  <2>1. s = Tail(to_asker[c]) /\ to_asker[c] # <<>> /\ to_asker' = [to_asker EXCEPT ![c] = s]
        /\ UNCHANGED <<to_provider, asked>>
    BY <1>1
  <2> HIDE DEF s
  <2>2. QED
    BY <2>1, TakenByAsker
<1>5. QueriesGoOn
  <2>1. ASSUME is_awaited(c, m), NEW reading \in readings(text'[m.query], queries[m.query], m),
               queries' = [queries EXCEPT ![m.query] = receive_response(queries[m.query], m, reading)]
        PROVE  QueriesGoOn
    <3> DEFINE q == m.query
               s == queries[q]
               r == receive_response(s, m, reading)
    <3>1. q \in DOMAIN queries /\ m.kind \in {"r", "R", "E"}
      BY <2>1 DEF is_awaited
    <3>2. s \in Query
      BY <3>1 DEF Typed, QueriesTyped
    <3>7. reading \in Reading
      BY <1>2, <2>1, <3>1, <3>2, ReadingsAreTyped
    <3> HIDE DEF s
    <3>3. StaysQuery(s, r)
      BY <1>2, <3>1, <3>2, <3>7, QueryAnswered
    <3>4. queries' = [queries EXCEPT ![q] = r] /\ UNCHANGED asked
      BY <1>1, <2>1 DEF s
    <3>5. StaysQuery(queries[q], r)
      BY <3>3 DEF s
    <3> HIDE DEF q, r
    <3>6. QED
      BY <3>1, <3>4, <3>5, QueryChanges
  <2>2. CASE queries' = queries
    BY <1>1, <2>2, QueriesUntouched
  <2>3. QED
    BY <1>1, <2>1, <2>2
<1>6. RestTyped'
  <2>1. asker_callback' \in BOOLEAN
    BY <1>1 DEF Typed, RestTyped
  <2>2. text' \in [QueryIds -> Texts]
    <3>1. \A t \in Texts : text_with(t, m) \in Texts /\ text_without(t, m) \in Texts
      BY DEF text_with, text_without, Texts
    <3>2. QED
      BY <1>1, <3>1 DEF Typed, RestTyped
  <2>3. QED
    BY <1>1, <2>1, <2>2 DEF Typed, RestTyped, providing
<1>7. QED
  BY <1>1, <1>3, <1>4, <1>5, <1>6, UntouchedTyped, QueriesKept DEF Typed, links, providing

LEMMA ReadOfStays ==
  ASSUME Typed, NEW q \in DOMAIN queries
  PROVE  StaysQuery(queries[q], read_of(q))
<1> DEFINE p == queries[q]
<1>1. p \in Query
  BY DEF Typed, QueriesTyped
<1> HIDE DEF p
<1>2. StaysQuery(p, query_read(p)) /\ StaysQuery(p, p)
  BY <1>1, QueryRead, QueryStays
<1>3. read_of(q) \in {p, query_read(p)}
  BY DEF read_of, p
<1>4. QED
  BY <1>2, <1>3 DEF p

LEMMA GetResponsesKeepsTypes ==
  ASSUME Typed, GetReceivedResponses
  PROVE  Typed' /\ QueriesGoOn
<1> DEFINE hears(q, i) ==
             IF q \in failed THEN [heard[q][i] EXCEPT !.status = "ERROR"]
             ELSE IF q \in told_now /\ i \in news(q)
             THEN [status |-> queries[q].answers[i].status,
                   rows |-> heard[q][i].rows \o queries[q].answers[i].rows]
             ELSE heard[q][i]
           after == [q \in DOMAIN queries |-> read_of(q)]
<1>1. /\ asker_callback' = FALSE
      /\ heard' = [q \in DOMAIN heard |-> [i \in DOMAIN heard[q] |-> hears(q, i)]]
      /\ ended' = ended \cup failed \cup ended_now
      /\ failed' = {}
      /\ queries' = remaining(after, Connections)
      /\ UNCHANGED <<links, known, text, asked, providing, to_provider, to_asker>>
  BY DEF GetReceivedResponses
<1>2. ASSUME NEW q \in DOMAIN heard, NEW i \in DOMAIN heard[q]
      PROVE  hears(q, i) \in [status : Statuses, rows : Seq(Nat)]
  <2> DEFINE h == heard[q][i]
             a == queries[q].answers[i]
  <2>1. h \in [status : Statuses, rows : Seq(Nat)]
    <3>1. heard[q] \in [1 .. asked[q].commands -> [status : Statuses, rows : Seq(Nat)]]
      BY DEF Typed, AskedTyped
    <3>2. QED
      BY <3>1
  <2>2. q \in told_now /\ i \in news(q) => a \in Answer
    <3>1. ASSUME q \in told_now, i \in news(q) PROVE a \in Answer
      <4>1. q \in DOMAIN queries /\ i \in DOMAIN queries[q].answers
        BY <3>1 DEF told_now, news
      <4>2. queries[q].answers \in Seq(Answer)
        BY <4>1 DEF Typed, QueriesTyped, Query
      <4>3. QED
        BY <4>1, <4>2
    <3>2. QED
      BY <3>1
  <2>3. hears(q, i) = IF q \in failed THEN [h EXCEPT !.status = "ERROR"]
                      ELSE IF q \in told_now /\ i \in news(q)
                      THEN [status |-> a.status, rows |-> h.rows \o a.rows]
                      ELSE h
    OBVIOUS
  <2> HIDE DEF h, a, hears
  <2>4. CASE q \in failed
    BY <2>1, <2>3, <2>4 DEF Statuses
  <2>5. CASE q \notin failed /\ q \in told_now /\ i \in news(q)
    <3>1. a.rows \in Seq(Nat) /\ h.rows \in Seq(Nat) /\ a.status \in Statuses
      BY <2>1, <2>2, <2>5 DEF Answer
    <3>2. h.rows \o a.rows \in Seq(Nat)
      BY <3>1
    <3>3. QED
      BY <2>3, <2>5, <3>1, <3>2
  <2>6. CASE q \notin failed /\ ~(q \in told_now /\ i \in news(q))
    BY <2>1, <2>3, <2>6
  <2>7. QED
    BY <2>4, <2>5, <2>6
<1> HIDE DEF hears
<1>3. AskedTyped'
  <2>1. asked' = asked /\ given' = given /\ DOMAIN heard' = DOMAIN heard
    BY <1>1 DEF providing
  <2>2. ASSUME NEW q \in DOMAIN asked
        PROVE  heard'[q] \in [1 .. asked[q].commands -> [status : Statuses, rows : Seq(Nat)]]
    <3>1. q \in DOMAIN heard /\ DOMAIN heard[q] = 1 .. asked[q].commands
      BY DEF Typed, AskedTyped
    <3>2. heard'[q] = [i \in DOMAIN heard[q] |-> hears(q, i)]
      BY <1>1, <3>1
    <3>3. QED
      BY <1>2, <3>1, <3>2
  <2>3. failed' \subseteq DOMAIN asked /\ ended' \subseteq DOMAIN asked
    <3>1. ended_now \subseteq DOMAIN queries
      BY DEF ended_now, told_now
    <3>2. QED
      BY <1>1, <3>1 DEF Typed, AskedTyped, QueriesTyped
  <2>4. QED
    BY <2>1, <2>2, <2>3 DEF Typed, AskedTyped
<1>4. QueriesGoOn
  <2>1. /\ DOMAIN queries' \subseteq DOMAIN queries
        /\ queries' = [x \in DOMAIN queries' |-> queries'[x]]
        /\ \A x \in DOMAIN queries' : queries'[x] = read_of(x)
    BY <1>1 DEF remaining, without
  <2>2. \A x \in DOMAIN queries' : StaysQuery(queries[x], queries'[x])
    BY <2>1, ReadOfStays
  <2>3. QED
    BY <1>1, <2>1, <2>2 DEF QueriesGoOn
<1>5. RestTyped'
  BY <1>1 DEF Typed, RestTyped, providing
<1>6. QED
  BY <1>1, <1>3, <1>4, <1>5, UntouchedTyped, QueriesKept DEF Typed, links, providing

\* What ProviderReceives does with a message.
Response0(c, m) ==
  IF m.query \in DOMAIN responses /\ responses[m.query].connection = c THEN responses[m.query]
  ELSE NewResponse(c, m, named(told[c], m.id))

LEMMA ProviderReceivesSteps ==
  ASSUME Typed, NEW c \in Connections, ProviderReceives(c), NEW m, m = Head(to_provider[c])
  PROVE  /\ m \in ProviderMessages(DOMAIN asked)
         /\ to_provider[c] # <<>>
         /\ to_provider' = [to_provider EXCEPT ![c] = Tail(to_provider[c])]
         /\ \/ responses' = responses
            \/ /\ m.id \in ids(told[c]) /\ m.kind \in {"q", "Q"}
               /\ \E of_string \in BOOLEAN :
                    responses' = set(responses, m.query, receive_query(Response0(c, m), m, of_string))
            \/ /\ m.id \in ids(told[c]) /\ m.kind = "C"
               /\ m.query \in DOMAIN responses /\ responses[m.query].connection = c
               /\ responses' = [responses EXCEPT ![m.query] = receive_cancel(responses[m.query], m)]
         /\ unheard' \in {unheard, unheard \cup {m.query}}
         /\ provider_callback' = [provider_callback EXCEPT
                                    ![ProviderOf[c]] = @ \/ wakes_user(responses, responses')]
         /\ UNCHANGED <<links, asking, my_services, told, given, changes, to_asker>>
<1> DEFINE s == to_provider[c]
<1>1. s \in Seq(ProviderMessages(DOMAIN asked)) /\ s # <<>>
  BY DEF Typed, ChannelsTyped, ProviderReceives
<1>2. m = Head(s)
  OBVIOUS
<1> HIDE DEF s
<1>3. m \in ProviderMessages(DOMAIN asked)
  BY <1>1, <1>2, Taken
<1>4. m.kind \in {"q", "Q", "C"}
  BY <1>3 DEF ProviderMessages
<1>5. /\ to_provider[c] # <<>>
      /\ to_provider' = [to_provider EXCEPT ![c] = Tail(to_provider[c])]
      /\ provider_callback' = [provider_callback EXCEPT
                                 ![ProviderOf[c]] = @ \/ wakes_user(responses, responses')]
      /\ UNCHANGED <<links, asking, my_services, told, given, changes, to_asker>>
  BY DEF ProviderReceives
<1>6. unheard' \in {unheard, unheard \cup {m.query}}
  BY DEF ProviderReceives
<1>7. \/ responses' = responses
      \/ /\ m.id \in ids(told[c]) /\ m.kind \in {"q", "Q"}
         /\ \E of_string \in BOOLEAN :
              responses' = set(responses, m.query, receive_query(Response0(c, m), m, of_string))
      \/ /\ m.id \in ids(told[c]) /\ m.kind = "C"
         /\ m.query \in DOMAIN responses /\ responses[m.query].connection = c
         /\ responses' = [responses EXCEPT ![m.query] = receive_cancel(responses[m.query], m)]
  BY <1>4 DEF ProviderReceives, Response0
<1>8. QED
  BY <1>3, <1>5, <1>6, <1>7

LEMMA ProviderReceivesKeepsTypes ==
  ASSUME Typed, NEW c \in Connections, ProviderReceives(c)
  PROVE  Typed'
<1> DEFINE m == Head(to_provider[c])
           q == m.query
<1> HIDE DEF m
<1>1. /\ m \in ProviderMessages(DOMAIN asked)
      /\ to_provider[c] # <<>>
      /\ to_provider' = [to_provider EXCEPT ![c] = Tail(to_provider[c])]
      /\ \/ responses' = responses
         \/ /\ m.id \in ids(told[c]) /\ m.kind \in {"q", "Q"}
            /\ \E of_string \in BOOLEAN :
                 responses' = set(responses, q, receive_query(Response0(c, m), m, of_string))
         \/ /\ m.id \in ids(told[c]) /\ m.kind = "C"
            /\ q \in DOMAIN responses /\ responses[q].connection = c
            /\ responses' = [responses EXCEPT ![q] = receive_cancel(responses[q], m)]
      /\ provider_callback' = [provider_callback EXCEPT
                                 ![ProviderOf[c]] = @ \/ wakes_user(responses, responses')]
      /\ UNCHANGED <<links, asking, my_services, told, given, changes, to_asker>>
  BY ProviderReceivesSteps DEF m
<1>2. q \in DOMAIN asked /\ m.id \in ServiceIds
  BY <1>1 DEF ProviderMessages
<1> DEFINE n == asked[q].commands
<1>3. n \in Nat
  BY <1>2 DEF Typed, AskedTyped
<1>4. ASSUME q \in DOMAIN responses PROVE ResponseOK(responses[q], n)
  BY <1>4 DEF Typed, ResponsesTyped
<1>5. ResponsesTyped'
  <2>1. UNCHANGED asked
    BY <1>1 DEF asking
  <2>2. DOMAIN responses \subseteq DOMAIN asked /\ responses = [x \in DOMAIN responses |-> responses[x]]
    BY DEF Typed, ResponsesTyped
  <2>3. \A x \in DOMAIN responses : ResponseOK(responses[x], asked[x].commands)
    BY DEF Typed, ResponsesTyped
  <2>4. CASE responses' = responses
    BY <2>1, <2>4, UntouchedTyped
  <2>5. ASSUME m.id \in ids(told[c]), m.kind \in {"q", "Q"}, NEW of_string \in BOOLEAN,
               responses' = set(responses, q, receive_query(Response0(c, m), m, of_string))
        PROVE  ResponsesTyped'
    <3> DEFINE r0 == Response0(c, m)
               r == receive_query(r0, m, of_string)
               service == named(told[c], m.id)
    <3>1. m.parts \in Nat
      BY <1>1, <2>5 DEF ProviderMessages
    <3>2. service \in Services
      <4>1. told[c] \in Tables
        BY DEF Typed, ServicesTyped
      <4>2. QED
        BY <2>5, <4>1, IdsOfTable
    <3>3. ResponseOK(r0, n)
      <4>1. CASE q \in DOMAIN responses /\ responses[q].connection = c
        BY <1>4, <4>1 DEF Response0
      <4>2. CASE ~(q \in DOMAIN responses /\ responses[q].connection = c)
        <5>1. r0 = NewResponse(c, m, service)
          BY <4>2 DEF Response0
        <5> HIDE DEF service, r0, n
        <5>2. QED
          BY <1>2, <3>2, <5>1, NewResponseIsTyped
      <4>3. QED
        BY <4>1, <4>2
    <3> HIDE DEF r0
    <3>4. ResponseOK(r, n)
      BY <1>3, <2>5, <3>1, <3>3, ResponseReceived
    <3> HIDE DEF r
    <3>5. responses' = set(responses, q, r)
      BY <2>5 DEF r, r0
    <3>6. /\ DOMAIN responses' = DOMAIN responses \cup {q}
          /\ responses' = [x \in DOMAIN responses' |-> responses'[x]]
          /\ responses'[q] = r
          /\ \A x \in DOMAIN responses : x # q => responses'[x] = responses[x]
      BY <3>5 DEF set
    <3>7. ASSUME NEW x \in DOMAIN responses' PROVE ResponseOK(responses'[x], asked[x].commands)
      <4>1. CASE x = q
        BY <3>4, <3>6, <4>1
      <4>2. CASE x # q
        BY <2>3, <3>6, <4>2
      <4>3. QED
        BY <4>1, <4>2
    <3>8. DOMAIN responses' \subseteq DOMAIN asked
      BY <1>2, <2>2, <3>6
    <3>9. QED
      BY <2>1, <3>6, <3>7, <3>8, ResponsesKept
  <2>6. CASE /\ m.kind = "C"
             /\ q \in DOMAIN responses /\ responses[q].connection = c
             /\ responses' = [responses EXCEPT ![q] = receive_cancel(responses[q], m)]
    <3> DEFINE r0 == responses[q]
               r == receive_cancel(r0, m)
    <3>1. ResponseOK(r0, n)
      BY <1>4, <2>6
    <3> HIDE DEF r0, n
    <3>2. ResponseOK(r, n)
      BY <3>1, ResponseCancelled
    <3> HIDE DEF r
    <3>3. responses' = [responses EXCEPT ![q] = r]
      BY <2>6 DEF r, r0
    <3>4. responses' = [x \in DOMAIN responses |-> IF x = q THEN r ELSE responses[x]]
      BY <2>2, <3>3
    <3>5. ASSUME NEW x \in DOMAIN responses' PROVE ResponseOK(responses'[x], asked[x].commands)
      <4>1. CASE x = q
        BY <3>2, <3>4, <4>1 DEF n
      <4>2. CASE x # q
        BY <2>3, <3>4, <4>2
      <4>3. QED
        BY <4>1, <4>2
    <3>6. DOMAIN responses' = DOMAIN responses /\ responses' = [x \in DOMAIN responses' |-> responses'[x]]
      BY <3>4
    <3>7. QED
      BY <2>1, <2>2, <3>5, <3>6, ResponsesKept
  <2>7. QED
    BY <1>1, <2>4, <2>5, <2>6
<1>6. ChannelsTyped'
  <2> DEFINE s == Tail(to_provider[c])
  <2>1. s = Tail(to_provider[c]) /\ to_provider[c] # <<>> /\ to_provider' = [to_provider EXCEPT ![c] = s]
        /\ UNCHANGED <<to_asker, asked>>
    BY <1>1 DEF asking
  <2> HIDE DEF s
  <2>2. QED
    BY <2>1, TakenByProvider
<1>7. RestTyped'
  <2>1. provider_callback' \in [Providers -> BOOLEAN]
    BY <1>1 DEF Typed, RestTyped
  <2>2. QED
    BY <1>1, <2>1 DEF Typed, RestTyped, asking
<1>8. QED
  BY <1>1, <1>5, <1>6, <1>7, UntouchedTyped DEF Typed, links, asking

\* Some responses stay, others go.
StaysResponse(r, r1, n) ==
  /\ ResponseOK(r1, n)
  /\ r1.connection = r.connection
  /\ r1.parts = r.parts

ResponsesGoOn ==
  /\ DOMAIN responses' \subseteq DOMAIN responses
  /\ responses' = [q \in DOMAIN responses' |-> responses'[q]]
  /\ \A q \in DOMAIN responses' : StaysResponse(responses[q], responses'[q], asked[q].commands)

LEMMA ResponsesUntouched ==
  ASSUME Typed, UNCHANGED responses
  PROVE  ResponsesGoOn
  BY DEF Typed, ResponsesTyped, ResponsesGoOn, StaysResponse

LEMMA ResponsesStay ==
  ASSUME Typed, UNCHANGED asked, ResponsesGoOn
  PROVE  ResponsesTyped'
  BY ResponsesKept DEF Typed, ResponsesTyped, ResponsesGoOn, StaysResponse

LEMMA GetQueriesKeepsTypes ==
  ASSUME Typed, NEW p \in Providers, GetReceivedQueries(p)
  PROVE  Typed' /\ ResponsesGoOn
<1> DEFINE own == {q \in DOMAIN responses : ProviderOf[responses[q].connection] = p}
           gone == {q \in own : responses[q].was_cancelled}
           read(q) == IF q \in own /\ is_for_user(responses[q])
                      THEN [responses[q] EXCEPT !.was_read = TRUE] ELSE responses[q]
           after == [q \in DOMAIN responses |-> read(q)]
<1>1. /\ provider_callback' = [provider_callback EXCEPT ![p] = FALSE]
      /\ responses' = without(after, gone)
      /\ UNCHANGED <<links, asking, my_services, unheard, told, given, changes, to_provider, to_asker>>
  BY DEF GetReceivedQueries
<1>2. ASSUME NEW q \in DOMAIN responses PROVE StaysResponse(responses[q], read(q), asked[q].commands)
  <2> DEFINE r == responses[q]
             n == asked[q].commands
  <2>1. ResponseOK(r, n)
    BY DEF Typed, ResponsesTyped
  <2>2. read(q) = r \/ (r.completed /\ read(q) = [r EXCEPT !.was_read = TRUE])
    BY DEF is_for_user
  <2> HIDE DEF r, n, read
  <2>3. StaysResponse(r, read(q), n)
    BY <2>1, <2>2 DEF StaysResponse, ResponseOK, Response
  <2>4. QED
    BY <2>3 DEF n, r
<1> HIDE DEF read, gone
<1>3. /\ DOMAIN responses' \subseteq DOMAIN responses
      /\ responses' = [q \in DOMAIN responses' |-> responses'[q]]
      /\ \A q \in DOMAIN responses' : responses'[q] = read(q)
  BY <1>1 DEF without
<1>4. ResponsesGoOn
  BY <1>1, <1>2, <1>3 DEF ResponsesGoOn, asking
<1>5. RestTyped'
  BY <1>1 DEF Typed, RestTyped, asking
<1>6. QED
  BY <1>1, <1>4, <1>5, UntouchedTyped, ResponsesStay DEF Typed, links, asking

LEMMA SendResponseKeepsTypes ==
  ASSUME Typed, NEW q, NEW i, NEW status \in Statuses, NEW n \in 0 .. 1, SendResponse(q, i, status, n)
  PROVE  Typed' /\ ResponsesGoOn
<1> DEFINE r == responses[q]
           g == given[q][i]
           g1 == [status |-> status, rows |-> g.rows + n]
           rows == [j \in 1 .. n |-> g.rows + j]
<1>1. /\ q \in DOMAIN responses /\ i \in DOMAIN given[q]
      /\ given' = [given EXCEPT ![q][i] = g1]
      /\ \/ responses' = responses
         \/ responses' = [responses EXCEPT ![q].answers[i] = add_to_query_state(@, status, rows)]
      /\ provider_callback' = [provider_callback EXCEPT ![ProviderOf[r.connection]] = TRUE]
      /\ UNCHANGED <<links, asking, my_services, unheard, told, changes, to_provider, to_asker>>
  BY DEF SendResponse
<1>2. q \in DOMAIN asked /\ ResponseOK(r, asked[q].commands)
  BY <1>1 DEF Typed, ResponsesTyped
<1>3. given[q] \in [1 .. asked[q].commands -> [status : Statuses, rows : Nat]]
  BY <1>2 DEF Typed, AskedTyped
<1>4. g \in [status : Statuses, rows : Nat] /\ n \in Nat
  <2>1. i \in 1 .. asked[q].commands
    BY <1>1, <1>3
  <2>2. g \in [status : Statuses, rows : Nat]
    BY <1>3, <2>1
  <2>3. QED
    BY <2>2
<1>5. rows \in Seq(Nat)
  <2>1. \A j \in 1 .. n : g.rows + j \in Nat
    BY <1>4
  <2> DEFINE row(j) == g.rows + j
  <2>2. [j \in 1 .. n |-> row(j)] \in [1 .. n -> Nat]
    BY <2>1
  <2> HIDE DEF row
  <2>3. [j \in 1 .. n |-> row(j)] \in Seq(Nat)
    BY <1>4, <2>2, IsSeq
  <2>4. QED
    BY <2>3 DEF row
<1>6. g1 \in [status : Statuses, rows : Nat]
  BY <1>4
<1> HIDE DEF g1, rows, g
<1>7. AskedTyped'
  <2>1. /\ asked' = asked /\ heard' = heard /\ failed' = failed /\ ended' = ended
        /\ DOMAIN given' = DOMAIN given
    BY <1>1 DEF asking
  <2>2. ASSUME NEW x \in DOMAIN asked
        PROVE  given'[x] \in [1 .. asked[x].commands -> [status : Statuses, rows : Nat]]
    <3>1. given[x] \in [1 .. asked[x].commands -> [status : Statuses, rows : Nat]]
          /\ x \in DOMAIN given
      BY DEF Typed, AskedTyped
    <3>2. CASE x = q
      <4>1. given'[x] = [given[q] EXCEPT ![i] = g1]
        BY <1>1, <3>1, <3>2
      <4>2. QED
        BY <1>3, <1>6, <3>2, <4>1
    <3>3. CASE x # q
      BY <1>1, <3>1, <3>3
    <3>4. QED
      BY <3>2, <3>3
  <2>3. QED
    BY <2>1, <2>2 DEF Typed, AskedTyped
<1>8. ResponsesGoOn
  <2>1. UNCHANGED asked
    BY <1>1 DEF asking
  <2>2. CASE responses' = responses
    BY <2>2, ResponsesUntouched
  <2>3. CASE responses' = [responses EXCEPT ![q].answers[i] = add_to_query_state(@, status, rows)]
    <3> DEFINE a == r.answers
               a1 == [a EXCEPT ![i] = add_to_query_state(a[i], status, rows)]
               r1 == [r EXCEPT !.answers = a1]
               m == asked[q].commands
    <3>1. a \in Seq(Answer)
      BY <1>2 DEF ResponseOK, Response
    <3>2. a1 \in Seq(Answer) /\ Len(a1) = Len(a)
      <4>1. i \in DOMAIN a => add_to_query_state(a[i], status, rows) \in Answer
        <5>1. i \in DOMAIN a => a[i] \in Answer
          BY <3>1
        <5>2. QED
          BY <1>5, <5>1, AddedToAnswer
      <4> DEFINE v == add_to_query_state(a[i], status, rows)
      <4>2. i \in DOMAIN a => v \in Answer
        BY <4>1
      <4> HIDE DEF a, v
      <4>3. [a EXCEPT ![i] = v] \in Seq(Answer) /\ Len([a EXCEPT ![i] = v]) = Len(a)
        BY <3>1, <4>2, Replaced
      <4>4. QED
        BY <4>3 DEF v
    <3>3. responses' = [responses EXCEPT ![q] = r1]
      BY <2>3
    <3>4. ResponseOK(r, m)
      BY <1>2
    <3>5. a1 = <<>> \/ Len(a1) = m
      <4>1. a = <<>> \/ Len(a) = m
        BY <3>4 DEF ResponseOK
      <4> HIDE DEF a, a1, m
      <4>2. QED
        BY <3>1, <3>2, <4>1
    <3> HIDE DEF a1
    <3>6. StaysResponse(r, r1, m)
      <4> HIDE DEF r, m
      <4>1. QED
        BY <3>2, <3>4, <3>5 DEF StaysResponse, ResponseOK, Response
    <3> HIDE DEF r1
    <3>7. responses' = [x \in DOMAIN responses |-> IF x = q THEN r1 ELSE responses[x]]
      BY <3>3 DEF Typed, ResponsesTyped
    <3>8. ASSUME NEW x \in DOMAIN responses' PROVE StaysResponse(responses[x], responses'[x], asked[x].commands)
      <4>1. CASE x = q
        BY <3>6, <3>7, <4>1
      <4>2. CASE x # q
        BY <3>7, <4>2 DEF Typed, ResponsesTyped, StaysResponse
      <4>3. QED
        BY <4>1, <4>2
    <3>9. DOMAIN responses' = DOMAIN responses /\ responses' = [x \in DOMAIN responses' |-> responses'[x]]
      BY <3>7
    <3>10. QED
      BY <2>1, <3>8, <3>9 DEF ResponsesGoOn
  <2>4. QED
    BY <1>1, <2>2, <2>3
<1>9. RestTyped'
  BY <1>1 DEF Typed, RestTyped, asking
<1>10. QED
  BY <1>1, <1>7, <1>8, <1>9, UntouchedTyped, ResponsesStay DEF Typed, links, asking

\* The response that is sent is one of the provider's.
Replier(c) == first({q \in DOMAIN responses : responses[q].connection = c /\ has_answer_to_send(responses[q])})

LEMMA ReplierIsOne ==
  ASSUME Typed, NEW c,
         {q \in DOMAIN responses : responses[q].connection = c /\ has_answer_to_send(responses[q])} # {}
  PROVE  /\ Replier(c) \in DOMAIN responses /\ responses[Replier(c)].connection = c
         /\ has_answer_to_send(responses[Replier(c)])
<1> DEFINE S == {q \in DOMAIN responses : responses[q].connection = c /\ has_answer_to_send(responses[q])}
<1>1. S \subseteq Nat /\ S # {}
  BY QueryIdsAreNumbers DEF Typed, ResponsesTyped, AskedTyped
<1>2. first(S) \in S
  <2> HIDE DEF S
  <2>1. QED
    BY <1>1, FirstIsOne
<1>3. QED
  BY <1>2 DEF Replier

\* A part of an answer, and what is left of it then.
part_of(r, q, kind, n) ==
  [kind |-> kind, id |-> r.service_id, query |-> q, inside |-> r.begun,
   entries |-> SubSeq(r.buffer, 1, n)]

rest_of(r, n, begins) ==
  [r EXCEPT !.buffer = SubSeq(@, n + 1, Len(@)), !.begun = begins]

\* What SendOfAnswer does with it.
LEMMA SendOfAnswerSteps ==
  ASSUME Typed, NEW c \in Connections, SendOfAnswer(c), NEW q, q = Replier(c),
         NEW r, r = fill_response_buffer(responses[q])
  PROVE  /\ c \in provider_up /\ q \in DOMAIN responses /\ responses[q].connection = c
         /\ has_answer_to_send(responses[q])
         /\ \/ /\ r.failed
               /\ responses' = without(responses, {q})
               /\ Sent(c, to_asker, asker_up, [kind |-> "E", id |-> r.service_id, query |-> q])
            \/ \E n \in 0 .. Len(r.buffer), kind \in {"r", "R"}, begins \in BOOLEAN :
                 /\ r.buffer # <<>>
                 /\ \/ responses' = without(responses, {q})
                    \/ responses' = [responses EXCEPT ![q] = rest_of(r, n, begins)]
                 /\ Sent(c, to_asker, asker_up, part_of(r, q, kind, n))
         /\ UNCHANGED <<links, asking, my_services, unheard, told, provider_callback, given, changes,
                        to_provider>>
<1>1. q \in DOMAIN responses /\ responses[q].connection = c /\ has_answer_to_send(responses[q])
  BY ReplierIsOne DEF SendOfAnswer
<1> DEFINE whole(n) == n = Len(r.buffer) /\ all_final(r.answers)
<1>2. \/ /\ r.failed
         /\ responses' = without(responses, {q})
         /\ Sent(c, to_asker, asker_up, [kind |-> "E", id |-> r.service_id, query |-> q])
      \/ \E n \in 0 .. Len(r.buffer), begins \in BOOLEAN :
           /\ begins => n < Len(r.buffer)
           /\ n = 0 => begins
           /\ responses' = IF whole(n) THEN without(responses, {q})
                           ELSE [responses EXCEPT ![q] = rest_of(r, n, begins)]
           /\ Sent(c, to_asker, asker_up, part_of(r, q, IF whole(n) THEN "R" ELSE "r", n))
  BY DEF SendOfAnswer, Replier, part_of, rest_of
<1> HIDE DEF whole
<1>3. \/ /\ r.failed
         /\ responses' = without(responses, {q})
         /\ Sent(c, to_asker, asker_up, [kind |-> "E", id |-> r.service_id, query |-> q])
      \/ \E n \in 0 .. Len(r.buffer), kind \in {"r", "R"}, begins \in BOOLEAN :
           /\ r.buffer # <<>>
           /\ \/ responses' = without(responses, {q})
              \/ responses' = [responses EXCEPT ![q] = rest_of(r, n, begins)]
           /\ Sent(c, to_asker, asker_up, part_of(r, q, kind, n))
  <2>1. ASSUME NEW n \in 0 .. Len(r.buffer), NEW begins \in BOOLEAN,
               begins => n < Len(r.buffer), n = 0 => begins,
               responses' = IF whole(n) THEN without(responses, {q})
                            ELSE [responses EXCEPT ![q] = rest_of(r, n, begins)],
               Sent(c, to_asker, asker_up, part_of(r, q, IF whole(n) THEN "R" ELSE "r", n))
        PROVE  \E kind \in {"r", "R"} :
                 /\ r.buffer # <<>>
                 /\ \/ responses' = without(responses, {q})
                    \/ responses' = [responses EXCEPT ![q] = rest_of(r, n, begins)]
                 /\ Sent(c, to_asker, asker_up, part_of(r, q, kind, n))
    <3>1. r.buffer # <<>>
      BY <2>1
    <3>2. CASE whole(n)
      BY <2>1, <3>1, <3>2
    <3>3. CASE ~whole(n)
      BY <2>1, <3>1, <3>3
    <3>4. QED
      BY <3>2, <3>3
  <2>2. QED
    BY <1>2, <2>1
<1>4. /\ c \in provider_up
      /\ UNCHANGED <<links, asking, my_services, unheard, told, provider_callback, given, changes,
                     to_provider>>
  BY DEF SendOfAnswer
<1>5. QED
  BY <1>1, <1>3, <1>4

LEMMA SendOfAnswerKeepsTypes ==
  ASSUME Typed, NEW c \in Connections, SendOfAnswer(c)
  PROVE  Typed' /\ ResponsesGoOn
<1> DEFINE q == Replier(c)
           r == fill_response_buffer(responses[q])
           n0 == asked[q].commands
<1>1. /\ c \in provider_up /\ q \in DOMAIN responses /\ responses[q].connection = c
      /\ has_answer_to_send(responses[q])
      /\ \/ /\ r.failed
            /\ responses' = without(responses, {q})
            /\ Sent(c, to_asker, asker_up, [kind |-> "E", id |-> r.service_id, query |-> q])
         \/ \E n \in 0 .. Len(r.buffer), kind \in {"r", "R"}, begins \in BOOLEAN :
              /\ r.buffer # <<>>
              /\ \/ responses' = without(responses, {q})
                 \/ responses' = [responses EXCEPT ![q] = rest_of(r, n, begins)]
              /\ Sent(c, to_asker, asker_up, part_of(r, q, kind, n))
      /\ UNCHANGED <<links, asking, my_services, unheard, told, provider_callback, given, changes,
                     to_provider>>
  BY SendOfAnswerSteps
<1> HIDE DEF q
<1>2. ResponseOK(responses[q], n0) /\ q \in DOMAIN asked
  BY <1>1 DEF Typed, ResponsesTyped
<1>3. StaysResponse(responses[q], r, n0)
  <2> DEFINE s == responses[q]
  <2>1. ResponseOK(s, n0)
    BY <1>2
  <2> HIDE DEF s, n0
  <2>2. StaysResponse(s, fill_response_buffer(s), n0)
    BY <2>1, BufferFilled DEF StaysResponse
  <2>3. QED
    BY <2>2 DEF s
<1> HIDE DEF r
<1>4. q \in QueryIds /\ r.service_id \in ServiceIds /\ r.buffer \in Seq(Entry) /\ r.begun \in BOOLEAN
  BY <1>2, <1>3 DEF Typed, AskedTyped, StaysResponse, ResponseOK, Response
<1>5. UNCHANGED <<asked, to_provider>>
  BY <1>1 DEF asking
<1>6. ASSUME responses' = without(responses, {q}) PROVE ResponsesGoOn
  <2>1. /\ DOMAIN responses' \subseteq DOMAIN responses
        /\ responses' = [x \in DOMAIN responses' |-> responses'[x]]
        /\ \A x \in DOMAIN responses' : responses'[x] = responses[x]
    BY <1>6 DEF without
  <2>2. \A x \in DOMAIN responses' : StaysResponse(responses[x], responses'[x], asked[x].commands)
    BY <2>1 DEF Typed, ResponsesTyped, StaysResponse
  <2>3. QED
    BY <1>5, <2>1, <2>2 DEF ResponsesGoOn
<1>7. ASSUME NEW n \in 0 .. Len(r.buffer), NEW begins \in BOOLEAN,
             responses' = [responses EXCEPT ![q] = rest_of(r, n, begins)]
      PROVE  ResponsesGoOn
  <2> DEFINE b == SubSeq(r.buffer, n + 1, Len(r.buffer))
             r1 == [r EXCEPT !.buffer = b, !.begun = begins]
  <2>1. b \in Seq(Entry)
    BY <1>4
  <2> HIDE DEF b
  <2>2. StaysResponse(responses[q], r1, n0)
    BY <1>3, <2>1 DEF StaysResponse, ResponseOK, Response
  <2>3. responses' = [responses EXCEPT ![q] = r1]
    BY <1>7 DEF b, rest_of
  <2> HIDE DEF r1
  <2>4. responses' = [x \in DOMAIN responses |-> IF x = q THEN r1 ELSE responses[x]]
    BY <2>3 DEF Typed, ResponsesTyped
  <2>5. ASSUME NEW x \in DOMAIN responses' PROVE StaysResponse(responses[x], responses'[x], asked[x].commands)
    <3>1. CASE x = q
      BY <2>2, <2>4, <3>1
    <3>2. CASE x # q
      BY <2>4, <3>2 DEF Typed, ResponsesTyped, StaysResponse
    <3>3. QED
      BY <3>1, <3>2
  <2>6. DOMAIN responses' = DOMAIN responses /\ responses' = [x \in DOMAIN responses' |-> responses'[x]]
    BY <2>4
  <2>7. QED
    BY <1>5, <2>5, <2>6 DEF ResponsesGoOn
<1>8. ASSUME NEW m \in AskerMessages, Sent(c, to_asker, asker_up, m) PROVE ChannelsTyped'
  BY <1>5, <1>8, SentToAsker
<1>9. ResponsesGoOn /\ ChannelsTyped'
  <2>1. CASE /\ r.failed
             /\ responses' = without(responses, {q})
             /\ Sent(c, to_asker, asker_up, [kind |-> "E", id |-> r.service_id, query |-> q])
    <3>1. [kind |-> "E", id |-> r.service_id, query |-> q] \in AskerMessages
      BY <1>4 DEF AskerMessages
    <3>2. QED
      BY <1>6, <1>8, <2>1, <3>1
  <2>2. ASSUME NEW n \in 0 .. Len(r.buffer), NEW kind \in {"r", "R"}, NEW begins \in BOOLEAN,
             r.buffer # <<>>,
               \/ responses' = without(responses, {q})
               \/ responses' = [responses EXCEPT ![q] = rest_of(r, n, begins)],
               Sent(c, to_asker, asker_up, part_of(r, q, kind, n))
        PROVE  ResponsesGoOn /\ ChannelsTyped'
    <3> DEFINE entries == SubSeq(r.buffer, 1, n)
    <3>1. entries \in Seq(Entry)
      BY <1>4
    <3> HIDE DEF entries
    <3>2. [kind |-> kind, id |-> r.service_id, query |-> q, inside |-> r.begun, entries |-> entries]
            \in AskerMessages
      BY <1>4, <3>1 DEF AskerMessages
    <3>3. ChannelsTyped'
      BY <1>8, <2>2, <3>2 DEF entries, part_of
    <3>4. QED
      BY <1>6, <1>7, <2>2, <3>3
  <2>3. QED
    BY <1>1, <2>1, <2>2
<1>10. RestTyped'
  BY <1>1 DEF Typed, RestTyped, asking
<1>11. QED
  BY <1>1, <1>9, <1>10, UntouchedTyped, ResponsesStay DEF Typed, links, asking

LEMMA AskerLosesKeepsTypes ==
  ASSUME Typed, NEW c \in Connections, AskerLoses(c)
  PROVE  Typed' /\ QueriesGoOn
<1> DEFINE lost(q) == IF queries[q].connection # c THEN queries[q]
                      ELSE IF queries[q].response = "Running"
                      THEN [aborted(queries[q]) EXCEPT !.query = "Aborted"]
                      ELSE [queries[q] EXCEPT !.query = "Aborted"]
<1>1. /\ asker_up' = asker_up \ {c}
      /\ to_asker' = [to_asker EXCEPT ![c] = <<>>]
      /\ queries' = [q \in DOMAIN queries |-> lost(q)]
      /\ asker_callback' = TRUE
      /\ UNCHANGED <<provider_up, met, known, text, failed, asked, heard, ended, providing, to_provider>>
  BY DEF AskerLoses
<1>2. ASSUME NEW q \in DOMAIN queries PROVE StaysQuery(queries[q], lost(q))
  <2> DEFINE p == queries[q]
             r == aborted(p)
  <2>1. p \in Query
    BY DEF Typed, QueriesTyped
  <2>2. lost(q) \in {p, [r EXCEPT !.query = "Aborted"], [p EXCEPT !.query = "Aborted"]}
    OBVIOUS
  <2> HIDE DEF p, lost
  <2>3. StaysQuery(p, r)
    BY <2>1, QueryAborted
  <2> HIDE DEF r
  <2>4. StaysQuery(p, lost(q))
    BY <2>1, <2>2, <2>3 DEF StaysQuery, Query
  <2>5. QED
    BY <2>4 DEF p
<1> HIDE DEF lost
<1>3. QueriesGoOn
  <2>1. DOMAIN queries' = DOMAIN queries /\ queries' = [q \in DOMAIN queries' |-> queries'[q]]
    BY <1>1
  <2>2. \A q \in DOMAIN queries' : StaysQuery(queries[q], queries'[q])
    BY <1>1, <1>2
  <2>3. QED
    BY <1>1, <2>1, <2>2 DEF QueriesGoOn
<1>4. LinksTyped'
  BY <1>1 DEF Typed, LinksTyped
<1>5. ChannelsTyped'
  BY <1>1, TakenByAsker
<1>6. RestTyped'
  BY <1>1 DEF Typed, RestTyped, providing
<1>7. QED
  BY <1>1, <1>3, <1>4, <1>5, <1>6, UntouchedTyped, QueriesKept DEF Typed, providing

LEMMA ProviderLosesKeepsTypes ==
  ASSUME Typed, NEW c \in Connections, ProviderLoses(c)
  PROVE  Typed' /\ ResponsesGoOn
<1> DEFINE lost(q) == IF responses[q].connection = c
                      THEN [responses[q] EXCEPT !.was_cancelled = TRUE] ELSE responses[q]
<1>1. /\ provider_up' = provider_up \ {c}
      /\ to_provider' = [to_provider EXCEPT ![c] = <<>>]
      /\ responses' = [q \in DOMAIN responses |-> lost(q)]
      /\ provider_callback' = [provider_callback EXCEPT ![ProviderOf[c]] = TRUE]
      /\ UNCHANGED <<asker_up, met, asking, my_services, unheard, told, given, changes, to_asker>>
  BY DEF ProviderLoses
<1>2. ASSUME NEW q \in DOMAIN responses PROVE StaysResponse(responses[q], lost(q), asked[q].commands)
  <2> DEFINE r == responses[q]
             n == asked[q].commands
  <2>1. ResponseOK(r, n) /\ lost(q) \in {r, [r EXCEPT !.was_cancelled = TRUE]}
    BY DEF Typed, ResponsesTyped
  <2> HIDE DEF r, n, lost
  <2>2. StaysResponse(r, lost(q), n)
    BY <2>1, ResponseCancelled DEF StaysResponse
  <2>3. QED
    BY <2>2 DEF n, r
<1> HIDE DEF lost
<1>3. ResponsesGoOn
  <2>1. DOMAIN responses' = DOMAIN responses /\ responses' = [q \in DOMAIN responses' |-> responses'[q]]
    BY <1>1
  <2>2. \A q \in DOMAIN responses' : StaysResponse(responses[q], responses'[q], asked[q].commands)
    BY <1>1, <1>2
  <2>3. QED
    BY <1>1, <2>1, <2>2 DEF ResponsesGoOn, asking
<1>4. LinksTyped'
  BY <1>1 DEF Typed, LinksTyped
<1>5. ChannelsTyped'
  BY <1>1, TakenByProvider DEF asking
<1>6. RestTyped'
  BY <1>1 DEF Typed, RestTyped, asking
<1>7. QED
  BY <1>1, <1>3, <1>4, <1>5, <1>6, UntouchedTyped, ResponsesStay DEF Typed, asking

LEMMA ConnectKeepsTypes ==
  ASSUME Typed, NEW c \in Connections, Connect(c)
  PROVE  Typed'
<1>1. /\ met' = met \cup {c}
      /\ asker_up' \in {asker_up, asker_up \cup {c}}
      /\ provider_up' \in {provider_up, provider_up \cup {c}}
      /\ UNCHANGED <<losses, asking, providing, to_asker, to_provider>>
  BY DEF Connect
<1>2. LinksTyped'
  BY <1>1 DEF Typed, LinksTyped
<1>3. RestTyped'
  BY <1>1 DEF Typed, RestTyped, asking, providing
<1>4. QED
  BY <1>1, <1>2, <1>3, UntouchedTyped DEF Typed, asking, providing

\* What a step is.
LEMMA StepsAre ==
  ASSUME [Next]_vars
  PROVE  \/ \E service \in Services, shape \in Shapes : SendQuery(service, shape)
         \/ \E q \in QueryIds, cb \in BOOLEAN : CancelQuery(q, cb)
         \/ \E q \in QueryIds : TimeOut(q)
         \/ \E c \in Connections : SendOfQuery(c) \/ AskerReceives(c)
         \/ GetReceivedResponses
         \/ \E p \in Providers, services \in SUBSET Services : SetAcceptedServices(p, services)
         \/ \E c \in Connections : Announce(c) \/ SendOfAnswer(c) \/ ProviderReceives(c)
         \/ \E p \in Providers : GetReceivedQueries(p)
         \/ \E q \in DOMAIN given : \E i \in DOMAIN given[q], status \in Statuses, n \in 0 .. 1 :
              SendResponse(q, i, status, n)
         \/ \E c \in Connections : AskerLoses(c) \/ ProviderLoses(c) \/ Connect(c)
         \/ UNCHANGED vars
  BY DEF Next, AskerStep, ProviderStep, Statuses

LEMMA StepsKeepTypes ==
  ASSUME Typed, [Next]_vars
  PROVE  Typed'
<1>1. CASE UNCHANGED vars
  <2>1. RestTyped'
    BY <1>1 DEF Typed, RestTyped, vars
  <2>2. QED
    BY <1>1, <2>1, UntouchedTyped DEF Typed, vars
<1>2. QED
  BY <1>1, StepsAre, SendQueryKeepsTypes, CancelKeepsTypes, TimeOutKeepsTypes, SendOfQueryKeepsTypes,
     AskerReceivesKeepsTypes, GetResponsesKeepsTypes, ServicesKeepTypes, AnnounceKeepsTypes,
     SendOfAnswerKeepsTypes, ProviderReceivesKeepsTypes, GetQueriesKeepsTypes,
     SendResponseKeepsTypes, AskerLosesKeepsTypes, ProviderLosesKeepsTypes, ConnectKeepsTypes

LEMMA AlwaysTyped == Spec => []Typed
<1>1. Typed /\ [Next]_vars => Typed'
  BY StepsKeepTypes
<1>2. QED
  BY InitTyped, <1>1, PTL DEF Spec

-----------------------------------------------------------------------------
(* Whatever there is to tell, a callback is about to tell it *)

AskersNews == told_now # {} \/ failed # {} => asker_callback

HasNews(r) == r.was_cancelled \/ is_for_user(r)

ProvidersNews ==
  \A q \in DOMAIN responses : HasNews(responses[q]) => provider_callback[ProviderOf[responses[q].connection]]

LEMMA NewsOfBoth == NewsAreTold <=> AskersNews /\ ProvidersNews
  BY DEF NewsAreTold, AskersNews, ProvidersNews, HasNews

LEMMA NewsOfBothNext == NewsAreTold' <=> AskersNews' /\ ProvidersNews'
  BY DEF NewsAreTold, AskersNews, ProvidersNews, HasNews

\* A step that leaves a side alone leaves it nothing new to tell.
LEMMA NoNewsForAsker ==
  ASSUME AskersNews, UNCHANGED <<queries, failed, asker_callback>>
  PROVE  AskersNews'
  BY DEF AskersNews, told_now, news

LEMMA NoNewsForProvider ==
  ASSUME ProvidersNews, UNCHANGED <<responses, provider_callback>>
  PROVE  ProvidersNews'
  BY DEF ProvidersNews

LEMMA AskerIsTold ==
  ASSUME asker_callback' = TRUE
  PROVE  AskersNews'
  BY DEF AskersNews

\* A query that has sent something is no news.
LEMMA SendingIsNoNews ==
  ASSUME Typed, AskersNews, NEW c \in Connections, SendOfQuery(c)
  PROVE  AskersNews'
<1> DEFINE q == Sender(c)
           unsent(n) == [queries EXCEPT ![q].unsent = @ - n]
<1> HIDE DEF q
<1>1. /\ q \in DOMAIN queries
      /\ \/ queries' = [queries EXCEPT ![q].query = "CancelWasSent"]
         \/ \E n \in 1 .. queries[q].unsent : queries' = unsent(n)
      /\ UNCHANGED <<failed, asker_callback>>
  <2>1. q = Sender(c)
    BY DEF q
  <2> HIDE DEF q
  <2>2. /\ q \in DOMAIN queries
        /\ \/ queries' = [queries EXCEPT ![q].query = "CancelWasSent"]
           \/ \E n \in 1 .. queries[q].unsent :
                /\ queries' = unsent(n)
                /\ Sent(c, to_provider, provider_up,
                        [kind |-> IF n = queries[q].unsent THEN "Q" ELSE "q",
                         id |-> queries[q].service_id, query |-> q, parts |-> n])
        /\ UNCHANGED <<links, known, text, failed, asker_callback, asked, heard, ended, providing, to_asker>>
    BY <2>1, SendOfQuerySteps
  <2> HIDE DEF unsent
  <2>3. QED
    BY <2>2
<1>2. queries[q] \in Query /\ queries = [x \in DOMAIN queries |-> queries[x]]
  BY <1>1 DEF Typed, QueriesTyped
<1>3. /\ DOMAIN queries' = DOMAIN queries
      /\ queries'[q].answers = queries[q].answers /\ queries'[q].response = queries[q].response
      /\ \A x \in DOMAIN queries : x # q => queries'[x] = queries[x]
  BY <1>1, <1>2 DEF Query
<1>4. \A x \in DOMAIN queries :
        queries'[x].answers = queries[x].answers /\ queries'[x].response = queries[x].response
  BY <1>3
<1>5. told_now' = told_now
  BY <1>3, <1>4 DEF told_now, news
<1>6. QED
  BY <1>1, <1>5 DEF AskersNews

\* Once the user was told there is nothing more to tell.
LEMMA TellingTellsAll ==
  ASSUME Typed, GetReceivedResponses
  PROVE  AskersNews'
<1> DEFINE after == [q \in DOMAIN queries |-> read_of(q)]
<1>1. failed' = {} /\ queries' = remaining(after, Connections)
  BY DEF GetReceivedResponses
<1>2. /\ DOMAIN queries' \subseteq DOMAIN queries
      /\ \A q \in DOMAIN queries' : queries'[q] = read_of(q)
  BY <1>1 DEF remaining, without
<1>3. ASSUME NEW q \in DOMAIN queries'
      PROVE  \/ queries'[q].response = "Cancelled"
             \/ \A i \in DOMAIN queries'[q].answers : ~has_news(queries'[q].answers[i])
  <2>1. q \in DOMAIN queries /\ queries'[q] = read_of(q)
    BY <1>2
  <2>2. CASE queries[q].response = "Cancelled"
    BY <2>1, <2>2 DEF read_of
  <2>3. CASE queries[q].response # "Cancelled"
    <3> DEFINE p == queries[q]
               a == p.answers
    <3>1. p \in Query
      BY <2>1 DEF Typed, QueriesTyped
    <3>2. queries'[q] = query_read(p)
      BY <2>1, <2>3 DEF read_of
    <3> HIDE DEF p
    <3>3. query_read(p).answers = read_all(a)
      BY <3>1, QueryRead
    <3>4. a \in Seq(Answer)
      BY <3>1 DEF Query
    <3> HIDE DEF a
    <3>5. \A i \in DOMAIN read_all(a) : ~has_news(read_all(a)[i])
      BY <3>4, AnswersRead
    <3>6. QED
      BY <3>2, <3>3, <3>5
  <2>4. QED
    BY <2>2, <2>3
<1>4. told_now' = {}
  BY <1>3 DEF told_now, news
<1>5. QED
  BY <1>1, <1>4 DEF AskersNews

\* The callback of a provider comes with the news: what another response was
\* it is, or its connection's provider is told.
LEMMA ProviderIsTold ==
  ASSUME Typed, ProvidersNews,
         \A p \in Providers : provider_callback[p] => provider_callback'[p],
         \A q \in DOMAIN responses' :
           \/ q \in DOMAIN responses /\ responses'[q] = responses[q]
           \/ provider_callback'[ProviderOf[responses'[q].connection]]
  PROVE  ProvidersNews'
<1>1. ASSUME NEW q \in DOMAIN responses', HasNews(responses'[q])
      PROVE  provider_callback'[ProviderOf[responses'[q].connection]]
  <2>1. CASE q \in DOMAIN responses /\ responses'[q] = responses[q]
    <3>1. provider_callback[ProviderOf[responses[q].connection]]
      BY <1>1, <2>1 DEF ProvidersNews
    <3>2. responses[q].connection \in Connections
      BY <2>1 DEF Typed, ResponsesTyped, ResponseOK, Response
    <3>3. ProviderOf[responses[q].connection] \in Providers
      BY <3>2, DbAssumption
    <3>4. QED
      BY <2>1, <3>1, <3>3
  <2>2. CASE provider_callback'[ProviderOf[responses'[q].connection]]
    BY <2>2
  <2>3. QED
    BY <2>1, <2>2
<1>2. QED
  BY <1>1 DEF ProvidersNews

LEMMA CallbackStays ==
  ASSUME Typed, NEW p \in Providers, NEW b \in BOOLEAN, b = TRUE \/ b = provider_callback[p],
         provider_callback' = [provider_callback EXCEPT ![p] = b]
  PROVE  \A x \in Providers : provider_callback[x] => provider_callback'[x]
  BY DEF Typed, RestTyped

LEMMA ReceivingIsTold ==
  ASSUME Typed, ProvidersNews, NEW c \in Connections, ProviderReceives(c)
  PROVE  ProvidersNews'
<1> DEFINE m == Head(to_provider[c])
           p == ProviderOf[c]
           q == m.query
<1> HIDE DEF m
<1>1. /\ m \in ProviderMessages(DOMAIN asked)
      /\ \/ responses' = responses
         \/ /\ m.id \in ids(told[c]) /\ m.kind \in {"q", "Q"}
            /\ \E of_string \in BOOLEAN :
                 responses' = set(responses, q, receive_query(Response0(c, m), m, of_string))
         \/ /\ q \in DOMAIN responses /\ responses[q].connection = c
            /\ responses' = [responses EXCEPT ![q] = receive_cancel(responses[q], m)]
      /\ provider_callback' = [provider_callback EXCEPT ![p] = @ \/ wakes_user(responses, responses')]
  BY ProviderReceivesSteps DEF m
<1>2. p \in Providers /\ provider_callback \in [Providers -> BOOLEAN]
  BY DbAssumption DEF Typed, RestTyped
<1>3. CASE responses' = responses
  <2>1. \A x \in Providers : provider_callback[x] => provider_callback'[x]
    BY <1>1, <1>2
  <2>2. QED
    BY <1>3, <2>1, ProviderIsTold
<1>4. CASE responses' # responses
  <2>1. provider_callback' = [provider_callback EXCEPT ![p] = TRUE]
    BY <1>1, <1>2, <1>4 DEF wakes_user
  <2>2. (\A x \in Providers : provider_callback[x] => provider_callback'[x]) /\ provider_callback'[p]
    BY <1>2, <2>1
  <2>3. ASSUME NEW x \in DOMAIN responses'
        PROVE  \/ x \in DOMAIN responses /\ responses'[x] = responses[x]
               \/ responses'[x].connection = c
    <3>1. ASSUME m.id \in ids(told[c]), m.kind \in {"q", "Q"}, NEW of_string \in BOOLEAN,
                 responses' = set(responses, q, receive_query(Response0(c, m), m, of_string))
          PROVE  \/ x \in DOMAIN responses /\ responses'[x] = responses[x]
                 \/ responses'[x].connection = c
      <4> DEFINE r0 == Response0(c, m)
                 r == receive_query(r0, m, of_string)
                 n == asked[q].commands
                 service == named(told[c], m.id)
      <4>1. q \in DOMAIN asked /\ m.id \in ServiceIds /\ m.parts \in Nat
        BY <1>1, <3>1 DEF ProviderMessages
      <4>2. n \in Nat
        BY <4>1 DEF Typed, AskedTyped
      <4>3. service \in Services
        <5>1. told[c] \in Tables
          BY DEF Typed, ServicesTyped
        <5>2. QED
          BY <3>1, <5>1, IdsOfTable
      <4>4. ResponseOK(r0, n) /\ r0.connection = c
        <5>1. CASE q \in DOMAIN responses /\ responses[q].connection = c
          BY <5>1 DEF Response0, Typed, ResponsesTyped
        <5>2. CASE ~(q \in DOMAIN responses /\ responses[q].connection = c)
          <6>1. r0 = NewResponse(c, m, service)
            BY <5>2 DEF Response0
          <6> HIDE DEF r0, n, service
          <6>2. QED
            BY <4>1, <4>3, <6>1, NewResponseIsTyped
        <5>3. QED
          BY <5>1, <5>2
      <4> HIDE DEF r0
      <4>5. r.connection = r0.connection
        BY <3>1, <4>1, <4>2, <4>4, ResponseReceived
      <4> HIDE DEF r
      <4>6. responses' = set(responses, q, r)
        BY <3>1 DEF r, r0
      <4>7. x = q \/ (x \in DOMAIN responses /\ responses'[x] = responses[x])
        BY <4>6 DEF set
      <4>8. responses'[q] = r
        BY <4>6 DEF set
      <4>9. QED
        BY <4>4, <4>5, <4>7, <4>8
    <3>2. CASE /\ q \in DOMAIN responses /\ responses[q].connection = c
               /\ responses' = [responses EXCEPT ![q] = receive_cancel(responses[q], m)]
      <4> DEFINE r0 == responses[q]
                 r == receive_cancel(r0, m)
                 n == asked[q].commands
      <4>1. ResponseOK(r0, n) /\ r0.connection = c
        BY <3>2 DEF Typed, ResponsesTyped
      <4> HIDE DEF r0, n
      <4>2. r.connection = r0.connection
        BY <4>1, ResponseCancelled
      <4> HIDE DEF r
      <4>3. responses' = [y \in DOMAIN responses |-> IF y = q THEN r ELSE responses[y]]
        BY <3>2 DEF Typed, ResponsesTyped, r, r0
      <4>4. QED
        BY <4>1, <4>2, <4>3
    <3>3. QED
      BY <1>1, <1>4, <3>1, <3>2
  <2>4. QED
    BY <2>2, <2>3, ProviderIsTold
<1>5. QED
  BY <1>3, <1>4

\* What the provider's user was given and what he has forgotten is no news.
LEMMA GettingTellsAll ==
  ASSUME Typed, ProvidersNews, NEW p \in Providers, GetReceivedQueries(p)
  PROVE  ProvidersNews'
<1> DEFINE own == {q \in DOMAIN responses : ProviderOf[responses[q].connection] = p}
           gone == {q \in own : responses[q].was_cancelled}
           read(q) == IF q \in own /\ is_for_user(responses[q])
                      THEN [responses[q] EXCEPT !.was_read = TRUE] ELSE responses[q]
           after == [q \in DOMAIN responses |-> read(q)]
<1>1. /\ provider_callback' = [provider_callback EXCEPT ![p] = FALSE]
      /\ responses' = without(after, gone)
  BY DEF GetReceivedQueries
<1>2. \A q \in DOMAIN responses' : q \in DOMAIN responses /\ q \notin gone /\ responses'[q] = read(q)
  BY <1>1 DEF without
<1>3. ASSUME NEW q \in DOMAIN responses', HasNews(responses'[q])
      PROVE  provider_callback'[ProviderOf[responses'[q].connection]]
  <2> DEFINE r == responses[q]
             n == asked[q].commands
  <2>1. /\ q \in DOMAIN responses /\ q \notin gone
        /\ responses'[q] = IF q \in own /\ is_for_user(r) THEN [r EXCEPT !.was_read = TRUE] ELSE r
    BY <1>2
  <2>2. ResponseOK(r, n)
    BY <2>1 DEF Typed, ResponsesTyped
  <2>3. r.was_cancelled => q \notin own
    BY <2>1
  <2>4. q \notin own
    <3>1. ASSUME q \in own PROVE FALSE
      <4>1. ~r.was_cancelled
        BY <2>3, <3>1
      <4> HIDE DEF r, n, own
      <4>2. CASE is_for_user(r)
        <5>1. responses'[q] = [r EXCEPT !.was_read = TRUE]
          BY <2>1, <3>1, <4>2
        <5>2. ~HasNews([r EXCEPT !.was_read = TRUE])
          BY <2>2, <4>1 DEF HasNews, is_for_user, ResponseOK, Response
        <5>3. QED
          BY <1>3, <5>1, <5>2
      <4>3. CASE ~is_for_user(r)
        BY <1>3, <2>1, <4>1, <4>3 DEF HasNews
      <4>4. QED
        BY <4>2, <4>3
    <3>2. QED
      BY <3>1
  <2>5. responses'[q] = r /\ ProviderOf[r.connection] # p
    BY <2>1, <2>4
  <2>6. provider_callback[ProviderOf[r.connection]]
    BY <1>3, <2>1, <2>5 DEF ProvidersNews
  <2>7. r.connection \in Connections
    BY <2>2 DEF ResponseOK, Response
  <2>8. QED
    BY <1>1, <2>5, <2>6, <2>7, DbAssumption DEF Typed, RestTyped
<1>4. QED
  BY <1>3 DEF ProvidersNews

\* The provider's user may send what the callback has to tell,
LEMMA AnsweringIsTold ==
  ASSUME Typed, ProvidersNews, NEW q, NEW i, NEW status, NEW n, SendResponse(q, i, status, n)
  PROVE  ProvidersNews'
<1> DEFINE r == responses[q]
           p == ProviderOf[r.connection]
           rows == [j \in 1 .. n |-> given[q][i].rows + j]
<1>1. /\ q \in DOMAIN responses
      /\ \/ responses' = responses
         \/ responses' = [responses EXCEPT ![q].answers[i] = add_to_query_state(@, status, rows)]
      /\ provider_callback' = [provider_callback EXCEPT ![p] = TRUE]
  BY DEF SendResponse
<1> HIDE DEF rows
<1>2. r \in Response /\ p \in Providers /\ provider_callback \in [Providers -> BOOLEAN]
  <2>1. r \in Response
    BY <1>1 DEF Typed, ResponsesTyped, ResponseOK
  <2>2. QED
    BY <2>1, DbAssumption DEF Typed, RestTyped, Response
<1>3. (\A x \in Providers : provider_callback[x] => provider_callback'[x]) /\ provider_callback'[p]
  BY <1>1, <1>2
<1>4. ASSUME NEW x \in DOMAIN responses'
      PROVE  \/ x \in DOMAIN responses /\ responses'[x] = responses[x]
             \/ responses'[x].connection = r.connection
  <2>1. CASE responses' = responses
    BY <2>1
  <2>2. CASE responses' = [responses EXCEPT ![q].answers[i] = add_to_query_state(@, status, rows)]
    <3>1. responses = [y \in DOMAIN responses |-> responses[y]]
      BY DEF Typed, ResponsesTyped
    <3>2. QED
      BY <1>1, <1>2, <2>2, <3>1 DEF Response
  <2>3. QED
    BY <1>1, <2>1, <2>2
<1>5. QED
  BY <1>3, <1>4, ProviderIsTold

\* and what is sent of it is no news.
LEMMA SendingAnswersIsNoNews ==
  ASSUME Typed, ProvidersNews, NEW c \in Connections, SendOfAnswer(c)
  PROVE  ProvidersNews'
<1> DEFINE q == Replier(c)
           s == responses[q]
           r == fill_response_buffer(s)
           left(n, begins) == [responses EXCEPT ![q] = rest_of(r, n, begins)]
<1>1. /\ q \in DOMAIN responses
      /\ \/ responses' = without(responses, {q})
         \/ \E n \in 0 .. Len(r.buffer), begins \in BOOLEAN : responses' = left(n, begins)
      /\ provider_callback' = provider_callback
  <2>1. /\ c \in provider_up /\ q \in DOMAIN responses /\ responses[q].connection = c
        /\ has_answer_to_send(responses[q])
        /\ \/ /\ r.failed
              /\ responses' = without(responses, {q})
              /\ Sent(c, to_asker, asker_up, [kind |-> "E", id |-> r.service_id, query |-> q])
           \/ \E n \in 0 .. Len(r.buffer), kind \in {"r", "R"}, begins \in BOOLEAN :
                /\ r.buffer # <<>>
                /\ \/ responses' = without(responses, {q})
                   \/ responses' = left(n, begins)
                /\ Sent(c, to_asker, asker_up, part_of(r, q, kind, n))
        /\ UNCHANGED <<links, asking, my_services, unheard, told, provider_callback, given, changes,
                       to_provider>>
    BY SendOfAnswerSteps
  <2> HIDE DEF q, r, left
  <2>2. QED
    BY <2>1
<1> HIDE DEF q
<1> DEFINE n0 == asked[q].commands
<1>2. ResponseOK(s, n0) /\ responses = [x \in DOMAIN responses |-> responses[x]]
  BY <1>1 DEF Typed, ResponsesTyped
<1>3. CASE responses' = without(responses, {q})
  BY <1>1, <1>3 DEF without, ProvidersNews
<1>4. ASSUME NEW n \in 0 .. Len(r.buffer), NEW begins \in BOOLEAN,
             responses' = [responses EXCEPT ![q] = rest_of(r, n, begins)]
      PROVE  ProvidersNews'
  <2> DEFINE b == SubSeq(r.buffer, n + 1, Len(r.buffer))
             r1 == [r EXCEPT !.buffer = b, !.begun = begins]
  <2>1. responses' = [x \in DOMAIN responses |-> IF x = q THEN r1 ELSE responses[x]]
    BY <1>2, <1>4 DEF rest_of
  <2>2. HasNews(r1) = HasNews(s) /\ r1.connection = s.connection
    <3> HIDE DEF b, s, n0
    <3>1. /\ ResponseOK(r, n0) /\ r.connection = s.connection
          /\ r.completed = s.completed /\ r.failed = s.failed /\ r.was_read = s.was_read
          /\ r.was_cancelled = s.was_cancelled
      BY <1>2, BufferFilled
    <3> HIDE DEF r
    <3>2. /\ r1.connection = r.connection /\ r1.completed = r.completed /\ r1.failed = r.failed
          /\ r1.was_read = r.was_read /\ r1.was_cancelled = r.was_cancelled
      BY <3>1 DEF ResponseOK, Response
    <3> HIDE DEF r1
    <3>3. QED
      BY <3>1, <3>2 DEF HasNews, is_for_user
  <2> HIDE DEF r1, r
  <2>3. ASSUME NEW x \in DOMAIN responses', HasNews(responses'[x])
        PROVE  provider_callback'[ProviderOf[responses'[x].connection]]
    <3>1. CASE x = q
      <4>1. HasNews(s) /\ responses'[x].connection = s.connection
        BY <1>1, <2>1, <2>2, <2>3, <3>1
      <4>2. QED
        BY <1>1, <4>1 DEF ProvidersNews
    <3>2. CASE x # q
      <4>1. x \in DOMAIN responses /\ responses'[x] = responses[x]
        BY <2>1, <3>2
      <4>2. QED
        BY <1>1, <2>3, <4>1 DEF ProvidersNews
    <3>3. QED
      BY <3>1, <3>2
  <2>4. QED
    BY <2>3 DEF ProvidersNews
<1>5. QED
  BY <1>1, <1>3, <1>4

LEMMA LosingIsTold ==
  ASSUME Typed, ProvidersNews, NEW c \in Connections, ProviderLoses(c)
  PROVE  ProvidersNews'
<1> DEFINE lost(q) == IF responses[q].connection = c
                      THEN [responses[q] EXCEPT !.was_cancelled = TRUE] ELSE responses[q]
           p == ProviderOf[c]
<1>1. /\ responses' = [q \in DOMAIN responses |-> lost(q)]
      /\ provider_callback' = [provider_callback EXCEPT ![p] = TRUE]
  BY DEF ProviderLoses
<1>2. p \in Providers /\ provider_callback \in [Providers -> BOOLEAN]
  BY DbAssumption DEF Typed, RestTyped
<1>3. (\A x \in Providers : provider_callback[x] => provider_callback'[x]) /\ provider_callback'[p]
  BY <1>1, <1>2
<1>4. ASSUME NEW x \in DOMAIN responses'
      PROVE  \/ x \in DOMAIN responses /\ responses'[x] = responses[x]
             \/ responses'[x].connection = c
  <2>1. x \in DOMAIN responses /\ responses'[x] = lost(x)
    BY <1>1
  <2>2. responses[x] \in Response
    BY <2>1 DEF Typed, ResponsesTyped, ResponseOK
  <2>3. QED
    BY <2>1, <2>2 DEF Response
<1>5. QED
  BY <1>3, <1>4, ProviderIsTold

LEMMA NewsStayTold ==
  ASSUME Typed, NewsAreTold, [Next]_vars
  PROVE  NewsAreTold'
<1>1. AskersNews /\ ProvidersNews
  BY NewsOfBoth
<1>2. ASSUME NEW service \in Services, NEW shape \in Shapes, SendQuery(service, shape)
      PROVE  AskersNews' /\ ProvidersNews'
  BY <1>1, <1>2, AskerIsTold, NoNewsForProvider DEF SendQuery
<1>3. ASSUME NEW q, NEW cb, CancelQuery(q, cb)
      PROVE  AskersNews' /\ ProvidersNews'
  BY <1>1, <1>3, AskerIsTold, NoNewsForProvider DEF CancelQuery, providing
<1>4. ASSUME NEW q, TimeOut(q)
      PROVE  AskersNews' /\ ProvidersNews'
  BY <1>1, <1>4, AskerIsTold, NoNewsForProvider DEF TimeOut, providing
<1>5. ASSUME NEW c \in Connections, SendOfQuery(c)
      PROVE  AskersNews' /\ ProvidersNews'
  <2>1. UNCHANGED <<responses, provider_callback>>
    BY <1>5 DEF SendOfQuery, providing
  <2>2. QED
    BY <1>1, <1>5, <2>1, SendingIsNoNews, NoNewsForProvider
<1>6. ASSUME NEW c \in Connections, AskerReceives(c)
      PROVE  AskersNews' /\ ProvidersNews'
  <2>1. asker_callback \in BOOLEAN
    BY DEF Typed, RestTyped
  <2>2. /\ UNCHANGED <<failed, responses, provider_callback>>
        /\ asker_callback' = TRUE \/ (queries' = queries /\ asker_callback' \in {TRUE, asker_callback})
    BY <1>6, <2>1, AskerReceivesSteps DEF providing
  <2>3. CASE queries' = queries /\ asker_callback' \in {TRUE, asker_callback}
    <3>1. told_now' = told_now
      BY <2>3 DEF told_now, news
    <3>2. QED
      BY <1>1, <2>1, <2>2, <2>3, <3>1, NoNewsForProvider DEF AskersNews
  <2>4. CASE asker_callback' = TRUE
    BY <1>1, <2>2, <2>4, NoNewsForProvider DEF AskersNews
  <2>5. QED
    BY <2>2, <2>3, <2>4
<1>7. ASSUME GetReceivedResponses
      PROVE  AskersNews' /\ ProvidersNews'
  BY <1>1, <1>7, TellingTellsAll, NoNewsForProvider DEF GetReceivedResponses, providing
<1>8. ASSUME NEW p \in Providers, NEW services, SetAcceptedServices(p, services)
      PROVE  AskersNews' /\ ProvidersNews'
  <2>1. /\ UNCHANGED <<queries, failed, asker_callback, responses>>
        /\ provider_callback' = [provider_callback EXCEPT ![p] = TRUE]
    BY <1>8 DEF SetAcceptedServices, asking
  <2>2. \A x \in Providers : provider_callback[x] => provider_callback'[x]
    BY <2>1 DEF Typed, RestTyped
  <2>3. QED
    BY <1>1, <2>1, <2>2, NoNewsForAsker, ProviderIsTold
<1>9. ASSUME NEW c \in Connections, Announce(c)
      PROVE  AskersNews' /\ ProvidersNews'
  BY <1>1, <1>9, NoNewsForAsker, NoNewsForProvider DEF Announce, asking
<1>10. ASSUME NEW c \in Connections, SendOfAnswer(c)
       PROVE  AskersNews' /\ ProvidersNews'
  <2>1. UNCHANGED <<queries, failed, asker_callback>>
    BY <1>10 DEF SendOfAnswer, asking
  <2>2. QED
    BY <1>1, <1>10, <2>1, NoNewsForAsker, SendingAnswersIsNoNews
<1>11. ASSUME NEW c \in Connections, ProviderReceives(c)
       PROVE  AskersNews' /\ ProvidersNews'
  <2>1. UNCHANGED <<queries, failed, asker_callback>>
    BY <1>11 DEF ProviderReceives, asking
  <2>2. QED
    BY <1>1, <1>11, <2>1, NoNewsForAsker, ReceivingIsTold
<1>12. ASSUME NEW p \in Providers, GetReceivedQueries(p)
       PROVE  AskersNews' /\ ProvidersNews'
  <2>1. UNCHANGED <<queries, failed, asker_callback>>
    BY <1>12 DEF GetReceivedQueries, asking
  <2>2. QED
    BY <1>1, <1>12, <2>1, NoNewsForAsker, GettingTellsAll
<1>13. ASSUME NEW q, NEW i, NEW status, NEW n, SendResponse(q, i, status, n)
       PROVE  AskersNews' /\ ProvidersNews'
  <2>1. UNCHANGED <<queries, failed, asker_callback>>
    BY <1>13 DEF SendResponse, asking
  <2>2. QED
    BY <1>1, <1>13, <2>1, NoNewsForAsker, AnsweringIsTold
<1>14. ASSUME NEW c \in Connections, AskerLoses(c)
       PROVE  AskersNews' /\ ProvidersNews'
  BY <1>1, <1>14, AskerIsTold, NoNewsForProvider DEF AskerLoses, providing
<1>15. ASSUME NEW c \in Connections, ProviderLoses(c)
       PROVE  AskersNews' /\ ProvidersNews'
  <2>1. UNCHANGED <<queries, failed, asker_callback>>
    BY <1>15 DEF ProviderLoses, asking
  <2>2. QED
    BY <1>1, <1>15, <2>1, NoNewsForAsker, LosingIsTold
<1>16. ASSUME NEW c \in Connections, Connect(c)
       PROVE  AskersNews' /\ ProvidersNews'
  BY <1>1, <1>16, NoNewsForAsker, NoNewsForProvider DEF Connect, asking, providing
<1>17. ASSUME UNCHANGED vars
       PROVE  AskersNews' /\ ProvidersNews'
  BY <1>1, <1>17, NoNewsForAsker, NoNewsForProvider DEF vars
<1>18. AskersNews' /\ ProvidersNews'
  BY <1>2, <1>3, <1>4, <1>5, <1>6, <1>7, <1>8, <1>9, <1>10, <1>11, <1>12, <1>13, <1>14, <1>15, <1>16,
     <1>17, StepsAre
<1>19. QED
  BY <1>18, NewsOfBothNext

\* Whatever there is to tell a user, a callback is about to tell it: no answer,
\* no end of a query, no query and no cancel waits for a callback that nothing
\* generates (CmCore's callbacks of CmDbState).
THEOREM NewsAreAlwaysTold == Spec => []NewsAreTold
<1>1. Init => NewsAreTold
  BY DEF Init, NewsAreTold, told_now, Empty
<1>2. Typed /\ NewsAreTold /\ [Next]_vars => NewsAreTold'
  BY NewsStayTold
<1>3. QED
  BY AlwaysTyped, <1>1, <1>2, PTL DEF Spec

-----------------------------------------------------------------------------
(* Both sides know the same services *)

\* What is known, k, becomes t through the messages s.
Becomes(k, s, t) ==
  \E v \in [0 .. Len(s) -> Tables] :
    /\ v[0] = k
    /\ \A n \in 1 .. Len(s) : v[n] = receive_service(v[n - 1], s[n])
    /\ v[Len(s)] = t

Injective(t) == \A x, y \in DOMAIN t : t[x] = t[y] => x = y

LEMMA NothingBecomesItself ==
  ASSUME NEW t \in Tables
  PROVE  Becomes(t, <<>>, t)
<1> DEFINE v == [n \in 0 .. 0 |-> t]
<1>1. v \in [0 .. 0 -> Tables] /\ v[0] = t
  OBVIOUS
<1> HIDE DEF v
<1>2. Len(<<>>) = 0 /\ \A n \in 1 .. 0 : FALSE
  OBVIOUS
<1>3. QED
  BY <1>1, <1>2 DEF Becomes

LEMMA BecomesMore ==
  ASSUME NEW k, NEW s \in Seq(AskerMessages), NEW t, NEW m \in AskerMessages, Becomes(k, s, t)
  PROVE  Becomes(k, Append(s, m), receive_service(t, m))
<1>1. PICK v \in [0 .. Len(s) -> Tables] :
        /\ v[0] = k
        /\ \A n \in 1 .. Len(s) : v[n] = receive_service(v[n - 1], s[n])
        /\ v[Len(s)] = t
  BY DEF Becomes
<1> DEFINE L == Len(s)
           t1 == receive_service(t, m)
           s1 == Append(s, m)
           w == [n \in 0 .. L + 1 |-> IF n = L + 1 THEN t1 ELSE v[n]]
<1>2. /\ L \in Nat /\ Len(s1) = L + 1 /\ s1[L + 1] = m
      /\ \A n \in 1 .. L : s1[n] = s[n]
  BY Appended
<1>3. t \in Tables /\ t1 \in Tables
  BY <1>1, <1>2, ReceivedService
<1> HIDE DEF t1, s1
<1>4. w \in [0 .. L + 1 -> Tables]
  <2>1. ASSUME NEW n \in 0 .. L + 1, n # L + 1 PROVE v[n] \in Tables
    <3>1. n \in 0 .. L
      BY <1>2, <2>1
    <3>2. QED
      BY <1>1, <3>1
  <2>2. QED
    BY <1>3, <2>1
<1>5. w[0] = k /\ w[L + 1] = t1
  <2>1. 0 \in 0 .. L + 1 /\ 0 # L + 1 /\ L + 1 \in 0 .. L + 1
    BY <1>2
  <2>2. QED
    BY <1>1, <2>1
<1>6. ASSUME NEW n \in 1 .. L + 1 PROVE w[n] = receive_service(w[n - 1], s1[n])
  <2>1. n \in 0 .. L + 1 /\ n - 1 \in 0 .. L + 1 /\ n - 1 # L + 1
    BY <1>2
  <2>2. w[n - 1] = v[n - 1]
    BY <2>1
  <2>3. CASE n = L + 1
    <3>1. n - 1 = L /\ w[n] = t1 /\ s1[n] = m
      BY <1>2, <1>5, <2>3
    <3>2. QED
      BY <1>1, <2>2, <3>1 DEF t1
  <2>4. CASE n # L + 1
    <3>1. n \in 1 .. L
      BY <1>2, <2>4
    <3>2. w[n] = v[n] /\ s1[n] = s[n]
      BY <1>2, <2>1, <2>4, <3>1
    <3>3. QED
      BY <1>1, <2>2, <3>1, <3>2
  <2>5. QED
    BY <2>3, <2>4
<1> HIDE DEF w, L
<1>7. \A n \in 1 .. Len(s1) : w[n] = receive_service(w[n - 1], s1[n])
  BY <1>2, <1>6
<1>8. w \in [0 .. Len(s1) -> Tables] /\ w[0] = k /\ w[Len(s1)] = t1
  BY <1>2, <1>4, <1>5
<1>9. Becomes(k, s1, t1)
  BY <1>7, <1>8 DEF Becomes
<1>10. QED
  BY <1>9 DEF s1, t1

LEMMA BecomesFromNext ==
  ASSUME NEW k, NEW s \in Seq(AskerMessages), NEW t, s # <<>>, Becomes(k, s, t)
  PROVE  Becomes(receive_service(k, Head(s)), Tail(s), t)
<1>1. PICK v \in [0 .. Len(s) -> Tables] :
        /\ v[0] = k
        /\ \A n \in 1 .. Len(s) : v[n] = receive_service(v[n - 1], s[n])
        /\ v[Len(s)] = t
  BY DEF Becomes
<1> DEFINE L == Len(s)
           s1 == Tail(s)
           w == [n \in 0 .. L - 1 |-> v[n + 1]]
<1>2. /\ L \in Nat \ {0} /\ Len(s1) = L - 1 /\ Head(s) = s[1]
      /\ \A n \in 1 .. L - 1 : s1[n] = s[n + 1]
  BY Taken
<1> HIDE DEF s1
<1>3. w \in [0 .. L - 1 -> Tables]
  <2>1. ASSUME NEW n \in 0 .. L - 1 PROVE v[n + 1] \in Tables
    <3>1. n + 1 \in 0 .. L
      BY <1>2
    <3>2. QED
      BY <1>1, <3>1
  <2>2. QED
    BY <2>1
<1>4. w[0] = receive_service(k, Head(s)) /\ w[L - 1] = t
  <2>1. 0 \in 0 .. L - 1 /\ L - 1 \in 0 .. L - 1 /\ 1 \in 1 .. L
    BY <1>2
  <2>2. w[0] = v[1] /\ v[1] = receive_service(v[0], s[1])
    <3>1. w[0] = v[0 + 1] /\ 0 + 1 = 1
      BY <2>1
    <3>2. v[1] = receive_service(v[1 - 1], s[1]) /\ 1 - 1 = 0
      BY <1>1, <2>1
    <3>3. QED
      BY <3>1, <3>2
  <2>3. w[L - 1] = v[L]
    <3>1. w[L - 1] = v[L - 1 + 1] /\ L - 1 + 1 = L
      BY <1>2, <2>1
    <3>2. QED
      BY <3>1
  <2>4. QED
    BY <1>1, <1>2, <2>2, <2>3
<1>5. ASSUME NEW n \in 1 .. L - 1 PROVE w[n] = receive_service(w[n - 1], s1[n])
  <2>1. n \in 0 .. L - 1 /\ n - 1 \in 0 .. L - 1 /\ n + 1 \in 1 .. L /\ n - 1 + 1 = n /\ n + 1 - 1 = n
    BY <1>2
  <2>2. w[n] = v[n + 1] /\ w[n - 1] = v[n - 1 + 1]
    BY <2>1
  <2>3. v[n + 1] = receive_service(v[n + 1 - 1], s[n + 1])
    BY <1>1, <2>1
  <2>4. s1[n] = s[n + 1]
    BY <1>2
  <2>5. QED
    BY <2>1, <2>2, <2>3, <2>4
<1> HIDE DEF w, L
<1>6. \A n \in 1 .. Len(s1) : w[n] = receive_service(w[n - 1], s1[n])
  BY <1>2, <1>5
<1>7. w \in [0 .. Len(s1) -> Tables] /\ w[0] = receive_service(k, Head(s)) /\ w[Len(s1)] = t
  BY <1>2, <1>3, <1>4
<1>8. Becomes(receive_service(k, Head(s)), s1, t)
  BY <1>6, <1>7 DEF Becomes
<1>9. QED
  BY <1>8 DEF s1

\* It is what the messages make of it in turn.
LEMMA BecomesWhatIsUnderstood ==
  ASSUME NEW k, NEW s \in Seq(AskerMessages), NEW t, Becomes(k, s, t)
  PROVE  (CHOOSE after : after = [n \in 0 .. Len(s) |->
            IF n = 0 THEN k ELSE receive_service(after[n - 1], s[n])])[Len(s)] = t
<1>1. PICK g \in [0 .. Len(s) -> Tables] :
        /\ g[0] = k
        /\ \A n \in 1 .. Len(s) : g[n] = receive_service(g[n - 1], s[n])
        /\ g[Len(s)] = t
  BY DEF Becomes
<1> DEFINE L == Len(s)
           F == CHOOSE after : after = [n \in 0 .. L |->
                  IF n = 0 THEN k ELSE receive_service(after[n - 1], s[n])]
<1>2. L \in Nat
  OBVIOUS
<1>3. g = [n \in 0 .. L |-> IF n = 0 THEN k ELSE receive_service(g[n - 1], s[n])]
  <2>1. ASSUME NEW n \in 0 .. L PROVE g[n] = IF n = 0 THEN k ELSE receive_service(g[n - 1], s[n])
    <3>1. n = 0 \/ n \in 1 .. L
      BY <1>2
    <3>2. CASE n = 0
      BY <1>1, <3>2
    <3>3. CASE n \in 1 .. L
      <4>1. n # 0
        BY <3>3
      <4>2. QED
        BY <1>1, <3>3, <4>1
    <3>4. QED
      BY <3>1, <3>2, <3>3
  <2>2. g = [n \in 0 .. L |-> g[n]]
    BY <1>1
  <2>3. QED
    BY <2>1, <2>2
<1>4. F = [n \in 0 .. L |-> IF n = 0 THEN k ELSE receive_service(F[n - 1], s[n])]
  BY <1>3
<1> HIDE DEF L, F
<1>5. F[0] = g[0]
  BY <1>1, <1>2, <1>4
<1>6. ASSUME NEW n \in 1 .. L, F[n - 1] = g[n - 1] PROVE F[n] = g[n]
  <2>1. n \in 0 .. L /\ n # 0
    BY <1>2
  <2>2. F[n] = receive_service(F[n - 1], s[n])
    BY <1>4, <2>1
  <2>3. g[n] = receive_service(g[n - 1], s[n])
    BY <1>3, <2>1
  <2>4. QED
    BY <1>6, <2>2, <2>3
<1>7. \A n \in 1 .. L : F[n - 1] = g[n - 1] => F[n] = g[n]
  BY <1>6
<1>8. \A n \in 0 .. L : F[n] = g[n]
  <2>1. SameSteps(L, F, g)
    BY <1>5, <1>7 DEF SameSteps
  <2>2. QED
    BY <1>2, <2>1, StepsAgree
<1>9. L \in 0 .. L
  BY <1>2
<1>10. QED
  BY <1>1, <1>8, <1>9 DEF L, F

\* No id names two services, what is known becomes what was told, and before a
\* connection nobody was told anything.
ConnectionAgrees(c) ==
  /\ Injective(told[c])
  /\ c \in asker_up /\ c \in provider_up => Becomes(known[c], to_asker[c], told[c])
  /\ c \notin met => /\ told[c] = Empty /\ known[c] = Empty
                     /\ to_asker[c] = <<>>

Agreed == \A c \in Connections : ConnectionAgrees(c)

LEMMA AgreedIsServicesAgree ==
  ASSUME Typed, Agreed
  PROVE  ServicesAgree
<1> SUFFICES ASSUME NEW c \in asker_up \cap provider_up
             PROVE  (CHOOSE after : after = [n \in 0 .. Len(to_asker[c]) |->
                       IF n = 0 THEN known[c] ELSE receive_service(after[n - 1], to_asker[c][n])])
                      [Len(to_asker[c])] = told[c]
  BY DEF ServicesAgree
<1> DEFINE k == known[c]
           s == to_asker[c]
           t == told[c]
           f == CHOOSE after : after = [n \in 0 .. Len(s) |->
                  IF n = 0 THEN k ELSE receive_service(after[n - 1], s[n])]
<1>1. c \in Connections
  BY DEF Typed, LinksTyped
<1>2. s \in Seq(AskerMessages) /\ Becomes(k, s, t)
  BY <1>1 DEF Typed, ChannelsTyped, Agreed, ConnectionAgrees
<1>3. f[Len(s)] = t
  <2> HIDE DEF k, s, t
  <2>1. QED
    BY <1>2, BecomesWhatIsUnderstood
<1>4. QED
  BY <1>3

LEMMA InitAgreed == Init => Agreed
<1> SUFFICES ASSUME Init, NEW c \in Connections PROVE ConnectionAgrees(c)
  BY DEF Agreed
<1>1. told[c] = Empty /\ known[c] = Empty /\ to_asker[c] = <<>>
  BY DEF Init
<1>2. Empty \in Tables /\ Injective(Empty)
  <2>1. Typed
    BY InitTyped
  <2>2. told[c] \in Tables
    BY <2>1 DEF Typed, ServicesTyped
  <2>3. DOMAIN Empty = {}
    BY DEF Empty
  <2>4. QED
    BY <1>1, <2>2, <2>3 DEF Injective
<1> HIDE DEF Empty
<1>3. Becomes(known[c], to_asker[c], told[c])
  BY <1>1, <1>2, NothingBecomesItself
<1>4. QED
  BY <1>1, <1>2, <1>3 DEF ConnectionAgrees

\* A connection that nothing happened to, or that was lost.
LEMMA ConnectionUntouched ==
  ASSUME NEW c, ConnectionAgrees(c),
         told'[c] = told[c], known'[c] = known[c],
         to_asker'[c] = to_asker[c] \/ (to_asker'[c] = <<>> /\ c \notin asker_up'),
         c \in asker_up' => c \in asker_up, c \in provider_up' => c \in provider_up,
         c \in met => c \in met'
  PROVE  ConnectionAgrees(c)'
<1>1. Injective(told'[c])
  BY DEF ConnectionAgrees
<1>2. ASSUME c \in asker_up', c \in provider_up'
      PROVE  Becomes(known'[c], to_asker'[c], told'[c])
  BY <1>2 DEF ConnectionAgrees
<1>3. ASSUME c \notin met'
      PROVE  told'[c] = Empty /\ known'[c] = Empty /\ to_asker'[c] = <<>>
  BY <1>3 DEF ConnectionAgrees
<1>4. QED
  BY <1>1, <1>2, <1>3 DEF ConnectionAgrees, Injective, Becomes

\* A service is announced by an id that names no other.
LEMMA AnnouncedAgrees ==
  ASSUME NEW t \in Tables, Injective(t), NEW s \in Services \ DOMAIN t, NEW id \in ServiceIds \ ids(t),
         NEW m, m = [kind |-> "a", service |-> s, id |-> id]
  PROVE  /\ receive_service(t, m) = set(t, s, id)
         /\ Injective(set(t, s, id))
<1>1. receive_service(t, m) = set(t, s, id)
  BY DEF receive_service
<1>2. /\ DOMAIN set(t, s, id) = DOMAIN t \cup {s}
      /\ set(t, s, id)[s] = id
      /\ \A x \in DOMAIN t : x # s => set(t, s, id)[x] = t[x]
  BY SetTable
<1>3. \A x \in DOMAIN t : t[x] # id
  BY IdsOfTable
<1>4. QED
  BY <1>1, <1>2, <1>3 DEF Injective

LEMMA WithdrawnAgrees ==
  ASSUME NEW t \in Tables, Injective(t), NEW s \in DOMAIN t,
         NEW m, m = [kind |-> "A", id |-> t[s]]
  PROVE  /\ receive_service(t, m) = without(t, {s})
         /\ Injective(without(t, {s}))
<1>1. t[s] \in ids(t) /\ named(t, t[s]) \in DOMAIN t /\ t[named(t, t[s])] = t[s]
  BY IdsOfTable
<1>2. named(t, t[s]) = s
  BY <1>1 DEF Injective
<1>3. receive_service(t, m) = without(t, {s})
  BY <1>1, <1>2 DEF receive_service
<1>4. /\ DOMAIN without(t, {s}) = DOMAIN t \ {s}
      /\ \A x \in DOMAIN t \ {s} : without(t, {s})[x] = t[x]
  BY WithoutTable
<1>5. QED
  BY <1>3, <1>4 DEF Injective

\* What is sent on a connection that is up at both ends keeps it in agreement.
LEMMA SentAgrees ==
  ASSUME Typed, Agreed, NEW c \in provider_up, NEW m \in AskerMessages,
         Sent(c, to_asker, asker_up, m), UNCHANGED <<known, asker_up, provider_up, met>>,
         NEW t, t = receive_service(told[c], m), Injective(t), told' = [told EXCEPT ![c] = t]
  PROVE  Agreed'
<1>1. c \in Connections /\ c \in met
  BY DEF Typed, LinksTyped
<1>2. to_asker' = IF c \in asker_up THEN [to_asker EXCEPT ![c] = Append(@, m)] ELSE to_asker
  BY DEF Sent
<1>3. /\ told \in [Connections -> Tables]
      /\ to_asker \in [Connections -> Seq(AskerMessages)]
  BY DEF Typed, ServicesTyped, ChannelsTyped
<1>4. ASSUME NEW d \in Connections PROVE ConnectionAgrees(d)'
  <2>1. ConnectionAgrees(d)
    BY DEF Agreed
  <2>2. CASE d # c
    <3>1. told'[d] = told[d] /\ to_asker'[d] = to_asker[d]
      BY <1>2, <1>3, <2>2
    <3>2. QED
      BY <2>1, <3>1, ConnectionUntouched
  <2>3. CASE d = c
    <3>1. told'[c] = t
      BY <1>1, <1>3
    <3>2. ASSUME c \in asker_up
          PROVE  Becomes(known[c], to_asker'[c], t)
      <4> DEFINE k == known[c]
                 s == to_asker[c]
                 t0 == told[c]
      <4>1. s \in Seq(AskerMessages) /\ Becomes(k, s, t0)
        BY <1>1, <1>3, <2>1, <2>3, <3>2 DEF ConnectionAgrees
      <4>2. to_asker'[c] = Append(s, m)
        BY <1>1, <1>2, <1>3, <3>2
      <4>3. t = receive_service(t0, m)
        OBVIOUS
      <4> HIDE DEF k, s, t0
      <4>4. Becomes(k, Append(s, m), receive_service(t0, m))
        BY <4>1, BecomesMore
      <4>5. QED
        BY <4>2, <4>3, <4>4 DEF k
    <3>3. c \in asker_up' => Becomes(known'[c], to_asker'[c], told'[c])
      BY <3>1, <3>2
    <3>4. Injective(told'[c])
      BY <3>1
    <3>5. QED
      BY <1>1, <2>3, <3>3, <3>4 DEF ConnectionAgrees, Injective, Becomes
  <2>4. QED
    BY <2>2, <2>3
<1>5. QED
  BY <1>4 DEF Agreed

LEMMA AnnounceAgrees ==
  ASSUME Typed, Agreed, NEW c \in Connections, Announce(c)
  PROVE  Agreed'
<1> DEFINE t == told[c]
<1>1. t \in Tables /\ Injective(t) /\ c \in provider_up
  BY DEF Typed, ServicesTyped, Agreed, ConnectionAgrees, Announce
<1>2. UNCHANGED <<known, asker_up, provider_up, met>>
  BY DEF Announce, asking, links
<1>3. CASE \E s \in unannounced(c), id \in ServiceIds \ ids(t) :
             /\ told' = [told EXCEPT ![c] = set(@, s, id)]
             /\ Sent(c, to_asker, asker_up, [kind |-> "a", service |-> s, id |-> id])
  <2>1. PICK s \in unannounced(c), id \in ServiceIds \ ids(t) :
             /\ told' = [told EXCEPT ![c] = set(@, s, id)]
             /\ Sent(c, to_asker, asker_up, [kind |-> "a", service |-> s, id |-> id])
    BY <1>3
  <2>2. s \in Services \ DOMAIN t
    BY DbAssumption DEF unannounced, Typed, ServicesTyped
  <2> DEFINE m == [kind |-> "a", service |-> s, id |-> id]
             t1 == set(t, s, id)
  <2>3. m \in AskerMessages
    BY <2>2 DEF AskerMessages
  <2>4. told' = [told EXCEPT ![c] = t1] /\ Sent(c, to_asker, asker_up, m)
    BY <2>1
  <2>5. t1 = receive_service(t, m) /\ Injective(t1)
    <3>1. m = [kind |-> "a", service |-> s, id |-> id]
      OBVIOUS
    <3> HIDE DEF m, t
    <3>2. QED
      BY <1>1, <2>2, <3>1, AnnouncedAgrees
  <2> HIDE DEF m, t1
  <2>6. QED
    BY <1>1, <1>2, <2>3, <2>4, <2>5, SentAgrees
<1>4. CASE \E s \in withdrawn(c) :
             /\ told' = [told EXCEPT ![c] = without(@, {s})]
             /\ Sent(c, to_asker, asker_up, [kind |-> "A", id |-> t[s]])
  <2>1. PICK s \in withdrawn(c) :
             /\ told' = [told EXCEPT ![c] = without(@, {s})]
             /\ Sent(c, to_asker, asker_up, [kind |-> "A", id |-> t[s]])
    BY <1>4
  <2>2. s \in DOMAIN t
    BY DEF withdrawn
  <2> DEFINE m == [kind |-> "A", id |-> t[s]]
             t1 == without(t, {s})
  <2>3. m \in AskerMessages
    <3>1. t[s] \in ServiceIds
      BY <1>1, <2>2, IdsOfTable
    <3>2. QED
      BY <3>1 DEF AskerMessages
  <2>4. told' = [told EXCEPT ![c] = t1] /\ Sent(c, to_asker, asker_up, m)
    BY <2>1
  <2>5. t1 = receive_service(t, m) /\ Injective(t1)
    <3>1. m = [kind |-> "A", id |-> t[s]]
      OBVIOUS
    <3> HIDE DEF m, t
    <3>2. QED
      BY <1>1, <2>2, <3>1, WithdrawnAgrees
  <2> HIDE DEF m, t1
  <2>6. QED
    BY <1>1, <1>2, <2>3, <2>4, <2>5, SentAgrees
<1>5. QED
  BY <1>3, <1>4 DEF Announce

\* An answer says nothing of services.
LEMMA SendOfAnswerAgrees ==
  ASSUME Typed, Agreed, NEW c \in Connections, SendOfAnswer(c)
  PROVE  Agreed'
<1> DEFINE q == Replier(c)
           r == fill_response_buffer(responses[q])
<1>1. /\ c \in provider_up /\ q \in DOMAIN responses /\ responses[q].connection = c
      /\ has_answer_to_send(responses[q])
      /\ \/ /\ r.failed
            /\ responses' = without(responses, {q})
            /\ Sent(c, to_asker, asker_up, [kind |-> "E", id |-> r.service_id, query |-> q])
         \/ \E n \in 0 .. Len(r.buffer), kind \in {"r", "R"}, begins \in BOOLEAN :
              /\ r.buffer # <<>>
              /\ \/ responses' = without(responses, {q})
                 \/ responses' = [responses EXCEPT ![q] = rest_of(r, n, begins)]
              /\ Sent(c, to_asker, asker_up, part_of(r, q, kind, n))
      /\ UNCHANGED <<links, asking, my_services, unheard, told, provider_callback, given, changes,
                     to_provider>>
  BY SendOfAnswerSteps
<1> HIDE DEF q
<1> DEFINE n0 == asked[q].commands
<1>2. ResponseOK(responses[q], n0) /\ q \in QueryIds
  BY <1>1 DEF Typed, ResponsesTyped, AskedTyped
<1>3. ResponseOK(r, n0)
  <2> DEFINE s == responses[q]
  <2>1. ResponseOK(s, n0)
    BY <1>2
  <2> HIDE DEF s, n0
  <2>2. ResponseOK(fill_response_buffer(s), n0)
    BY <2>1, BufferFilled
  <2>3. QED
    BY <2>2 DEF s
<1> HIDE DEF r
<1>4. r.service_id \in ServiceIds /\ r.buffer \in Seq(Entry) /\ r.begun \in BOOLEAN
  BY <1>3 DEF ResponseOK, Response
<1>5. ASSUME NEW m \in AskerMessages, m.kind \in {"E", "r", "R"}, Sent(c, to_asker, asker_up, m)
      PROVE  Agreed'
  <2> DEFINE t == told[c]
  <2>1. receive_service(t, m) = t
    BY <1>5 DEF receive_service
  <2>2. told \in [Connections -> Tables]
    BY DEF Typed, ServicesTyped
  <2>3. told' = [told EXCEPT ![c] = t]
    BY <1>1, <2>2
  <2>4. Injective(t)
    BY DEF Agreed, ConnectionAgrees
  <2>5. UNCHANGED <<known, asker_up, provider_up, met>> /\ t = receive_service(told[c], m)
    BY <1>1, <2>1 DEF asking, links
  <2> HIDE DEF t
  <2>6. QED
    BY <1>1, <1>5, <2>3, <2>4, <2>5, SentAgrees
<1>6. CASE Sent(c, to_asker, asker_up, [kind |-> "E", id |-> r.service_id, query |-> q])
  <2>1. [kind |-> "E", id |-> r.service_id, query |-> q] \in AskerMessages
    BY <1>2, <1>4 DEF AskerMessages
  <2>2. QED
    BY <1>5, <1>6, <2>1
<1>7. ASSUME NEW n \in 0 .. Len(r.buffer), NEW kind \in {"r", "R"}, NEW begins \in BOOLEAN,
             r.buffer # <<>>,
             Sent(c, to_asker, asker_up, part_of(r, q, kind, n))
      PROVE  Agreed'
  <2> DEFINE entries == SubSeq(r.buffer, 1, n)
             m == [kind |-> kind, id |-> r.service_id, query |-> q, inside |-> r.begun,
                   entries |-> entries]
  <2>1. entries \in Seq(Entry)
    BY <1>4
  <2>2. Sent(c, to_asker, asker_up, m)
    BY <1>7 DEF part_of
  <2> HIDE DEF entries
  <2>3. m \in AskerMessages /\ m.kind \in {"E", "r", "R"}
    BY <1>2, <1>4, <2>1 DEF AskerMessages
  <2> HIDE DEF m
  <2>4. QED
    BY <1>5, <2>2, <2>3
<1>8. QED
  BY <1>1, <1>6, <1>7

LEMMA AskerReceivesAgrees ==
  ASSUME Typed, Agreed, NEW c \in Connections, AskerReceives(c)
  PROVE  Agreed'
<1> DEFINE m == Head(to_asker[c])
<1>1. /\ to_asker[c] # <<>>
      /\ to_asker' = [to_asker EXCEPT ![c] = Tail(to_asker[c])]
      /\ known' = [known EXCEPT ![c] = receive_service(known[c], m)]
      /\ UNCHANGED <<asker_up, provider_up, met, told>>
  BY DEF AskerReceives, links, providing
<1>2. /\ known \in [Connections -> Tables]
      /\ to_asker \in [Connections -> Seq(AskerMessages)]
  BY DEF Typed, ServicesTyped, ChannelsTyped
<1>3. ASSUME NEW d \in Connections PROVE ConnectionAgrees(d)'
  <2>1. ConnectionAgrees(d)
    BY DEF Agreed
  <2>2. CASE d # c
    <3>1. known'[d] = known[d] /\ to_asker'[d] = to_asker[d] /\ told'[d] = told[d]
      BY <1>1, <1>2, <2>2
    <3>2. QED
      BY <1>1, <2>1, <3>1, ConnectionUntouched
  <2>3. CASE d = c
    <3> DEFINE k == known[c]
               s == to_asker[c]
               t == told[c]
    <3>1. s \in Seq(AskerMessages) /\ s # <<>>
      BY <1>1, <1>2
    <3>2. known'[c] = receive_service(k, Head(s)) /\ to_asker'[c] = Tail(s) /\ told'[c] = t
      BY <1>1, <1>2
    <3>3. c \in asker_up /\ c \in provider_up => Becomes(k, s, t)
      BY <2>1, <2>3 DEF ConnectionAgrees
    <3>4. Injective(t) /\ c \in met
      BY <1>1, <2>1, <2>3 DEF ConnectionAgrees
    <3> HIDE DEF k, s, t
    <3>5. Becomes(k, s, t) => Becomes(receive_service(k, Head(s)), Tail(s), t)
      BY <3>1, BecomesFromNext
    <3>6. c \in asker_up' /\ c \in provider_up' => Becomes(known'[c], to_asker'[c], told'[c])
      BY <1>1, <3>2, <3>3, <3>5
    <3>7. Injective(told'[c]) /\ c \in met'
      BY <1>1, <3>2, <3>4
    <3>8. QED
      BY <2>3, <3>6, <3>7 DEF ConnectionAgrees, Injective, Becomes
  <2>4. QED
    BY <2>2, <2>3
<1>4. QED
  BY <1>3 DEF Agreed

LEMMA ConnectAgrees ==
  ASSUME Typed, Agreed, NEW c \in Connections, Connect(c)
  PROVE  Agreed'
<1>1. /\ c \notin met /\ met' = met \cup {c}
      /\ asker_up' \in {asker_up, asker_up \cup {c}}
      /\ provider_up' \in {provider_up, provider_up \cup {c}}
      /\ UNCHANGED <<told, known, to_asker>>
  BY DEF Connect, asking, providing
<1>2. ASSUME NEW d \in Connections PROVE ConnectionAgrees(d)'
  <2>1. ConnectionAgrees(d)
    BY DEF Agreed
  <2>2. CASE d # c
    BY <1>1, <2>1, <2>2, ConnectionUntouched
  <2>3. CASE d = c
    <3>1. told[c] = Empty /\ known[c] = Empty /\ to_asker[c] = <<>> /\ Injective(told[c])
      BY <1>1, <2>1, <2>3 DEF ConnectionAgrees
    <3>2. told[c] \in Tables
      BY DEF Typed, ServicesTyped
    <3>3. Becomes(told[c], <<>>, told[c])
      BY <3>2, NothingBecomesItself
    <3>4. Becomes(known[c], to_asker[c], told[c])
      BY <3>1, <3>3
    <3>5. Becomes(known'[c], to_asker'[c], told'[c]) /\ Injective(told'[c]) /\ c \in met'
      BY <1>1, <3>1, <3>4
    <3>6. QED
      BY <2>3, <3>5 DEF ConnectionAgrees, Injective, Becomes
  <2>4. QED
    BY <2>2, <2>3
<1>3. QED
  BY <1>2 DEF Agreed

\* The other steps tell nobody anything.
LEMMA UntoldAgrees ==
  ASSUME Agreed, UNCHANGED <<told, known, met>>, asker_up' \subseteq asker_up,
         provider_up' \subseteq provider_up,
         \/ to_asker' = to_asker
         \/ \E c \in Connections : to_asker' = [to_asker EXCEPT ![c] = <<>>] /\ c \notin asker_up',
         to_asker = [c \in Connections |-> to_asker[c]]
  PROVE  Agreed'
<1>1. ASSUME NEW d \in Connections PROVE ConnectionAgrees(d)'
  <2>1. ConnectionAgrees(d)
    BY DEF Agreed
  <2>2. to_asker'[d] = to_asker[d] \/ (to_asker'[d] = <<>> /\ d \notin asker_up')
    OBVIOUS
  <2>3. QED
    BY <2>1, <2>2, ConnectionUntouched
<1>2. QED
  BY <1>1 DEF Agreed

LEMMA AgreedStays ==
  ASSUME Typed, Agreed, [Next]_vars
  PROVE  Agreed'
<1>1. to_asker = [c \in Connections |-> to_asker[c]]
  BY DEF Typed, ChannelsTyped
<1>2. CASE UNCHANGED <<told, known, met, asker_up, provider_up, to_asker>>
  BY <1>1, <1>2, UntoldAgrees
<1>3. ASSUME NEW service \in Services, NEW shape \in Shapes, SendQuery(service, shape) PROVE Agreed'
  BY <1>2, <1>3 DEF SendQuery, links
<1>4. ASSUME NEW q, NEW cb, CancelQuery(q, cb) PROVE Agreed'
  BY <1>2, <1>4 DEF CancelQuery, links, providing
<1>5. ASSUME NEW q, TimeOut(q) PROVE Agreed'
  BY <1>2, <1>5 DEF TimeOut, links, providing
<1>6. ASSUME NEW c, SendOfQuery(c) PROVE Agreed'
  BY <1>2, <1>6 DEF SendOfQuery, links, providing
<1>7. ASSUME GetReceivedResponses PROVE Agreed'
  BY <1>2, <1>7 DEF GetReceivedResponses, links, providing
<1>8. ASSUME NEW p, NEW services, SetAcceptedServices(p, services) PROVE Agreed'
  BY <1>2, <1>8 DEF SetAcceptedServices, links, asking
<1>9. ASSUME NEW c, ProviderReceives(c) PROVE Agreed'
  BY <1>2, <1>9 DEF ProviderReceives, links, asking
<1>10. ASSUME NEW p, GetReceivedQueries(p) PROVE Agreed'
  BY <1>2, <1>10 DEF GetReceivedQueries, links, asking
<1>11. ASSUME NEW q, NEW i, NEW status, NEW n, SendResponse(q, i, status, n) PROVE Agreed'
  BY <1>2, <1>11 DEF SendResponse, links, asking
<1>12. ASSUME NEW c \in Connections, AskerLoses(c) PROVE Agreed'
  <2>1. /\ UNCHANGED <<told, known, met, provider_up>> /\ asker_up' = asker_up \ {c}
        /\ to_asker' = [to_asker EXCEPT ![c] = <<>>]
    BY <1>12 DEF AskerLoses, providing
  <2>2. QED
    BY <1>1, <2>1, UntoldAgrees
<1>13. ASSUME NEW c \in Connections, ProviderLoses(c) PROVE Agreed'
  <2>1. /\ UNCHANGED <<told, known, met, asker_up, to_asker>> /\ provider_up' = provider_up \ {c}
    BY <1>13 DEF ProviderLoses, asking
  <2>2. QED
    BY <1>1, <2>1, UntoldAgrees
<1>14. ASSUME UNCHANGED vars PROVE Agreed'
  BY <1>2, <1>14 DEF vars
<1>15. QED
  BY <1>3, <1>4, <1>5, <1>6, <1>7, <1>8, <1>9, <1>10, <1>11, <1>12, <1>13, <1>14, StepsAre,
     AnnounceAgrees, SendOfAnswerAgrees, AskerReceivesAgrees, ConnectAgrees

\* The announcements on their way make the asker know exactly the services he
\* was told, for any number of services, withdrawn and announced again in any
\* order (generate_accepted_services_to_send, receive_msg_accept,
\* receive_msg_reject).
THEOREM ServicesAlwaysAgree == Spec => []ServicesAgree
<1>1. Typed /\ Agreed /\ [Next]_vars => Agreed'
  BY AgreedStays
<1>2. Typed /\ Agreed => ServicesAgree
  BY AgreedIsServicesAgree
<1>3. QED
  BY AlwaysTyped, InitAgreed, <1>1, <1>2, PTL DEF Spec

-----------------------------------------------------------------------------
(* A query comes in no more parts than it has *)

size(m, q) == IF m.kind \in {"q", "Q"} /\ m.query = q THEN m.parts ELSE 0

\* What was received of a query, what is on its way in s and what is left to
\* send make no more than its parts.
Tallied(received, s, q, left, parts) ==
  \E t \in [0 .. Len(s) -> Nat] :
    /\ received <= t[0]
    /\ \A n \in 1 .. Len(s) : t[n] = t[n - 1] + size(s[n], q)
    /\ t[Len(s)] + left <= parts

LEMMA SizeIsNat ==
  ASSUME NEW Q, NEW m \in ProviderMessages(Q), NEW q
  PROVE  size(m, q) \in Nat
  BY DEF ProviderMessages, size

LEMMA TalliedBound ==
  ASSUME NEW Q, NEW s \in Seq(ProviderMessages(Q)), NEW q,
         NEW received \in Nat, NEW left \in Nat, NEW parts \in Nat, Tallied(received, s, q, left, parts)
  PROVE  received + left <= parts
<1>1. PICK t \in [0 .. Len(s) -> Nat] :
        /\ received <= t[0]
        /\ \A n \in 1 .. Len(s) : t[n] = t[n - 1] + size(s[n], q)
        /\ t[Len(s)] + left <= parts
  BY DEF Tallied
<1> DEFINE L == Len(s)
           T == {n \in 0 .. L : received <= t[n]}
<1>2. L \in Nat /\ \A n \in 1 .. L : size(s[n], q) \in Nat
  BY SizeIsNat
<1>3. 0 \in T
  BY <1>1, <1>2
<1>4. ASSUME NEW n \in 1 .. L, n - 1 \in T PROVE n \in T
  <2>1. n \in 0 .. L /\ n - 1 \in 0 .. L
    BY <1>2
  <2>2. t[n] = t[n - 1] + size(s[n], q) /\ t[n - 1] \in Nat /\ t[n] \in Nat /\ size(s[n], q) \in Nat
    BY <1>1, <1>2, <2>1
  <2>3. received <= t[n]
    BY <1>4, <2>2
  <2>4. QED
    BY <2>1, <2>3
<1> HIDE DEF T
<1>5. 0 .. L \subseteq T
  BY <1>2, <1>3, <1>4, StepByStep
<1>6. L \in 0 .. L
  BY <1>2
<1>7. received <= t[L] /\ t[L] \in Nat
  BY <1>1, <1>5, <1>6 DEF T
<1>8. QED
  BY <1>1, <1>7

\* Less was received or is left.
LEMMA TalliedLess ==
  ASSUME NEW Q, NEW s \in Seq(ProviderMessages(Q)), NEW q,
         NEW received \in Nat, NEW left \in Nat, NEW parts \in Nat, Tallied(received, s, q, left, parts),
         NEW received1 \in 0 .. received, NEW left1 \in 0 .. left
  PROVE  Tallied(received1, s, q, left1, parts)
<1>1. PICK t \in [0 .. Len(s) -> Nat] :
        /\ received <= t[0]
        /\ \A n \in 1 .. Len(s) : t[n] = t[n - 1] + size(s[n], q)
        /\ t[Len(s)] + left <= parts
  BY DEF Tallied
<1>2. t[0] \in Nat /\ t[Len(s)] \in Nat
  BY <1>1
<1>3. received1 <= t[0] /\ t[Len(s)] + left1 <= parts
  BY <1>1, <1>2
<1>4. QED
  BY <1>1, <1>3 DEF Tallied

LEMMA TalliedNothing ==
  ASSUME NEW Q, NEW s \in Seq(ProviderMessages(Q)), NEW q, NEW left \in Nat, NEW parts \in Nat,
         \A n \in 1 .. Len(s) : size(s[n], q) = 0, left <= parts
  PROVE  Tallied(0, s, q, left, parts)
<1> DEFINE t == [n \in 0 .. Len(s) |-> 0]
<1>1. Len(s) \in Nat
  OBVIOUS
<1>2. t \in [0 .. Len(s) -> Nat] /\ t[0] = 0 /\ t[Len(s)] = 0
  BY <1>1
<1>3. \A n \in 1 .. Len(s) : t[n] = t[n - 1] + size(s[n], q)
  <2>1. ASSUME NEW n \in 1 .. Len(s) PROVE t[n] = t[n - 1] + size(s[n], q)
    <3>1. n \in 0 .. Len(s) /\ n - 1 \in 0 .. Len(s)
      BY <1>1
    <3>2. t[n] = 0 /\ t[n - 1] = 0 /\ size(s[n], q) = 0
      BY <3>1
    <3>3. QED
      BY <3>2
  <2>2. QED
    BY <2>1
<1> HIDE DEF t
<1>4. t[Len(s)] + left <= parts /\ 0 <= t[0]
  BY <1>2
<1>5. QED
  BY <1>2, <1>3, <1>4 DEF Tallied

\* A channel that was lost.
LEMMA TalliedEmpty ==
  ASSUME NEW q, NEW received \in Nat, NEW left \in Nat, NEW parts \in Nat, received + left <= parts
  PROVE  Tallied(received, <<>>, q, left, parts)
<1> DEFINE t == [n \in 0 .. 0 |-> received]
<1>1. Len(<<>>) = 0 /\ t \in [0 .. 0 -> Nat] /\ t[0] = received
  OBVIOUS
<1> HIDE DEF t
<1>2. QED
  BY <1>1 DEF Tallied

LEMMA TalliedSent ==
  ASSUME NEW Q, NEW s \in Seq(ProviderMessages(Q)), NEW q,
         NEW received \in Nat, NEW left \in Nat, NEW parts \in Nat, Tallied(received, s, q, left, parts),
         NEW m \in ProviderMessages(Q), NEW left1 \in Nat, size(m, q) + left1 <= left
  PROVE  Tallied(received, Append(s, m), q, left1, parts)
<1>1. PICK t \in [0 .. Len(s) -> Nat] :
        /\ received <= t[0]
        /\ \A n \in 1 .. Len(s) : t[n] = t[n - 1] + size(s[n], q)
        /\ t[Len(s)] + left <= parts
  BY DEF Tallied
<1> DEFINE L == Len(s)
           s1 == Append(s, m)
           last == t[L] + size(m, q)
           w == [n \in 0 .. L + 1 |-> IF n = L + 1 THEN last ELSE t[n]]
<1>2. /\ L \in Nat /\ Len(s1) = L + 1 /\ s1[L + 1] = m
      /\ \A n \in 1 .. L : s1[n] = s[n]
  BY Appended
<1>3. t[L] \in Nat /\ size(m, q) \in Nat /\ last \in Nat /\ last = t[L] + size(m, q)
  BY <1>1, <1>2, SizeIsNat
<1> HIDE DEF s1, last
<1>4. w \in [0 .. L + 1 -> Nat]
  <2>1. ASSUME NEW n \in 0 .. L + 1, n # L + 1 PROVE t[n] \in Nat
    <3>1. n \in 0 .. L
      BY <1>2, <2>1
    <3>2. QED
      BY <1>1, <3>1
  <2>2. QED
    BY <1>3, <2>1
<1>5. received <= w[0] /\ w[L + 1] = last
  <2>1. 0 \in 0 .. L + 1 /\ 0 # L + 1 /\ L + 1 \in 0 .. L + 1
    BY <1>2
  <2>2. QED
    BY <1>1, <2>1
<1>6. ASSUME NEW n \in 1 .. L + 1 PROVE w[n] = w[n - 1] + size(s1[n], q)
  <2>1. n \in 0 .. L + 1 /\ n - 1 \in 0 .. L + 1 /\ n - 1 # L + 1
    BY <1>2
  <2>2. w[n - 1] = t[n - 1]
    BY <2>1
  <2>3. CASE n = L + 1
    <3>1. n - 1 = L /\ w[n] = last /\ s1[n] = m
      BY <1>2, <1>5, <2>3
    <3>2. QED
      BY <1>3, <2>2, <3>1
  <2>4. CASE n # L + 1
    <3>1. n \in 1 .. L
      BY <1>2, <2>4
    <3>2. w[n] = t[n] /\ s1[n] = s[n]
      BY <1>2, <2>1, <2>4, <3>1
    <3>3. QED
      BY <1>1, <2>2, <3>1, <3>2
  <2>5. QED
    BY <2>3, <2>4
<1>7. last + left1 <= parts
  BY <1>1, <1>3
<1> HIDE DEF w, L
<1>8. \A n \in 1 .. Len(s1) : w[n] = w[n - 1] + size(s1[n], q)
  BY <1>2, <1>6
<1>9. w \in [0 .. Len(s1) -> Nat] /\ received <= w[0] /\ w[Len(s1)] + left1 <= parts
  BY <1>2, <1>4, <1>5, <1>7
<1>10. Tallied(received, s1, q, left1, parts)
  BY <1>8, <1>9 DEF Tallied
<1>11. QED
  BY <1>10 DEF s1

LEMMA TalliedTaken ==
  ASSUME NEW Q, NEW s \in Seq(ProviderMessages(Q)), NEW q, s # <<>>,
         NEW received \in Nat, NEW left \in Nat, NEW parts \in Nat, Tallied(received, s, q, left, parts),
         NEW received1 \in Nat, received1 <= received + size(Head(s), q)
  PROVE  Tallied(received1, Tail(s), q, left, parts)
<1>1. PICK t \in [0 .. Len(s) -> Nat] :
        /\ received <= t[0]
        /\ \A n \in 1 .. Len(s) : t[n] = t[n - 1] + size(s[n], q)
        /\ t[Len(s)] + left <= parts
  BY DEF Tallied
<1> DEFINE L == Len(s)
           s1 == Tail(s)
           w == [n \in 0 .. L - 1 |-> t[n + 1]]
<1>2. /\ L \in Nat \ {0} /\ Len(s1) = L - 1 /\ Head(s) = s[1] /\ s[1] \in ProviderMessages(Q)
      /\ \A n \in 1 .. L - 1 : s1[n] = s[n + 1]
  BY Taken
<1> HIDE DEF s1
<1>3. w \in [0 .. L - 1 -> Nat]
  <2>1. ASSUME NEW n \in 0 .. L - 1 PROVE t[n + 1] \in Nat
    <3>1. n + 1 \in 0 .. L
      BY <1>2
    <3>2. QED
      BY <1>1, <3>1
  <2>2. QED
    BY <2>1
<1>4. received1 <= w[0] /\ w[L - 1] = t[L]
  <2>1. 0 \in 0 .. L - 1 /\ L - 1 \in 0 .. L - 1 /\ 1 \in 1 .. L /\ 0 \in 0 .. L
    BY <1>2
  <2>2. w[0] = t[1]
    <3>1. w[0] = t[0 + 1] /\ 0 + 1 = 1
      BY <2>1
    <3>2. QED
      BY <3>1
  <2>3. t[1] = t[0] + size(s[1], q)
    <3>1. t[1] = t[1 - 1] + size(s[1], q) /\ 1 - 1 = 0
      BY <1>1, <2>1
    <3>2. QED
      BY <3>1
  <2>4. t[0] \in Nat /\ size(s[1], q) \in Nat
    BY <1>1, <1>2, <2>1, SizeIsNat
  <2>5. received1 <= t[0] + size(s[1], q)
    BY <1>1, <1>2, <2>4
  <2>6. w[L - 1] = t[L]
    <3>1. w[L - 1] = t[L - 1 + 1] /\ L - 1 + 1 = L
      BY <1>2, <2>1
    <3>2. QED
      BY <3>1
  <2>7. QED
    BY <2>2, <2>3, <2>5, <2>6
<1>5. ASSUME NEW n \in 1 .. L - 1 PROVE w[n] = w[n - 1] + size(s1[n], q)
  <2>1. n \in 0 .. L - 1 /\ n - 1 \in 0 .. L - 1 /\ n + 1 \in 1 .. L /\ n - 1 + 1 = n /\ n + 1 - 1 = n
    BY <1>2
  <2>2. w[n] = t[n + 1] /\ w[n - 1] = t[n - 1 + 1]
    BY <2>1
  <2>3. t[n + 1] = t[n + 1 - 1] + size(s[n + 1], q)
    BY <1>1, <2>1
  <2>4. s1[n] = s[n + 1]
    BY <1>2
  <2>5. QED
    BY <2>1, <2>2, <2>3, <2>4
<1> HIDE DEF w, L
<1>6. \A n \in 1 .. Len(s1) : w[n] = w[n - 1] + size(s1[n], q)
  BY <1>2, <1>5
<1>7. w \in [0 .. Len(s1) -> Nat] /\ received1 <= w[0] /\ w[Len(s1)] + left <= parts
  BY <1>1, <1>2, <1>3, <1>4 DEF L
<1>8. Tallied(received1, s1, q, left, parts)
  BY <1>6, <1>7 DEF Tallied
<1>9. QED
  BY <1>8 DEF s1

\* What came over a connection of a query, and what is left to send over it.
came(c, q) == IF q \in DOMAIN responses /\ responses[q].connection = c THEN responses[q].parts ELSE 0
left(c, q) == IF q \in DOMAIN queries /\ queries[q].connection = c THEN queries[q].unsent ELSE 0

TallyOf(c, q) == Tallied(came(c, q), to_provider[c], q, left(c, q), asked[q].parts)

Tallies == \A c \in Connections : \A q \in DOMAIN asked : TallyOf(c, q)

LEMMA CountsAreNat ==
  ASSUME Typed, NEW c \in Connections, NEW q \in DOMAIN asked
  PROVE  /\ came(c, q) \in Nat /\ left(c, q) \in Nat /\ asked[q].parts \in Nat
         /\ to_provider[c] \in Seq(ProviderMessages(DOMAIN asked))
<1>1. came(c, q) \in Nat
  BY DEF came, Typed, ResponsesTyped, ResponseOK, Response
<1>2. left(c, q) \in Nat
  BY DEF left, Typed, QueriesTyped, Query
<1>3. asked[q].parts \in Nat
  BY DEF Typed, AskedTyped
<1>4. to_provider[c] \in Seq(ProviderMessages(DOMAIN asked))
  BY DEF Typed, ChannelsTyped
<1>5. QED
  BY <1>1, <1>2, <1>3, <1>4

LEMMA LessIsLeft ==
  ASSUME Typed, QueriesGoOn, NEW c, NEW q
  PROVE  left(c, q)' \in 0 .. left(c, q)
<1>1. CASE q \in DOMAIN queries' /\ queries'[q].connection = c
  <2>1. q \in DOMAIN queries /\ queries[q].connection = c /\ queries'[q].unsent \in 0 .. queries[q].unsent
    BY <1>1 DEF QueriesGoOn, StaysQuery
  <2>2. QED
    BY <1>1, <2>1 DEF left
<1>2. CASE ~(q \in DOMAIN queries' /\ queries'[q].connection = c)
  <2>1. left(c, q)' = 0
    BY <1>2 DEF left
  <2>2. left(c, q) \in Nat
    BY DEF left, Typed, QueriesTyped, Query
  <2>3. QED
    BY <2>1, <2>2
<1>3. QED
  BY <1>1, <1>2

LEMMA LessCame ==
  ASSUME Typed, ResponsesGoOn, NEW c, NEW q
  PROVE  came(c, q)' \in 0 .. came(c, q)
<1>0. came(c, q) \in Nat
  BY DEF came, Typed, ResponsesTyped, ResponseOK, Response
<1>1. CASE q \in DOMAIN responses' /\ responses'[q].connection = c
  <2>1. q \in DOMAIN responses /\ responses[q].connection = c /\ responses'[q].parts = responses[q].parts
    BY <1>1 DEF ResponsesGoOn, StaysResponse
  <2>2. came(c, q)' = came(c, q)
    BY <1>1, <2>1 DEF came
  <2>3. QED
    BY <1>0, <2>2
<1>2. CASE ~(q \in DOMAIN responses' /\ responses'[q].connection = c)
  <2>1. came(c, q)' = 0
    BY <1>2 DEF came
  <2>2. QED
    BY <1>0, <2>1
<1>3. QED
  BY <1>1, <1>2

\* A connection on which nothing is sent or taken.
LEMMA TallyStays ==
  ASSUME Typed, NEW c \in Connections, NEW q \in DOMAIN asked, TallyOf(c, q),
         UNCHANGED asked, to_provider'[c] = to_provider[c],
         came(c, q)' \in 0 .. came(c, q), left(c, q)' \in 0 .. left(c, q)
  PROVE  TallyOf(c, q)'
<1> DEFINE Q == DOMAIN asked
           s == to_provider[c]
           received == came(c, q)
           rest == left(c, q)
           received1 == came(c, q)'
           rest1 == left(c, q)'
           parts == asked[q].parts
<1>1. /\ s \in Seq(ProviderMessages(Q))
      /\ received \in Nat /\ rest \in Nat /\ parts \in Nat
      /\ received1 \in 0 .. received /\ rest1 \in 0 .. rest
  BY CountsAreNat
<1>2. Tallied(received, s, q, rest, parts)
  BY DEF TallyOf
<1>3. to_provider'[c] = s /\ asked'[q].parts = parts
  OBVIOUS
<1> HIDE DEF Q, s, received, rest, received1, rest1, parts
<1>4. Tallied(received1, s, q, rest1, parts)
  BY <1>1, <1>2, TalliedLess
<1>5. QED
  BY <1>3, <1>4 DEF TallyOf, received1, rest1

LEMMA TalliesStay ==
  ASSUME Typed, Tallies, UNCHANGED <<asked, to_provider>>, QueriesGoOn, ResponsesGoOn
  PROVE  Tallies'
<1>1. ASSUME NEW c \in Connections, NEW q \in DOMAIN asked PROVE TallyOf(c, q)'
  BY TallyStays, LessIsLeft, LessCame DEF Tallies
<1>2. QED
  BY <1>1 DEF Tallies

LEMMA InitTallies == Init => Tallies
  BY DEF Init, Empty, Tallies

LEMMA SendQueryTallies ==
  ASSUME Typed, Tallies, NEW service \in Services, NEW shape \in Shapes, SendQuery(service, shape)
  PROVE  Tallies'
<1>0. PICK q : q = Cardinality(DOMAIN asked) + 1
  OBVIOUS
<1> DEFINE a == [service |-> service, commands |-> shape.commands, parts |-> shape.parts]
<1>1. /\ asked' = set(asked, q, a)
      /\ \/ \E d \in asker_up : /\ service \in DOMAIN known[d]
                                /\ queries' = set(queries, q, new_query(d, service, shape))
         \/ queries' = queries
      /\ UNCHANGED <<responses, to_provider>>
  BY <1>0 DEF SendQuery
<1>2. q \notin DOMAIN asked
  BY <1>0, NumberIsNew
<1>3. shape.parts \in Nat
  BY ShapesAreTyped
<1>4. DOMAIN queries \subseteq DOMAIN asked /\ DOMAIN responses \subseteq DOMAIN asked
  BY DEF Typed, QueriesTyped, ResponsesTyped
<1>5. /\ DOMAIN asked' = DOMAIN asked \cup {q} /\ asked'[q] = a
      /\ \A x \in DOMAIN asked : asked'[x] = asked[x]
  BY <1>1, <1>2 DEF set
<1>6. a.parts = shape.parts
  OBVIOUS
<1> HIDE DEF a
<1>7. ASSUME NEW c \in Connections, NEW x \in DOMAIN asked PROVE TallyOf(c, x)'
  <2>1. TallyOf(c, x)
    BY DEF Tallies
  <2>2. x # q
    BY <1>2
  <2>3. came(c, x)' = came(c, x)
    BY <1>1 DEF came
  <2>4. left(c, x)' = left(c, x)
    BY <1>1, <2>2 DEF left, set
  <2>5. asked'[x] = asked[x] /\ to_provider' = to_provider
    BY <1>1, <1>5
  <2>6. QED
    BY <2>1, <2>3, <2>4, <2>5 DEF TallyOf
<1>8. ASSUME NEW c \in Connections PROVE TallyOf(c, q)'
  <2> DEFINE s == to_provider[c]
             Q == DOMAIN asked
             rest == left(c, q)'
  <2>1. s \in Seq(ProviderMessages(Q))
    BY DEF Typed, ChannelsTyped
  <2>2. q \notin Q
    BY <1>2
  <2>3. came(c, q)' = 0
    BY <1>1, <1>2, <1>4 DEF came
  <2>4. rest \in {0, shape.parts}
    <3>1. q \notin DOMAIN queries
      BY <1>2, <1>4
    <3>2. QED
      BY <1>1, <3>1 DEF left, set, new_query
  <2>5. to_provider'[c] = s
    BY <1>1
  <2> HIDE DEF s, Q, rest
  <2>6. ASSUME NEW n \in 1 .. Len(s) PROVE size(s[n], q) = 0
    <3>1. s[n] \in ProviderMessages(Q)
      BY <2>1
    <3>2. s[n].query # q
      BY <2>2, <3>1 DEF ProviderMessages
    <3>3. QED
      BY <3>2 DEF size
  <2>7. rest \in Nat /\ rest <= shape.parts
    BY <1>3, <2>4
  <2>8. Tallied(0, s, q, rest, shape.parts)
    BY <1>3, <2>1, <2>6, <2>7, TalliedNothing
  <2>9. QED
    BY <1>5, <1>6, <2>3, <2>5, <2>8 DEF TallyOf, rest
<1>9. QED
  BY <1>5, <1>7, <1>8 DEF Tallies

LEMMA SendOfQueryTallies ==
  ASSUME Typed, Tallies, NEW c \in Connections, SendOfQuery(c)
  PROVE  Tallies'
<1>0. PICK q : q = Sender(c)
  OBVIOUS
<1> DEFINE s == queries[q]
<1>1. /\ q \in DOMAIN queries /\ s.connection = c
      /\ \/ /\ queries' = [queries EXCEPT ![q].query = "CancelWasSent"]
            /\ Sent(c, to_provider, provider_up, [kind |-> "C", id |-> s.service_id, query |-> q])
         \/ /\ \E n \in 1 .. s.unsent :
                 /\ queries' = [queries EXCEPT ![q].unsent = @ - n]
                 /\ Sent(c, to_provider, provider_up,
                         [kind |-> IF n = s.unsent THEN "Q" ELSE "q",
                          id |-> s.service_id, query |-> q, parts |-> n])
      /\ UNCHANGED <<asked, responses>>
  BY <1>0, SendOfQuerySteps DEF providing
<1>2. s \in Query /\ q \in DOMAIN asked /\ QueriesGoOn /\ ResponsesGoOn
  BY <1>1, SendOfQueryKeepsTypes, ResponsesUntouched DEF Typed, QueriesTyped
<1>3. /\ queries = [x \in DOMAIN queries |-> queries[x]] /\ to_provider = [d \in Connections |-> to_provider[d]]
      /\ \A x \in DOMAIN queries : queries[x].unsent \in Nat
  BY DEF Typed, QueriesTyped, ChannelsTyped, Query
<1>4. \E m \in ProviderMessages(DOMAIN asked) :
        /\ Sent(c, to_provider, provider_up, m)
        /\ m.query = q
        /\ size(m, q) + left(c, q)' <= left(c, q)
  <2>1. CASE /\ queries' = [queries EXCEPT ![q].query = "CancelWasSent"]
             /\ Sent(c, to_provider, provider_up, [kind |-> "C", id |-> s.service_id, query |-> q])
    <3> DEFINE m == [kind |-> "C", id |-> s.service_id, query |-> q]
    <3>1. m \in ProviderMessages(DOMAIN asked) /\ m.query = q /\ size(m, q) = 0
      BY <1>2 DEF ProviderMessages, Query, size
    <3>2. left(c, q)' \in 0 .. left(c, q) /\ left(c, q) \in Nat
      BY <1>2, LessIsLeft, CountsAreNat
    <3>3. Sent(c, to_provider, provider_up, m)
      BY <2>1
    <3> HIDE DEF m
    <3>4. size(m, q) + left(c, q)' <= left(c, q)
      BY <3>1, <3>2
    <3>5. QED
      BY <3>1, <3>3, <3>4
  <2>2. ASSUME NEW n \in 1 .. s.unsent,
               queries' = [queries EXCEPT ![q].unsent = @ - n],
               Sent(c, to_provider, provider_up,
                    [kind |-> IF n = s.unsent THEN "Q" ELSE "q",
                     id |-> s.service_id, query |-> q, parts |-> n])
        PROVE  \E m \in ProviderMessages(DOMAIN asked) :
                 /\ Sent(c, to_provider, provider_up, m)
                 /\ m.query = q
                 /\ size(m, q) + left(c, q)' <= left(c, q)
    <3> DEFINE m == [kind |-> IF n = s.unsent THEN "Q" ELSE "q",
                     id |-> s.service_id, query |-> q, parts |-> n]
    <3>1. s.unsent \in Nat /\ n \in Nat
      BY <1>2 DEF Query
    <3>2. m \in ProviderMessages(DOMAIN asked) /\ m.query = q /\ size(m, q) = n
      BY <1>2, <3>1 DEF ProviderMessages, Query, size
    <3>3. left(c, q) = s.unsent
      BY <1>1 DEF left
    <3>4. left(c, q)' = s.unsent - n
      <4>1. queries' = [x \in DOMAIN queries |->
                         IF x = q THEN [queries[q] EXCEPT !.unsent = @ - n] ELSE queries[x]]
        BY <1>1, <1>3, <2>2
      <4>2. queries'[q] = [queries[q] EXCEPT !.unsent = @ - n] /\ q \in DOMAIN queries'
        BY <1>1, <4>1
      <4>3. queries'[q].connection = c /\ queries'[q].unsent = s.unsent - n
        BY <1>1, <1>2, <4>2 DEF Query
      <4>4. QED
        BY <4>2, <4>3 DEF left
    <3>5. Sent(c, to_provider, provider_up, m)
      BY <2>2
    <3> HIDE DEF m, s
    <3>6. size(m, q) + left(c, q)' <= left(c, q)
      BY <3>1, <3>2, <3>3, <3>4
    <3>7. QED
      BY <3>2, <3>5, <3>6
  <2>3. QED
    BY <1>1, <2>1, <2>2
<1>5. PICK m \in ProviderMessages(DOMAIN asked) :
        /\ Sent(c, to_provider, provider_up, m)
        /\ m.query = q
        /\ size(m, q) + left(c, q)' <= left(c, q)
  BY <1>4
<1>6. to_provider' = IF c \in provider_up THEN [to_provider EXCEPT ![c] = Append(to_provider[c], m)]
                     ELSE to_provider
  BY <1>5 DEF Sent
<1>7. ASSUME NEW d \in Connections, NEW x \in DOMAIN asked PROVE TallyOf(d, x)'
  <2>1. TallyOf(d, x)
    BY DEF Tallies
  <2>2. came(d, x)' \in 0 .. came(d, x) /\ left(d, x)' \in 0 .. left(d, x) /\ asked' = asked
    BY <1>1, <1>2, LessCame, LessIsLeft
  <2>3. CASE d # c \/ c \notin provider_up
    <3>1. to_provider'[d] = to_provider[d]
      BY <1>3, <1>6, <2>3
    <3>2. QED
      BY <2>1, <2>2, <3>1, TallyStays
  <2>4. CASE d = c /\ c \in provider_up
    <3> DEFINE Q == DOMAIN asked
               t == to_provider[d]
               received == came(d, x)
               rest == left(d, x)
               rest1 == left(d, x)'
               parts == asked[x].parts
    <3>1. /\ t \in Seq(ProviderMessages(Q)) /\ m \in ProviderMessages(Q)
          /\ received \in Nat /\ rest \in Nat /\ parts \in Nat
      BY CountsAreNat
    <3>2. to_provider'[d] = Append(t, m)
      BY <1>3, <1>6, <2>4
    <3>3. came(d, x)' = received
      BY <1>1 DEF came
    <3>4. rest1 \in Nat /\ size(m, x) + rest1 <= rest
      <4>1. CASE x = q
        BY <1>5, <2>2, <2>4, <3>1, <4>1
      <4>2. CASE x # q
        <5>1. size(m, x) = 0
          BY <1>5, <4>2 DEF size
        <5> HIDE DEF rest, rest1
        <5>2. rest1 \in 0 .. rest
          BY <2>2 DEF rest, rest1
        <5>3. QED
          BY <3>1, <5>1, <5>2
      <4>3. QED
        BY <4>1, <4>2
    <3>5. Tallied(received, t, x, rest, parts)
      BY <2>1 DEF TallyOf
    <3>6. asked'[x].parts = parts
      BY <2>2
    <3> HIDE DEF Q, t, received, rest, rest1, parts
    <3>7. Tallied(received, Append(t, m), x, rest1, parts)
      BY <3>1, <3>4, <3>5, TalliedSent
    <3>8. QED
      BY <3>2, <3>3, <3>6, <3>7 DEF TallyOf, rest1
  <2>5. QED
    BY <2>3, <2>4
<1>8. QED
  BY <1>1, <1>7 DEF Tallies

LEMMA ProviderReceivesTallies ==
  ASSUME Typed, Tallies, NEW c \in Connections, ProviderReceives(c)
  PROVE  Tallies'
<1>0. PICK m : m = Head(to_provider[c])
  OBVIOUS
<1>1. /\ m \in ProviderMessages(DOMAIN asked)
      /\ to_provider[c] # <<>>
      /\ to_provider' = [to_provider EXCEPT ![c] = Tail(to_provider[c])]
      /\ \/ responses' = responses
         \/ /\ m.id \in ids(told[c]) /\ m.kind \in {"q", "Q"}
            /\ \E of_string \in BOOLEAN :
                 responses' = set(responses, m.query, receive_query(Response0(c, m), m, of_string))
         \/ /\ m.id \in ids(told[c]) /\ m.kind = "C"
            /\ m.query \in DOMAIN responses /\ responses[m.query].connection = c
            /\ responses' = [responses EXCEPT ![m.query] = receive_cancel(responses[m.query], m)]
      /\ UNCHANGED <<asked, queries>>
  BY <1>0, ProviderReceivesSteps DEF asking
<1>2. PICK q : q = m.query
  OBVIOUS
<1>3. q \in DOMAIN asked /\ m.id \in ServiceIds /\ size(m, q) \in Nat
  BY <1>1, <1>2, SizeIsNat DEF ProviderMessages
<1>4. /\ responses = [x \in DOMAIN responses |-> responses[x]]
      /\ to_provider = [d \in Connections |-> to_provider[d]]
  BY DEF Typed, ResponsesTyped, ChannelsTyped
\* Nothing came of another query, of this one not over another connection, and
\* over this one no more than was in the message.
<1>5. \/ responses' = responses
      \/ \E r : /\ responses' = set(responses, q, r)
                /\ r.connection = c
                /\ r.parts \in Nat
                /\ r.parts <= came(c, q) + size(m, q)
  <2>1. ASSUME m.id \in ids(told[c]), m.kind \in {"q", "Q"}, NEW of_string \in BOOLEAN,
               responses' = set(responses, m.query, receive_query(Response0(c, m), m, of_string))
        PROVE  \E r : /\ responses' = set(responses, q, r)
                      /\ r.connection = c
                      /\ r.parts \in Nat
                      /\ r.parts <= came(c, q) + size(m, q)
    <3> DEFINE r0 == Response0(c, m)
               r == receive_query(r0, m, of_string)
               n == asked[m.query].commands
               service == named(told[c], m.id)
    <3>1. m.parts \in Nat /\ size(m, q) = m.parts
      BY <1>1, <1>2, <2>1 DEF ProviderMessages, size
    <3>2. service \in Services
      <4>1. told[c] \in Tables
        BY DEF Typed, ServicesTyped
      <4>2. QED
        BY <2>1, <4>1, IdsOfTable
    <3>3. n \in Nat
      BY <1>2, <1>3 DEF Typed, AskedTyped
    <3>4. ResponseOK(r0, n) /\ r0.connection = c /\ r0.parts = came(c, q)
      <4>1. CASE m.query \in DOMAIN responses /\ responses[m.query].connection = c
        BY <1>2, <4>1 DEF Response0, came, Typed, ResponsesTyped
      <4>2. CASE ~(m.query \in DOMAIN responses /\ responses[m.query].connection = c)
        <5>1. r0 = NewResponse(c, m, service) /\ came(c, q) = 0
          BY <1>2, <4>2 DEF Response0, came
        <5> HIDE DEF service, r0, n
        <5>2. QED
          BY <1>3, <3>2, <5>1, NewResponseIsTyped
      <4>3. QED
        BY <4>1, <4>2
    <3> HIDE DEF r0
    <3>5. ResponseOK(r, n) /\ r.connection = c /\ r.parts <= r0.parts + m.parts
      BY <2>1, <3>1, <3>3, <3>4, ResponseReceived
    <3>6. responses' = set(responses, q, r)
      BY <1>2, <2>1 DEF r0
    <3> HIDE DEF r
    <3>7. r.parts \in Nat
      BY <3>5 DEF ResponseOK, Response
    <3>8. r.parts <= came(c, q) + size(m, q)
      BY <3>1, <3>4, <3>5
    <3>9. QED
      BY <3>5, <3>6, <3>7, <3>8
  <2>2. CASE /\ m.query \in DOMAIN responses /\ responses[m.query].connection = c
             /\ responses' = [responses EXCEPT ![m.query] = receive_cancel(responses[m.query], m)]
    <3> DEFINE r0 == responses[q]
               r == receive_cancel(r0, m)
               n == asked[q].commands
    <3>1. ResponseOK(r0, n) /\ r0.connection = c /\ r0.parts = came(c, q)
      BY <1>2, <2>2 DEF came, Typed, ResponsesTyped
    <3>2. responses' = set(responses, q, r)
      <4>1. responses' = [x \in DOMAIN responses |-> IF x = q THEN r ELSE responses[x]]
        BY <1>2, <1>4, <2>2
      <4>2. DOMAIN responses \cup {q} = DOMAIN responses
        BY <1>2, <2>2
      <4> HIDE DEF r
      <4>3. QED
        BY <4>1, <4>2 DEF set
    <3> HIDE DEF r0, n
    <3>3. ResponseOK(r, n) /\ r.connection = r0.connection /\ r.parts = r0.parts
      BY <3>1, ResponseCancelled
    <3> HIDE DEF r
    <3>4. r.parts \in Nat
      BY <3>3 DEF ResponseOK, Response
    <3>5. r.connection = c /\ r.parts = came(c, q)
      BY <3>1, <3>3
    <3>6. r.parts <= came(c, q) + size(m, q)
      BY <1>3, <3>4, <3>5
    <3>7. QED
      BY <3>2, <3>4, <3>5, <3>6
  <2>3. QED
    BY <1>1, <2>1, <2>2
<1>6. ASSUME NEW d \in Connections, NEW x \in DOMAIN asked PROVE TallyOf(d, x)'
  <2> DEFINE received == came(d, x)
             received1 == came(d, x)'
             rest == left(d, x)
             parts == asked[x].parts
  <2>1. TallyOf(d, x) /\ left(d, x)' = rest /\ asked' = asked
    BY <1>1 DEF Tallies, left
  <2>2. received \in Nat /\ rest \in Nat /\ parts \in Nat /\ size(m, x) \in Nat
    BY <1>1, CountsAreNat, SizeIsNat
  <2>3. /\ received1 \in Nat
        /\ IF d = c THEN received1 <= received + size(m, x) ELSE received1 <= received
    <3>1. CASE responses' = responses
      <4>1. received1 = received
        BY <3>1 DEF came
      <4> HIDE DEF received, received1
      <4>2. QED
        BY <2>2, <4>1
    <3>2. ASSUME NEW r, responses' = set(responses, q, r), r.connection = c, r.parts \in Nat,
                 r.parts <= came(c, q) + size(m, q)
          PROVE  /\ received1 \in Nat
                 /\ IF d = c THEN received1 <= received + size(m, x) ELSE received1 <= received
      <4>1. CASE x = q
        <5>1. received1 = IF d = c THEN r.parts ELSE 0
          BY <3>2, <4>1 DEF came, set
        <5> HIDE DEF received1
        <5>2. CASE d = c
          BY <3>2, <4>1, <5>1, <5>2
        <5>3. CASE d # c
          <6> HIDE DEF received
          <6>1. QED
            BY <2>2, <5>1, <5>3
        <5>4. QED
          BY <5>2, <5>3
      <4>2. CASE x # q
        <5>1. received1 = received
          BY <3>2, <4>2 DEF came, set
        <5> HIDE DEF received, received1
        <5>2. QED
          BY <2>2, <5>1
      <4>3. QED
        BY <4>1, <4>2
    <3>3. QED
      BY <1>5, <3>1, <3>2
  <2>4. CASE d = c
    <3> DEFINE Q == DOMAIN asked
               s == to_provider[c]
    <3>1. s \in Seq(ProviderMessages(Q)) /\ s # <<>> /\ m = Head(s)
      BY <1>0, <1>1, CountsAreNat
    <3>2. to_provider'[c] = Tail(s)
      BY <1>1, <1>4
    <3>3. Tallied(received, s, x, rest, parts)
      BY <2>1, <2>4 DEF TallyOf
    <3> HIDE DEF received, received1, rest, parts, Q, s
    <3>4. received1 \in Nat /\ received1 <= received + size(Head(s), x)
      BY <2>3, <2>4, <3>1
    <3>5. Tallied(received1, Tail(s), x, rest, parts)
      BY <2>2, <3>1, <3>3, <3>4, TalliedTaken
    <3>6. asked'[x].parts = parts
      BY <2>1 DEF parts
    <3>7. QED
      BY <2>1, <2>4, <3>2, <3>5, <3>6 DEF TallyOf, received1
  <2>5. CASE d # c
    <3>1. to_provider'[d] = to_provider[d]
      BY <1>1, <1>4, <2>5
    <3>2. received1 \in 0 .. received /\ left(d, x)' \in 0 .. left(d, x)
      <4> HIDE DEF received, received1
      <4>1. received1 \in 0 .. received
        BY <2>2, <2>3, <2>5
      <4>2. QED
        BY <2>1, <2>2, <4>1
    <3>3. QED
      BY <2>1, <3>1, <3>2, TallyStays
  <2>6. QED
    BY <2>4, <2>5
<1>7. QED
  BY <1>1, <1>6 DEF Tallies

LEMMA ProviderLosesTallies ==
  ASSUME Typed, Tallies, NEW c \in Connections, ProviderLoses(c)
  PROVE  Tallies'
<1>1. to_provider' = [to_provider EXCEPT ![c] = <<>>] /\ UNCHANGED <<asked, queries>>
  BY DEF ProviderLoses, asking
<1>2. QueriesGoOn /\ ResponsesGoOn
  BY <1>1, QueriesUntouched, ProviderLosesKeepsTypes
<1>3. to_provider = [d \in Connections |-> to_provider[d]]
  BY DEF Typed, ChannelsTyped
<1>4. ASSUME NEW d \in Connections, NEW x \in DOMAIN asked PROVE TallyOf(d, x)'
  <2>1. TallyOf(d, x)
    BY DEF Tallies
  <2>2. came(d, x)' \in 0 .. came(d, x) /\ left(d, x)' \in 0 .. left(d, x) /\ asked' = asked
    BY <1>1, <1>2, LessCame, LessIsLeft
  <2>3. CASE d # c
    <3>1. to_provider'[d] = to_provider[d]
      BY <1>1, <1>3, <2>3
    <3>2. QED
      BY <2>1, <2>2, <3>1, TallyStays
  <2>4. CASE d = c
    <3> DEFINE Q == DOMAIN asked
               s == to_provider[d]
               received == came(d, x)
               rest == left(d, x)
               received1 == came(d, x)'
               rest1 == left(d, x)'
               parts == asked[x].parts
    <3>1. /\ s \in Seq(ProviderMessages(Q)) /\ received \in Nat /\ rest \in Nat /\ parts \in Nat
          /\ received1 \in 0 .. received /\ rest1 \in 0 .. rest
      BY <2>2, CountsAreNat
    <3>2. Tallied(received, s, x, rest, parts)
      BY <2>1 DEF TallyOf
    <3>3. to_provider'[d] = <<>> /\ asked'[x].parts = parts
      BY <1>1, <1>3, <2>2, <2>4
    <3> HIDE DEF Q, s, received, rest, received1, rest1, parts
    <3>4. received + rest <= parts
      BY <3>1, <3>2, TalliedBound
    <3>5. received1 \in Nat /\ rest1 \in Nat /\ received1 + rest1 <= parts
      BY <3>1, <3>4
    <3>6. Tallied(received1, <<>>, x, rest1, parts)
      BY <3>1, <3>5, TalliedEmpty
    <3>7. QED
      BY <3>3, <3>6 DEF TallyOf, received1, rest1
  <2>5. QED
    BY <2>3, <2>4
<1>5. QED
  BY <1>1, <1>4 DEF Tallies

LEMMA TalliesGoOn ==
  ASSUME Typed, Tallies, [Next]_vars
  PROVE  Tallies'
<1>1. ASSUME NEW q \in QueryIds, NEW cb \in BOOLEAN, CancelQuery(q, cb) PROVE Tallies'
  <2>1. UNCHANGED <<asked, to_provider, responses>>
    BY <1>1 DEF CancelQuery, providing
  <2>2. QED
    BY <1>1, <2>1, CancelKeepsTypes, ResponsesUntouched, TalliesStay
<1>2. ASSUME NEW q \in QueryIds, TimeOut(q) PROVE Tallies'
  <2>1. UNCHANGED <<asked, to_provider, responses>>
    BY <1>2 DEF TimeOut, providing
  <2>2. QED
    BY <1>2, <2>1, TimeOutKeepsTypes, ResponsesUntouched, TalliesStay
<1>3. ASSUME NEW c \in Connections, AskerReceives(c) PROVE Tallies'
  <2>1. UNCHANGED <<asked, to_provider, responses>>
    BY <1>3 DEF AskerReceives, providing
  <2>2. QED
    BY <1>3, <2>1, AskerReceivesKeepsTypes, ResponsesUntouched, TalliesStay
<1>4. ASSUME GetReceivedResponses PROVE Tallies'
  <2>1. UNCHANGED <<asked, to_provider, responses>>
    BY <1>4 DEF GetReceivedResponses, providing
  <2>2. QED
    BY <1>4, <2>1, GetResponsesKeepsTypes, ResponsesUntouched, TalliesStay
<1>5. ASSUME NEW c \in Connections, AskerLoses(c) PROVE Tallies'
  <2>1. UNCHANGED <<asked, to_provider, responses>>
    BY <1>5 DEF AskerLoses, providing
  <2>2. QED
    BY <1>5, <2>1, AskerLosesKeepsTypes, ResponsesUntouched, TalliesStay
<1>6. ASSUME NEW p \in Providers, GetReceivedQueries(p) PROVE Tallies'
  <2>1. UNCHANGED <<asked, to_provider, queries>>
    BY <1>6 DEF GetReceivedQueries, asking
  <2>2. QED
    BY <1>6, <2>1, GetQueriesKeepsTypes, QueriesUntouched, TalliesStay
<1>7. ASSUME NEW q \in DOMAIN given, NEW i \in DOMAIN given[q], NEW status \in Statuses,
             NEW n \in 0 .. 1, SendResponse(q, i, status, n)
      PROVE  Tallies'
  <2>1. UNCHANGED <<asked, to_provider, queries>>
    BY <1>7 DEF SendResponse, asking
  <2>2. QED
    BY <1>7, <2>1, SendResponseKeepsTypes, QueriesUntouched, TalliesStay
<1>8. ASSUME NEW c \in Connections, SendOfAnswer(c) PROVE Tallies'
  <2>1. UNCHANGED <<asked, to_provider, queries>>
    BY <1>8 DEF SendOfAnswer, asking
  <2>2. QED
    BY <1>8, <2>1, SendOfAnswerKeepsTypes, QueriesUntouched, TalliesStay
<1>9. ASSUME UNCHANGED <<asked, to_provider, queries, responses>> PROVE Tallies'
  BY <1>9, QueriesUntouched, ResponsesUntouched, TalliesStay
<1>10. ASSUME NEW p \in Providers, NEW services \in SUBSET Services, SetAcceptedServices(p, services)
       PROVE  Tallies'
  BY <1>9, <1>10 DEF SetAcceptedServices, asking
<1>11. ASSUME NEW c \in Connections, Announce(c) \/ Connect(c) PROVE Tallies'
  BY <1>9, <1>11 DEF Announce, Connect, asking, providing
<1>12. CASE UNCHANGED vars
  BY <1>9, <1>12 DEF vars
<1>13. QED
  BY <1>1, <1>2, <1>3, <1>4, <1>5, <1>6, <1>7, <1>8, <1>10, <1>11, <1>12, StepsAre,
     SendQueryTallies, SendOfQueryTallies, ProviderReceivesTallies, ProviderLosesTallies

\* Typed and the tallies make the whole of the type invariant.
LEMMA TypesFollow ==
  ASSUME Typed, Tallies
  PROVE  TypeOK
<1>1. ASSUME NEW c \in Connections
      PROVE  /\ DOMAIN told[c] \cup DOMAIN known[c] \subseteq Services
             /\ ids(told[c]) \cup ids(known[c]) \subseteq ServiceIds
             /\ Len(to_asker[c]) <= MaxInFlight /\ Len(to_provider[c]) <= MaxInFlight
  <2>1. told[c] \in Tables /\ known[c] \in Tables
    BY DEF Typed, ServicesTyped
  <2>2. QED
    BY <2>1, IdsOfTable DEF Typed, ChannelsTyped
<1>2. ASSUME NEW c \in Connections, NEW q \in DOMAIN asked
      PROVE  came(c, q) \in 0 .. asked[q].parts /\ left(c, q) \in 0 .. asked[q].parts
  <2> DEFINE Q == DOMAIN asked
             s == to_provider[c]
             received == came(c, q)
             rest == left(c, q)
             parts == asked[q].parts
  <2>1. s \in Seq(ProviderMessages(Q)) /\ received \in Nat /\ rest \in Nat /\ parts \in Nat
    BY CountsAreNat
  <2>2. Tallied(received, s, q, rest, parts)
    BY DEF Tallies, TallyOf
  <2> HIDE DEF Q, s, received, rest, parts
  <2>3. received + rest <= parts
    BY <2>1, <2>2, TalliedBound
  <2>4. received \in 0 .. parts /\ rest \in 0 .. parts
    BY <2>1, <2>3
  <2>5. QED
    BY <2>4 DEF received, rest, parts
<1>3. ASSUME NEW q \in DOMAIN queries
      PROVE  /\ queries[q].query \in {"Prepared", "NeedSendCancel", "CancelWasSent", "Aborted"}
             /\ queries[q].response \in {"Running", "Completed", "Aborted", "Cancelled"}
             /\ queries[q].unsent \in 0 .. asked[q].parts
             /\ \A i \in DOMAIN queries[q].answers : queries[q].answers[i].status \in Answers
  <2>1. queries[q] \in Query /\ q \in DOMAIN asked
    BY DEF Typed, QueriesTyped
  <2>2. queries[q].connection \in Connections
    BY <2>1 DEF Query
  <2>3. left(queries[q].connection, q) = queries[q].unsent
    BY DEF left
  <2>4. queries[q].unsent \in 0 .. asked[q].parts
    BY <1>2, <2>1, <2>2, <2>3
  <2>5. queries[q].answers \in Seq(Answer)
    BY <2>1 DEF Query
  <2>6. \A i \in DOMAIN queries[q].answers : queries[q].answers[i].status \in Answers
    <3>1. ASSUME NEW i \in DOMAIN queries[q].answers PROVE queries[q].answers[i] \in Answer
      BY <2>5
    <3>2. QED
      BY <3>1 DEF Answer, Statuses, Answers
  <2>7. QED
    BY <2>1, <2>4, <2>6 DEF Query
<1>4. ASSUME NEW q \in DOMAIN responses
      PROVE  responses[q].parts \in 0 .. asked[q].parts /\ (responses[q].was_read => responses[q].completed)
  <2>1. ResponseOK(responses[q], asked[q].commands) /\ q \in DOMAIN asked
    BY DEF Typed, ResponsesTyped
  <2>2. responses[q].connection \in Connections
    BY <2>1 DEF ResponseOK, Response
  <2>3. came(responses[q].connection, q) = responses[q].parts
    BY DEF came
  <2>4. QED
    BY <1>2, <2>1, <2>2, <2>3 DEF ResponseOK
<1>5. QED
  BY <1>1, <1>3, <1>4 DEF TypeOK, Typed, ServicesTyped, LinksTyped, AskedTyped

\* Every state has its type: a query never has more left to send, or had more of
\* it received, than its text has, and what the user of a provider was given is
\* whole (MyQueryList, MyResponseList); and once the messages on their way have
\* come, the asker knows the services his partner told him of, no more and no less.
THEOREM ServicesAreAlwaysKnown == Spec => []ServicesAreKnown
<1>1. Spec => [](Typed /\ Tallies)
  <2>1. Init => Typed /\ Tallies
    BY InitTyped, InitTallies
  <2>2. Typed /\ Tallies /\ [Next]_vars => (Typed /\ Tallies)'
    BY StepsKeepTypes, TalliesGoOn
  <2>3. QED
    BY <2>1, <2>2, PTL DEF Spec
<1>2. Typed /\ Tallies => TypeOK
  BY TypesFollow
<1>3. Spec => []TypeOK
  BY <1>1, <1>2, PTL
<1>4. TypeOK /\ ServicesAgree => ServicesAreKnown
  BY DEF ServicesAreKnown
<1>5. QED
  BY <1>3, <1>4, ServicesAlwaysAgree, PTL

-----------------------------------------------------------------------------
(* What is told of a command, step by step *)

\* How far the answer to a command has got: its status, and how many rows.
Progress == [status : Statuses, rows : Nat]

\* The elements of s lead from t to u, each by the relation that R has for it.
Leads(R, s, t, u) ==
  \E f \in [0 .. Len(s) -> Progress] :
    /\ f[0] = t /\ f[Len(s)] = u
    /\ \A n \in 1 .. Len(s) : <<f[n - 1], f[n]>> \in R[s[n]]

\* Nothing leads nowhere.
LEMMA NothingLeads ==
  ASSUME NEW R, NEW t \in Progress
  PROVE  Leads(R, <<>>, t, t)
<1> DEFINE f == [n \in 0 .. 0 |-> t]
<1>1. f \in [0 .. 0 -> Progress] /\ f[0] = t
  OBVIOUS
<1> HIDE DEF f
<1>2. Len(<<>>) = 0 /\ \A n \in 1 .. 0 : FALSE
  OBVIOUS
<1>3. QED
  BY <1>1, <1>2 DEF Leads

\* It leads from a progress to a progress.
LEMMA LeadsFromTo ==
  ASSUME NEW R, NEW S, NEW s \in Seq(S), NEW t, NEW u, Leads(R, s, t, u)
  PROVE  t \in Progress /\ u \in Progress
<1>1. PICK f \in [0 .. Len(s) -> Progress] : f[0] = t /\ f[Len(s)] = u
  BY DEF Leads
<1>2. Len(s) \in Nat
  OBVIOUS
<1>3. 0 \in 0 .. Len(s) /\ Len(s) \in 0 .. Len(s)
  BY <1>2
<1>4. QED
  BY <1>1, <1>3

\* One way behind another.
LEMMA LeadsJoined ==
  ASSUME NEW R, NEW S, NEW x \in Seq(S), NEW y \in Seq(S), NEW t, NEW u, NEW v,
         Leads(R, x, t, u), Leads(R, y, u, v)
  PROVE  Leads(R, x \o y, t, v)
<1>1. PICK f \in [0 .. Len(x) -> Progress] :
        /\ f[0] = t /\ f[Len(x)] = u
        /\ \A n \in 1 .. Len(x) : <<f[n - 1], f[n]>> \in R[x[n]]
  BY DEF Leads
<1>2. PICK g \in [0 .. Len(y) -> Progress] :
        /\ g[0] = u /\ g[Len(y)] = v
        /\ \A n \in 1 .. Len(y) : <<g[n - 1], g[n]>> \in R[y[n]]
  BY DEF Leads
<1> DEFINE K == Len(x)
           L == Len(y)
           z == x \o y
           h == [n \in 0 .. K + L |-> IF n <= K THEN f[n] ELSE g[n - K]]
<1>3. /\ K \in Nat /\ L \in Nat /\ z \in Seq(S) /\ Len(z) = K + L
      /\ \A n \in 1 .. K : z[n] = x[n]
      /\ \A n \in K + 1 .. K + L : z[n] = y[n - K]
  OBVIOUS
<1> HIDE DEF K, L, z
<1>4. f \in [0 .. K -> Progress] /\ f[0] = t /\ f[K] = u
      /\ \A n \in 1 .. K : <<f[n - 1], f[n]>> \in R[x[n]]
  BY <1>1 DEF K
<1>5. g \in [0 .. L -> Progress] /\ g[0] = u /\ g[L] = v
      /\ \A n \in 1 .. L : <<g[n - 1], g[n]>> \in R[y[n]]
  BY <1>2 DEF L
<1>6. ASSUME NEW n \in 0 .. K + L PROVE h[n] \in Progress
  <2>1. CASE n <= K
    <3>1. n \in 0 .. K /\ h[n] = f[n]
      BY <1>3, <2>1
    <3>2. QED
      BY <1>4, <3>1
  <2>2. CASE ~(n <= K)
    <3>1. n - K \in 0 .. L /\ h[n] = g[n - K]
      BY <1>3, <2>2
    <3>2. QED
      BY <1>5, <3>1
  <2>3. QED
    BY <2>1, <2>2
<1>7. h \in [0 .. K + L -> Progress]
  BY <1>6
<1>8. h[0] = t /\ h[K + L] = v
  <2>1. 0 \in 0 .. K + L /\ 0 <= K /\ K + L \in 0 .. K + L
    BY <1>3
  <2>2. h[0] = f[0]
    BY <2>1
  <2>3. CASE L = 0
    <3>1. K + L <= K /\ K + L = K
      BY <1>3, <2>3
    <3>2. h[K + L] = f[K + L]
      BY <2>1, <3>1
    <3>3. QED
      BY <1>4, <1>5, <2>2, <2>3, <3>1, <3>2
  <2>4. CASE L # 0
    <3> DEFINE n == K + L
    <3>1. ~(n <= K) /\ n - K = L /\ n \in 0 .. K + L
      BY <1>3, <2>4
    <3> HIDE DEF n
    <3>2. h[n] = g[n - K]
      BY <3>1
    <3>3. h[n] = g[L]
      BY <3>1, <3>2
    <3>4. QED
      BY <1>4, <1>5, <2>2, <3>3 DEF n
  <2>5. QED
    BY <2>3, <2>4
<1>9. ASSUME NEW n \in 1 .. K + L PROVE <<h[n - 1], h[n]>> \in R[z[n]]
  <2>1. n \in 0 .. K + L /\ n - 1 \in 0 .. K + L
    BY <1>3
  <2>2. CASE n <= K
    <3>1. n \in 1 .. K /\ n - 1 <= K
      BY <1>3, <2>2
    <3>2. h[n] = f[n] /\ h[n - 1] = f[n - 1]
      BY <2>1, <2>2, <3>1
    <3>3. QED
      BY <1>3, <1>4, <3>1, <3>2
  <2>3. CASE ~(n <= K)
    <3>1. n - K \in 1 .. L /\ n \in K + 1 .. K + L /\ (n - K) - 1 = (n - 1) - K
      BY <1>3, <2>3
    <3>2. h[n] = g[n - K]
      BY <2>1, <2>3
    <3>3. h[n - 1] = g[(n - K) - 1]
      <4>1. CASE n - 1 <= K
        <5>1. n - 1 = K /\ (n - K) - 1 = 0
          BY <1>3, <2>3, <4>1
        <5>2. h[n - 1] = f[n - 1]
          BY <2>1, <4>1
        <5>3. QED
          BY <1>4, <1>5, <5>1, <5>2
      <4>2. CASE ~(n - 1 <= K)
        <5>1. h[n - 1] = g[(n - 1) - K]
          BY <2>1, <4>2
        <5>2. QED
          BY <3>1, <5>1
      <4>3. QED
        BY <4>1, <4>2
    <3>4. <<g[(n - K) - 1], g[n - K]>> \in R[y[n - K]]
      BY <1>5, <3>1
    <3>5. z[n] = y[n - K]
      BY <1>3, <3>1
    <3>6. QED
      BY <3>2, <3>3, <3>4, <3>5
  <2>4. QED
    BY <2>2, <2>3
<1> HIDE DEF h
<1>10. Leads(R, z, t, v)
  <2>1. h \in [0 .. Len(z) -> Progress] /\ h[Len(z)] = v
    BY <1>3, <1>7, <1>8
  <2>2. \A n \in 1 .. Len(z) : <<h[n - 1], h[n]>> \in R[z[n]]
    BY <1>3, <1>9
  <2>3. QED
    BY <1>8, <2>1, <2>2 DEF Leads
<1>11. QED
  BY <1>10 DEF z

\* A way is one through its first part and one through its second.
LEMMA LeadsInParts ==
  ASSUME NEW R, NEW S, NEW x \in Seq(S), NEW y \in Seq(S), NEW t, NEW v,
         Leads(R, x \o y, t, v)
  PROVE  \E u \in Progress : Leads(R, x, t, u) /\ Leads(R, y, u, v)
<1> DEFINE K == Len(x)
           L == Len(y)
           z == x \o y
<1>1. PICK h \in [0 .. Len(z) -> Progress] :
        /\ h[0] = t /\ h[Len(z)] = v
        /\ \A n \in 1 .. Len(z) : <<h[n - 1], h[n]>> \in R[z[n]]
  BY DEF Leads
<1>2. /\ K \in Nat /\ L \in Nat /\ z \in Seq(S) /\ Len(z) = K + L
      /\ \A n \in 1 .. K : z[n] = x[n]
      /\ \A n \in 1 .. L : z[n + K] = y[n]
  OBVIOUS
<1> DEFINE f == [n \in 0 .. K |-> h[n]]
           g == [n \in 0 .. L |-> h[n + K]]
<1> HIDE DEF K, L, z
<1>3. h \in [0 .. K + L -> Progress] /\ h[0] = t /\ h[K + L] = v
      /\ \A n \in 1 .. K + L : <<h[n - 1], h[n]>> \in R[z[n]]
  BY <1>1, <1>2
<1>4. f \in [0 .. K -> Progress]
  <2>1. \A n \in 0 .. K : n \in 0 .. K + L
    BY <1>2
  <2>2. QED
    BY <1>3, <2>1
<1>5. g \in [0 .. L -> Progress]
  <2>1. \A n \in 0 .. L : n + K \in 0 .. K + L
    BY <1>2
  <2>2. QED
    BY <1>3, <2>1
<1>6. f[0] = t /\ f[K] = h[K] /\ g[0] = h[K] /\ g[L] = v /\ h[K] \in Progress
  <2>1. 0 \in 0 .. K /\ K \in 0 .. K /\ 0 \in 0 .. L /\ L \in 0 .. L /\ 0 + K = K /\ L + K = K + L
        /\ K \in 0 .. K + L
    BY <1>2
  <2>2. QED
    BY <1>3, <2>1
<1>7. ASSUME NEW n \in 1 .. K PROVE <<f[n - 1], f[n]>> \in R[x[n]]
  <2>1. n \in 1 .. K + L /\ n \in 0 .. K /\ n - 1 \in 0 .. K
    BY <1>2
  <2>2. f[n] = h[n] /\ f[n - 1] = h[n - 1]
    BY <2>1
  <2>3. z[n] = x[n]
    BY <1>2
  <2>4. QED
    BY <1>3, <2>1, <2>2, <2>3
<1>8. ASSUME NEW n \in 1 .. L PROVE <<g[n - 1], g[n]>> \in R[y[n]]
  <2>1. n + K \in 1 .. K + L /\ n \in 0 .. L /\ n - 1 \in 0 .. L /\ (n - 1) + K = (n + K) - 1
    BY <1>2
  <2>2. g[n] = h[n + K] /\ g[n - 1] = h[(n + K) - 1]
    BY <2>1
  <2>3. z[n + K] = y[n]
    BY <1>2
  <2>4. <<h[(n + K) - 1], h[n + K]>> \in R[z[n + K]]
    BY <1>3, <2>1
  <2>5. QED
    BY <2>2, <2>3, <2>4
<1> HIDE DEF f, g
<1>9. Leads(R, x, t, h[K]) /\ Leads(R, y, h[K], v)
  BY <1>4, <1>5, <1>6, <1>7, <1>8 DEF Leads, K, L
<1>10. QED
  BY <1>6, <1>9

\* A single element leads by its own relation.
LEMMA OneLeads ==
  ASSUME NEW R, NEW x, NEW t \in Progress, NEW u \in Progress
  PROVE  Leads(R, <<x>>, t, u) <=> <<t, u>> \in R[x]
<1> DEFINE s == <<x>>
<1>1. Len(s) = 1 /\ s[1] = x
  OBVIOUS
<1> HIDE DEF s
<1>2. ASSUME Leads(R, s, t, u) PROVE <<t, u>> \in R[x]
  <2>1. PICK f \in [0 .. 1 -> Progress] :
          /\ f[0] = t /\ f[1] = u
          /\ \A n \in 1 .. 1 : <<f[n - 1], f[n]>> \in R[s[n]]
    BY <1>1, <1>2 DEF Leads
  <2>2. 1 \in 1 .. 1 /\ 1 - 1 = 0
    OBVIOUS
  <2>3. <<f[1 - 1], f[1]>> \in R[s[1]]
    BY <2>1, <2>2
  <2>4. QED
    BY <1>1, <2>1, <2>2, <2>3
<1>3. ASSUME <<t, u>> \in R[x] PROVE Leads(R, s, t, u)
  <2> DEFINE f == [n \in 0 .. 1 |-> IF n = 0 THEN t ELSE u]
  <2>1. f \in [0 .. 1 -> Progress] /\ f[0] = t /\ f[1] = u
    OBVIOUS
  <2> HIDE DEF f
  <2>2. ASSUME NEW n \in 1 .. 1 PROVE <<f[n - 1], f[n]>> \in R[s[n]]
    <3>1. n = 1 /\ n - 1 = 0
      OBVIOUS
    <3>2. QED
      BY <1>1, <1>3, <2>1, <3>1
  <2>3. QED
    BY <1>1, <2>1, <2>2 DEF Leads
<1>4. QED
  BY <1>2, <1>3 DEF s

\* What changes nothing at any element leads nowhere.
LEMMA LeadsNowhere ==
  ASSUME NEW R, NEW S, NEW s \in Seq(S), NEW t \in Progress,
         \A n \in 1 .. Len(s) : <<t, t>> \in R[s[n]]
  PROVE  Leads(R, s, t, t)
<1> DEFINE f == [n \in 0 .. Len(s) |-> t]
<1>1. Len(s) \in Nat
  OBVIOUS
<1>2. f \in [0 .. Len(s) -> Progress] /\ f[0] = t /\ f[Len(s)] = t
  BY <1>1
<1>3. \A n \in 1 .. Len(s) : f[n - 1] = t /\ f[n] = t
  <2>1. \A n \in 1 .. Len(s) : n \in 0 .. Len(s) /\ n - 1 \in 0 .. Len(s)
    BY <1>1
  <2>2. QED
    BY <2>1
<1> HIDE DEF f
<1>4. QED
  BY <1>2, <1>3 DEF Leads

\* Another element behind.
LEMMA LeadsMore ==
  ASSUME NEW R, NEW S, NEW s \in Seq(S), NEW x \in S, NEW t, NEW u, NEW v \in Progress,
         Leads(R, s, t, u), <<u, v>> \in R[x]
  PROVE  Leads(R, Append(s, x), t, v)
<1>1. u \in Progress
  BY LeadsFromTo
<1>2. Leads(R, <<x>>, u, v)
  BY <1>1, OneLeads
<1> DEFINE y == <<x>>
<1>3. y \in Seq(S) /\ Append(s, x) = s \o y
  OBVIOUS
<1> HIDE DEF y
<1>4. Leads(R, y, u, v)
  BY <1>2 DEF y
<1>5. Leads(R, s \o y, t, v)
  BY <1>3, <1>4, LeadsJoined
<1>6. QED
  BY <1>3, <1>5

\* The first element, and the way from there.
LEMMA LeadsFromNext ==
  ASSUME NEW R, NEW S, NEW s \in Seq(S), NEW t, NEW v, s # <<>>, Leads(R, s, t, v)
  PROVE  \E u \in Progress : <<t, u>> \in R[Head(s)] /\ Leads(R, Tail(s), u, v)
<1> DEFINE x == <<Head(s)>>
           y == Tail(s)
<1>1. /\ y \in Seq(S) /\ Len(y) = Len(s) - 1 /\ Len(s) \in Nat \ {0}
      /\ Head(s) = s[1] /\ s[1] \in S
      /\ \A i \in 1 .. Len(s) - 1 : y[i] = s[i + 1]
  BY Taken
<1>2. x \in Seq(S) /\ Len(x) = 1 /\ x[1] = Head(s)
  BY <1>1
<1>3. s = x \o y
  <2> DEFINE z == x \o y
  <2> HIDE DEF x, y
  <2>1. z \in Seq(S) /\ Len(z) = 1 + Len(y) /\ z[1] = x[1]
        /\ \A i \in 2 .. 1 + Len(y) : z[i] = y[i - 1]
    <3>1. x \in Seq(S) /\ y \in Seq(S) /\ Len(x) = 1 /\ Len(y) \in Nat
      BY <1>1, <1>2
    <3>2. /\ z \in Seq(S) /\ Len(z) = Len(x) + Len(y)
          /\ \A i \in 1 .. Len(x) + Len(y) : z[i] = IF i <= Len(x) THEN x[i] ELSE y[i - Len(x)]
      BY <3>1, ConcatProperties
    <3>3. 1 \in 1 .. Len(x) + Len(y) /\ \A i \in 2 .. 1 + Len(y) : i \in 1 .. Len(x) + Len(y) /\ ~(i <= Len(x))
      BY <3>1
    <3>4. QED
      BY <3>1, <3>2, <3>3
  <2>2. Len(z) = Len(s)
    BY <1>1, <2>1
  <2>3. ASSUME NEW i \in 1 .. Len(s) PROVE s[i] = z[i]
    <3>1. CASE i = 1
      BY <1>1, <1>2, <2>1, <3>1
    <3>2. CASE i # 1
      <4>1. i \in 2 .. 1 + Len(y) /\ i - 1 \in 1 .. Len(s) - 1 /\ (i - 1) + 1 = i
        BY <1>1, <3>2
      <4>2. QED
        BY <1>1, <2>1, <4>1
    <3>3. QED
      BY <3>1, <3>2
  <2> HIDE DEF z
  <2>4. s = z
    BY <2>1, <2>2, <2>3, SeqEqual
  <2>5. QED
    BY <2>4 DEF z
<1> HIDE DEF x, y
<1>4. PICK u \in Progress : Leads(R, x, t, u) /\ Leads(R, y, u, v)
  BY <1>1, <1>2, <1>3, LeadsInParts
<1>5. t \in Progress
  BY LeadsFromTo
<1>6. <<t, u>> \in R[Head(s)]
  BY <1>4, <1>5, OneLeads DEF x
<1>7. QED
  BY <1>4, <1>6 DEF y

\* An entry of command i goes on from where the ones before it ended, with the
\* next row if it has one; an entry of another command is nothing to i.
Steps(e, i, t, u) ==
  IF e.command # i THEN u = t
  ELSE /\ t.status = "ROWS"
       /\ e.rows \in {<<>>, <<t.rows + 1>>}
       /\ u = [status |-> e.status, rows |-> t.rows + Len(e.rows)]

ByEntries(i) == [e \in Entry |-> {p \in Progress \X Progress : Steps(e, i, p[1], p[2])}]

Goes(entries, i, t, u) == Leads(ByEntries(i), entries, t, u)

\* A message that answers q goes on by its entries.
IsOf(m, q) == m.kind \in {"r", "R"} /\ m.query = q

ByMessages(q, i) ==
  [m \in AskerMessages |-> {p \in Progress \X Progress :
     IF IsOf(m, q) THEN Goes(m.entries, i, p[1], p[2]) ELSE p[1] = p[2]}]

Comes(s, q, i, t, u) == Leads(ByMessages(q, i), s, t, u)

\* Rows are only added, and nothing is after the end.
GoesOn(t, u) == t.rows <= u.rows /\ (t.status # "ROWS" => u = t)

LEMMA LeadsOn ==
  ASSUME NEW R, NEW S, NEW s \in Seq(S), NEW t, NEW u, Leads(R, s, t, u),
         \A n \in 1 .. Len(s) : \A v, w \in Progress : <<v, w>> \in R[s[n]] => GoesOn(v, w)
  PROVE  GoesOn(t, u)
<1>1. PICK f \in [0 .. Len(s) -> Progress] :
        /\ f[0] = t /\ f[Len(s)] = u
        /\ \A n \in 1 .. Len(s) : <<f[n - 1], f[n]>> \in R[s[n]]
  BY DEF Leads
<1> DEFINE L == Len(s)
           T == {n \in 0 .. L : GoesOn(t, f[n])}
<1>2. L \in Nat
  OBVIOUS
<1>3. 0 \in T
  <2>1. 0 \in 0 .. L /\ f[0] \in Progress
    BY <1>2
  <2>2. GoesOn(t, t)
    BY <1>1, <2>1 DEF GoesOn, Progress
  <2>3. QED
    BY <1>1, <2>1, <2>2
<1>4. ASSUME NEW n \in 1 .. L, n - 1 \in T PROVE n \in T
  <2>1. n \in 0 .. L /\ n - 1 \in 0 .. L /\ 0 \in 0 .. L
    BY <1>2
  <2>2. f[n] \in Progress /\ f[n - 1] \in Progress /\ t \in Progress
    BY <1>1, <2>1
  <2>3. GoesOn(f[n - 1], f[n])
    BY <1>1, <2>2
  <2>4. GoesOn(t, f[n - 1])
    BY <1>4
  <2>5. GoesOn(t, f[n])
    BY <2>2, <2>3, <2>4 DEF GoesOn, Progress
  <2>6. QED
    BY <2>1, <2>5
<1> HIDE DEF T
<1>5. 0 .. L \subseteq T
  <2> HIDE DEF L
  <2>1. QED
    BY <1>2, <1>3, <1>4, StepByStep
<1>6. L \in T
  BY <1>2, <1>5
<1>7. QED
  BY <1>1, <1>6 DEF T

LEMMA EntriesGoOn ==
  ASSUME NEW entries \in Seq(Entry), NEW i, NEW t, NEW u, Goes(entries, i, t, u)
  PROVE  GoesOn(t, u) /\ t \in Progress /\ u \in Progress
<1> DEFINE R == ByEntries(i)
<1>1. Leads(R, entries, t, u)
  BY DEF Goes
<1>2. ASSUME NEW n \in 1 .. Len(entries), NEW v \in Progress, NEW w \in Progress,
             <<v, w>> \in R[entries[n]]
      PROVE  GoesOn(v, w)
  <2>1. entries[n] \in Entry
    OBVIOUS
  <2> DEFINE e == entries[n]
  <2>2. Steps(e, i, v, w)
    BY <1>2, <2>1 DEF ByEntries
  <2> HIDE DEF e
  <2>3. CASE e.command # i
    BY <2>2, <2>3 DEF Steps, GoesOn, Progress
  <2>4. CASE e.command = i
    <3>1. v.status = "ROWS" /\ e.rows \in {<<>>, <<v.rows + 1>>}
          /\ w = [status |-> e.status, rows |-> v.rows + Len(e.rows)]
      BY <2>2, <2>4 DEF Steps
    <3>2. Len(e.rows) \in Nat /\ v.rows \in Nat
      BY <3>1 DEF Progress
    <3>3. w.rows = v.rows + Len(e.rows)
      BY <3>1
    <3>4. QED
      BY <3>1, <3>2, <3>3 DEF GoesOn
  <2>5. QED
    BY <2>3, <2>4
<1> HIDE DEF R
<1>3. t \in Progress /\ u \in Progress
  BY <1>1, LeadsFromTo
<1>4. GoesOn(t, u)
  BY <1>1, <1>2, LeadsOn
<1>5. QED
  BY <1>3, <1>4

\* A part of an answer has entries.
LEMMA PartHasEntries ==
  ASSUME NEW m \in AskerMessages, NEW q, IsOf(m, q)
  PROVE  m.entries \in Seq(Entry) /\ m.query \in QueryIds
  BY DEF AskerMessages, IsOf

LEMMA MessagesGoOn ==
  ASSUME NEW s \in Seq(AskerMessages), NEW q, NEW i, NEW t, NEW u, Comes(s, q, i, t, u)
  PROVE  GoesOn(t, u) /\ t \in Progress /\ u \in Progress
<1> DEFINE R == ByMessages(q, i)
<1>1. Leads(R, s, t, u)
  BY DEF Comes
<1>2. ASSUME NEW n \in 1 .. Len(s), NEW v \in Progress, NEW w \in Progress, <<v, w>> \in R[s[n]]
      PROVE  GoesOn(v, w)
  <2> DEFINE m == s[n]
  <2>1. m \in AskerMessages
    OBVIOUS
  <2>2. IF IsOf(m, q) THEN Goes(m.entries, i, v, w) ELSE v = w
    BY <1>2, <2>1 DEF ByMessages
  <2> HIDE DEF m
  <2>3. CASE IsOf(m, q)
    <3>1. m.entries \in Seq(Entry) /\ Goes(m.entries, i, v, w)
      BY <2>1, <2>2, <2>3, PartHasEntries
    <3>2. QED
      BY <3>1, EntriesGoOn
  <2>4. CASE ~IsOf(m, q)
    BY <2>2, <2>4 DEF GoesOn, Progress
  <2>5. QED
    BY <2>3, <2>4
<1> HIDE DEF R
<1>3. t \in Progress /\ u \in Progress
  BY <1>1, LeadsFromTo
<1>4. GoesOn(t, u)
  BY <1>1, <1>2, LeadsOn
<1>5. QED
  BY <1>3, <1>4

\* Another message behind.
LEMMA ComesMore ==
  ASSUME NEW s \in Seq(AskerMessages), NEW m \in AskerMessages, NEW q, NEW i, NEW t, NEW u, NEW v,
         Comes(s, q, i, t, u), IF IsOf(m, q) THEN Goes(m.entries, i, u, v) ELSE u = v
  PROVE  Comes(Append(s, m), q, i, t, v)
<1> DEFINE R == ByMessages(q, i)
<1>1. Leads(R, s, t, u)
  BY DEF Comes
<1>2. u \in Progress
  BY MessagesGoOn
<1>3. v \in Progress
  <2>1. CASE IsOf(m, q)
    <3>1. m.entries \in Seq(Entry) /\ Goes(m.entries, i, u, v)
      BY <2>1, PartHasEntries
    <3>2. QED
      BY <3>1, EntriesGoOn
  <2>2. CASE ~IsOf(m, q)
    BY <1>2, <2>2
  <2>3. QED
    BY <2>1, <2>2
<1>4. <<u, v>> \in R[m]
  BY <1>2, <1>3 DEF ByMessages
<1> HIDE DEF R
<1>5. Leads(R, Append(s, m), t, v)
  BY <1>1, <1>3, <1>4, LeadsMore
<1>6. QED
  BY <1>5 DEF R, Comes

\* The first message comes, and then the others.
LEMMA ComesFromNext ==
  ASSUME NEW s \in Seq(AskerMessages), s # <<>>, NEW q, NEW i, NEW t, NEW v, Comes(s, q, i, t, v)
  PROVE  \E u \in Progress : /\ IF IsOf(Head(s), q) THEN Goes(Head(s).entries, i, t, u) ELSE u = t
                             /\ Comes(Tail(s), q, i, u, v)
<1> DEFINE R == ByMessages(q, i)
           m == Head(s)
<1>1. Leads(R, s, t, v) /\ t \in Progress
  BY MessagesGoOn DEF Comes
<1>2. m \in AskerMessages
  BY Taken
<1> HIDE DEF R
<1>3. PICK u \in Progress : <<t, u>> \in R[m] /\ Leads(R, Tail(s), u, v)
  BY <1>1, LeadsFromNext
<1> HIDE DEF m
<1>4. IF IsOf(m, q) THEN Goes(m.entries, i, t, u) ELSE u = t
  BY <1>1, <1>2, <1>3 DEF R, ByMessages
<1>5. QED
  BY <1>3, <1>4 DEF R, Comes, m

\* Where no message answers q nothing comes.
LEMMA NothingComes ==
  ASSUME NEW s \in Seq(AskerMessages), NEW q, NEW i, NEW t \in Progress,
         \A n \in 1 .. Len(s) : ~IsOf(s[n], q)
  PROVE  Comes(s, q, i, t, t)
<1> DEFINE R == ByMessages(q, i)
<1>1. ASSUME NEW n \in 1 .. Len(s) PROVE <<t, t>> \in R[s[n]]
  <2>1. s[n] \in AskerMessages /\ ~IsOf(s[n], q)
    OBVIOUS
  <2>2. QED
    BY <2>1 DEF ByMessages
<1> HIDE DEF R
<1>2. Leads(R, s, t, t)
  BY <1>1, LeadsNowhere
<1>3. QED
  BY <1>2 DEF R, Comes

LEMMA NothingGoes ==
  ASSUME NEW i, NEW t \in Progress
  PROVE  Goes(<<>>, i, t, t)
  BY NothingLeads DEF Goes

-----------------------------------------------------------------------------
(* What the asker has of an answer *)

\* What the user was told of a command, or will have been.
Outcome == [status : Statuses, rows : Seq(Nat)]

\* What he was told, and what there is for him to read.
joined(h, a) == [status |-> a.status, rows |-> h.rows \o a.rows]

Increasing(rows, n) ==
  \A j \in DOMAIN rows : rows[j] <= n /\ (j > 1 => rows[j - 1] < rows[j])

Complete(rows, n) == Len(rows) = n /\ \A j \in DOMAIN rows : rows[j] = j

\* What was told when the answer had got to t, by what the parser was given of it:
\* all of it, or some of it if a part was dropped, or anything if that tore an entry.
Told(o, t, form) ==
  /\ form # "torn" => /\ Increasing(o.rows, t.rows)
                      /\ o.status # "ROWS" => t.status = o.status
  /\ form = "exact" => o.status = t.status /\ Complete(o.rows, t.rows)

\* What was read of an answer was told.
Reads(h, a) ==
  IF a.was_read THEN a.rows = <<>> /\ h.status = a.status ELSE h.status = "ROWS"

LEMMA OneMoreRow ==
  ASSUME NEW rows \in Seq(Nat), NEW n \in Nat, Increasing(rows, n)
  PROVE  /\ Increasing(rows \o <<n + 1>>, n + 1)
         /\ Complete(rows, n) => Complete(rows \o <<n + 1>>, n + 1)
<1> DEFINE k == n + 1
           more == rows \o <<k>>
           L == Len(rows)
<1>1. k \in Nat /\ n < k
  OBVIOUS
<1>2. /\ more \in Seq(Nat) /\ Len(more) = L + 1 /\ L \in Nat
      /\ more[L + 1] = k /\ \A j \in 1 .. L : more[j] = rows[j]
  <2> HIDE DEF k
  <2>1. more = Append(rows, k)
    BY <1>1
  <2>2. QED
    BY <1>1, <2>1, Appended
<1>3. DOMAIN more = 1 .. L + 1 /\ DOMAIN rows = 1 .. L
  BY <1>2
<1>4. \A j \in 1 .. L : rows[j] \in Nat
  OBVIOUS
<1> HIDE DEF more, L, k
<1>5. ASSUME NEW j \in 1 .. L + 1 PROVE more[j] <= k /\ (j > 1 => more[j - 1] < more[j])
  <2>1. CASE j = L + 1
    <3>1. more[j] = k
      BY <1>2, <2>1
    <3>2. ASSUME j > 1 PROVE more[j - 1] < k
      <4>1. j - 1 = L /\ L \in 1 .. L
        BY <1>2, <2>1, <3>2
      <4>2. more[j - 1] = rows[L] /\ rows[L] <= n /\ rows[L] \in Nat
        BY <1>2, <1>3, <1>4, <4>1 DEF Increasing
      <4>3. QED
        BY <1>1, <4>2
    <3>3. QED
      BY <1>1, <3>1, <3>2
  <2>2. CASE j # L + 1
    <3>1. j \in 1 .. L
      BY <1>2, <2>2
    <3>2. more[j] = rows[j] /\ rows[j] \in Nat /\ rows[j] <= n /\ (j > 1 => rows[j - 1] < rows[j])
      BY <1>2, <1>3, <1>4, <3>1 DEF Increasing
    <3>3. j > 1 => more[j - 1] = rows[j - 1]
      <4>1. j > 1 => j - 1 \in 1 .. L
        BY <1>2, <3>1
      <4>2. QED
        BY <1>2, <4>1
    <3>4. QED
      BY <1>1, <3>2, <3>3
  <2>3. QED
    BY <2>1, <2>2
<1>6. Increasing(more, k)
  BY <1>3, <1>5 DEF Increasing
<1>7. ASSUME Complete(rows, n) PROVE Complete(more, k)
  <2>1. L = n /\ \A j \in 1 .. L : rows[j] = j
    BY <1>3, <1>7 DEF Complete, L
  <2>2. Len(more) = k
    BY <1>2, <2>1 DEF k
  <2>3. ASSUME NEW j \in 1 .. L + 1 PROVE more[j] = j
    <3>1. CASE j = L + 1
      BY <1>2, <2>1, <3>1 DEF k
    <3>2. CASE j # L + 1
      <4>1. j \in 1 .. L
        BY <1>2, <3>2
      <4>2. QED
        BY <1>2, <2>1, <4>1
    <3>3. QED
      BY <3>1, <3>2
  <2>4. QED
    BY <1>3, <2>2, <2>3 DEF Complete
<1>8. QED
  BY <1>6, <1>7 DEF more, k

LEMMA RowsAfterRows ==
  ASSUME NEW x \in Seq(Nat), NEW y \in Seq(Nat), NEW z \in Seq(Nat)
  PROVE  x \o (y \o z) = (x \o y) \o z
<1> DEFINE a == y \o z
           b == x \o y
           l == x \o a
           r == b \o z
<1>1. Len(x) \in Nat /\ Len(y) \in Nat /\ Len(z) \in Nat
  OBVIOUS
<1>2. /\ a \in Seq(Nat) /\ Len(a) = Len(y) + Len(z)
      /\ \A i \in 1 .. Len(y) + Len(z) : a[i] = IF i <= Len(y) THEN y[i] ELSE z[i - Len(y)]
  BY ConcatProperties
<1>3. /\ b \in Seq(Nat) /\ Len(b) = Len(x) + Len(y)
      /\ \A i \in 1 .. Len(x) + Len(y) : b[i] = IF i <= Len(x) THEN x[i] ELSE y[i - Len(x)]
  BY ConcatProperties
<1> HIDE DEF a, b
<1>4. /\ l \in Seq(Nat) /\ Len(l) = Len(x) + Len(a)
      /\ \A i \in 1 .. Len(x) + Len(a) : l[i] = IF i <= Len(x) THEN x[i] ELSE a[i - Len(x)]
  <2>1. a \in Seq(Nat)
    BY <1>2
  <2>2. QED
    BY <2>1, ConcatProperties
<1>5. /\ r \in Seq(Nat) /\ Len(r) = Len(b) + Len(z)
      /\ \A i \in 1 .. Len(b) + Len(z) : r[i] = IF i <= Len(b) THEN b[i] ELSE z[i - Len(b)]
  <2>1. b \in Seq(Nat)
    BY <1>3
  <2>2. QED
    BY <2>1, ConcatProperties
<1> HIDE DEF l, r
<1>6. Len(l) = Len(r)
  BY <1>1, <1>2, <1>3, <1>4, <1>5
<1>7. ASSUME NEW i \in 1 .. Len(l) PROVE l[i] = r[i]
  <2>1. CASE i <= Len(x)
    <3>1. i \in 1 .. Len(x) + Len(a) /\ i \in 1 .. Len(x) + Len(y) /\ i \in 1 .. Len(b) + Len(z)
          /\ i <= Len(b)
      BY <1>1, <1>2, <1>3, <1>4, <2>1
    <3>2. l[i] = x[i] /\ r[i] = b[i] /\ b[i] = x[i]
      BY <1>3, <1>4, <1>5, <2>1, <3>1
    <3>3. QED
      BY <3>2
  <2>2. CASE ~(i <= Len(x)) /\ i <= Len(x) + Len(y)
    <3>1. i \in 1 .. Len(x) + Len(a) /\ i \in 1 .. Len(x) + Len(y) /\ i \in 1 .. Len(b) + Len(z)
          /\ i <= Len(b) /\ i - Len(x) \in 1 .. Len(y) + Len(z) /\ i - Len(x) <= Len(y)
      BY <1>1, <1>2, <1>3, <1>4, <2>2
    <3>2. l[i] = a[i - Len(x)]
      BY <1>4, <2>2, <3>1
    <3>3. a[i - Len(x)] = y[i - Len(x)]
      BY <1>2, <3>1
    <3>4. r[i] = b[i] /\ b[i] = y[i - Len(x)]
      BY <1>3, <1>5, <2>2, <3>1
    <3>5. QED
      BY <3>2, <3>3, <3>4
  <2>3. CASE ~(i <= Len(x) + Len(y))
    <3>1. i \in 1 .. Len(x) + Len(a) /\ ~(i <= Len(x)) /\ i \in 1 .. Len(b) + Len(z)
          /\ ~(i <= Len(b)) /\ i - Len(x) \in 1 .. Len(y) + Len(z) /\ ~(i - Len(x) <= Len(y))
          /\ (i - Len(x)) - Len(y) = i - Len(b)
      BY <1>1, <1>2, <1>3, <1>4, <2>3
    <3>2. l[i] = a[i - Len(x)]
      BY <1>4, <3>1
    <3>3. a[i - Len(x)] = z[(i - Len(x)) - Len(y)]
      BY <1>2, <3>1
    <3>4. r[i] = z[i - Len(b)]
      BY <1>5, <3>1
    <3>5. QED
      BY <3>1, <3>2, <3>3, <3>4
  <2>4. QED
    BY <2>1, <2>2, <2>3
<1>8. l = r
  BY <1>4, <1>5, <1>6, <1>7, SeqEqual
<1>9. QED
  BY <1>8 DEF l, r, a, b

\* An entry comes to what was read or not.
LEMMA EntryIsRead ==
  ASSUME NEW h, NEW a \in Answer, NEW e \in Entry, Reads(h, a)
  PROVE  Reads(h, add_to_query_state(a, e.status, e.rows))
<1> DEFINE b == add_to_query_state(a, e.status, e.rows)
           w == a.was_read /\ e.status = "ROWS" /\ e.rows = <<>>
<1>1. CASE a.status # "ROWS"
  BY <1>1 DEF add_to_query_state
<1>2. CASE a.status = "ROWS"
  <2>1. b = [status |-> e.status, rows |-> a.rows \o e.rows, was_read |-> w]
    BY <1>2 DEF add_to_query_state
  <2> HIDE DEF b
  <2>2. b.status = e.status /\ b.rows = a.rows \o e.rows /\ (b.was_read <=> w)
    BY <2>1
  <2>3. CASE w
    <3>1. a.rows = <<>> /\ h.status = a.status /\ e.status = "ROWS" /\ e.rows = <<>>
      BY <2>3 DEF Reads
    <3>2. a.rows \o e.rows = <<>>
      BY <3>1
    <3>3. QED
      BY <1>2, <2>2, <2>3, <3>1, <3>2 DEF Reads, b
  <2>4. CASE ~w
    <3>1. h.status = "ROWS"
      BY <1>2 DEF Reads
    <3>2. QED
      BY <2>2, <2>4, <3>1 DEF Reads, b
  <2>5. QED
    BY <2>3, <2>4
<1>3. QED
  BY <1>1, <1>2

\* An entry that comes to the answer.
LEMMA AnswerGetsOn ==
  ASSUME NEW h \in Outcome, NEW a \in Answer, NEW t \in Progress, NEW u \in Progress, NEW form,
         NEW e \in Entry, form # "torn", Told(joined(h, a), t, form), Reads(h, a),
         t.status = "ROWS", e.rows \in {<<>>, <<t.rows + 1>>},
         u = [status |-> e.status, rows |-> t.rows + Len(e.rows)]
  PROVE  /\ Told(joined(h, add_to_query_state(a, e.status, e.rows)), u, form)
         /\ Reads(h, add_to_query_state(a, e.status, e.rows))
<1> DEFINE b == add_to_query_state(a, e.status, e.rows)
           w == a.was_read /\ e.status = "ROWS" /\ e.rows = <<>>
           o == h.rows \o a.rows
<1>1. a.status = "ROWS"
  BY DEF Told, joined
<1>2. b = [status |-> e.status, rows |-> a.rows \o e.rows, was_read |-> w]
  BY <1>1 DEF add_to_query_state
<1>3. /\ h.rows \in Seq(Nat) /\ a.rows \in Seq(Nat) /\ e.rows \in Seq(Nat)
      /\ t.rows \in Nat /\ e.status \in Statuses
  BY DEF Outcome, Answer, Entry, Progress
<1>4. o \in Seq(Nat)
  BY <1>3
<1>5. h.rows \o (a.rows \o e.rows) = o \o e.rows
  BY <1>3, RowsAfterRows
<1>6. Increasing(o, t.rows) /\ (form = "exact" => Complete(o, t.rows))
  BY DEF Told, joined
<1> HIDE DEF b, o, w
<1>7. b.status = e.status /\ b.rows = a.rows \o e.rows /\ b.was_read = w
  BY <1>2
<1>8. Increasing(o \o e.rows, u.rows) /\ (form = "exact" => Complete(o \o e.rows, u.rows))
  <2>1. CASE e.rows = <<>>
    <3>1. o \o e.rows = o
      BY <1>4, <2>1
    <3>2. u.rows = t.rows
      BY <1>3, <2>1
    <3>3. QED
      BY <1>6, <3>1, <3>2
  <2>2. CASE e.rows = <<t.rows + 1>>
    <3>1. u.rows = t.rows + 1
      BY <1>3, <2>2
    <3>2. QED
      BY <1>3, <1>4, <1>6, <2>2, <3>1, OneMoreRow
  <2>3. QED
    BY <2>1, <2>2
<1>9. Told(joined(h, b), u, form)
  <2>1. joined(h, b).rows = o \o e.rows /\ joined(h, b).status = e.status
    BY <1>5, <1>7 DEF joined
  <2>2. u.status = e.status
    OBVIOUS
  <2>3. QED
    BY <1>8, <2>1, <2>2 DEF Told
<1>10. Reads(h, b)
  BY EntryIsRead DEF b
<1>11. QED
  BY <1>9, <1>10 DEF b

\* The entries of a message come to the answer.
LEMMA AddedIsTold ==
  ASSUME NEW answers \in Seq(Answer), NEW entries \in Seq(Entry), NEW i \in DOMAIN answers,
         NEW h \in Outcome, NEW t, NEW u, NEW form, form # "torn", Goes(entries, i, t, u),
         Told(joined(h, answers[i]), t, form), Reads(h, answers[i])
  PROVE  /\ Told(joined(h, added(answers, entries)[i]), u, form)
         /\ Reads(h, added(answers, entries)[i])
<1> DEFINE L == Len(entries)
<1>1. PICK f \in [0 .. L -> Progress] :
        /\ f[0] = t /\ f[L] = u
        /\ \A n \in 1 .. L : <<f[n - 1], f[n]>> \in ByEntries(i)[entries[n]]
  BY DEF Goes, Leads
<1>2. PICK g \in [0 .. L -> [1 .. Len(answers) -> Answer]] :
        /\ g[0] = answers
        /\ \A n \in 1 .. L :
             g[n] = [g[n - 1] EXCEPT ![entries[n].command] =
                       add_to_query_state(@, entries[n].status, entries[n].rows)]
        /\ g[L] = added(answers, entries)
  BY AddedInSteps
<1>3. L \in Nat /\ i \in 1 .. Len(answers) /\ \A n \in 1 .. L : entries[n] \in Entry
  OBVIOUS
<1> DEFINE OK(n) == Told(joined(h, g[n][i]), f[n], form) /\ Reads(h, g[n][i])
           T == {n \in 0 .. L : OK(n)}
<1> HIDE DEF L
<1>4. 0 \in T
  BY <1>1, <1>2, <1>3
<1>5. ASSUME NEW n \in 1 .. L, n - 1 \in T PROVE n \in T
  <2>1. n - 1 \in 0 .. L /\ n \in 0 .. L
    BY <1>3
  <2>2. OK(n - 1)
    BY <1>5
  <2> DEFINE e == entries[n]
             v == f[n - 1]
             w == f[n]
             before == g[n - 1]
             a == before[i]
             b == g[n][i]
  <2>3. e \in Entry /\ v \in Progress /\ w \in Progress /\ before \in [1 .. Len(answers) -> Answer]
    BY <1>1, <1>2, <1>3, <2>1
  <2>4. a \in Answer
    BY <1>3, <2>3
  <2>5. Steps(e, i, v, w)
    BY <1>1, <2>3 DEF ByEntries
  <2>6. b = IF e.command = i THEN add_to_query_state(a, e.status, e.rows) ELSE a
    <3>1. g[n] = [before EXCEPT ![e.command] = add_to_query_state(@, e.status, e.rows)]
      BY <1>2
    <3> HIDE DEF before, e
    <3>2. QED
      BY <1>3, <2>3, <3>1
  <2>7. Told(joined(h, a), v, form) /\ Reads(h, a)
    BY <2>2
  <2> HIDE DEF e, v, w, before, a, b
  <2>8. Told(joined(h, b), w, form) /\ Reads(h, b)
    <3>1. CASE e.command = i
      <4>1. v.status = "ROWS" /\ e.rows \in {<<>>, <<v.rows + 1>>}
            /\ w = [status |-> e.status, rows |-> v.rows + Len(e.rows)]
        BY <2>5, <3>1 DEF Steps
      <4>2. b = add_to_query_state(a, e.status, e.rows)
        BY <2>6, <3>1
      <4>3. QED
        BY <2>3, <2>4, <2>7, <4>1, <4>2, AnswerGetsOn
    <3>2. CASE e.command # i
      <4>1. w = v /\ b = a
        BY <2>5, <2>6, <3>2 DEF Steps
      <4>2. QED
        BY <2>7, <4>1
    <3>3. QED
      BY <3>1, <3>2
  <2>9. OK(n)
    BY <2>8 DEF b, w
  <2>10. QED
    BY <2>1, <2>9
<1> HIDE DEF T
<1>6. 0 .. L \subseteq T
  BY <1>3, <1>4, <1>5, StepByStep
<1>7. L \in T
  BY <1>3, <1>6
<1>8. OK(L)
  BY <1>7 DEF T
<1>9. QED
  BY <1>1, <1>2, <1>8

\* Whatever entries come, what was read of the answer was told.
LEMMA AddedIsRead ==
  ASSUME NEW answers \in Seq(Answer), NEW entries \in Seq(Entry), NEW i \in DOMAIN answers,
         NEW h, Reads(h, answers[i])
  PROVE  Reads(h, added(answers, entries)[i])
<1> DEFINE L == Len(entries)
<1>1. PICK g \in [0 .. L -> [1 .. Len(answers) -> Answer]] :
        /\ g[0] = answers
        /\ \A n \in 1 .. L :
             g[n] = [g[n - 1] EXCEPT ![entries[n].command] =
                       add_to_query_state(@, entries[n].status, entries[n].rows)]
        /\ g[L] = added(answers, entries)
  BY AddedInSteps
<1>2. L \in Nat /\ i \in 1 .. Len(answers) /\ \A n \in 1 .. L : entries[n] \in Entry
  OBVIOUS
<1> DEFINE T == {n \in 0 .. L : Reads(h, g[n][i])}
<1> HIDE DEF L
<1>3. 0 \in T
  BY <1>1, <1>2
<1>4. ASSUME NEW n \in 1 .. L, n - 1 \in T PROVE n \in T
  <2>1. n - 1 \in 0 .. L /\ n \in 0 .. L
    BY <1>2
  <2> DEFINE e == entries[n]
             before == g[n - 1]
             a == before[i]
             b == g[n][i]
             more == add_to_query_state(a, e.status, e.rows)
  <2>2. e \in Entry /\ before \in [1 .. Len(answers) -> Answer]
    BY <1>1, <1>2, <2>1
  <2>3. a \in Answer
    BY <1>2, <2>2
  <2>4. b = IF e.command = i THEN more ELSE a
    <3>1. g[n] = [before EXCEPT ![e.command] = add_to_query_state(@, e.status, e.rows)]
      BY <1>1
    <3> HIDE DEF before, e
    <3>2. QED
      BY <1>2, <2>2, <3>1
  <2>5. Reads(h, a)
    BY <1>4
  <2> HIDE DEF e, before, a, b, more
  <2>6. Reads(h, more)
    BY <2>2, <2>3, <2>5, EntryIsRead DEF more
  <2>7. Reads(h, b)
    BY <2>4, <2>5, <2>6
  <2>8. QED
    BY <2>1, <2>7 DEF b
<1> HIDE DEF T
<1>5. 0 .. L \subseteq T
  BY <1>2, <1>3, <1>4, StepByStep
<1>6. L \in T
  BY <1>2, <1>5
<1>7. QED
  BY <1>1, <1>6 DEF T

\* A progress is not beyond what the provider's user gave.
Within(t, g) ==
  /\ t.rows <= g.rows
  /\ t.status # "ROWS" => g.status = t.status
  /\ t.status = "DONE" => g.rows = t.rows

\* The answer x has what the user gave, g, after v, which is in the buffer or was
\* sent; what comes after the cancel is not kept.
Rest(v, x, g, gone) ==
  /\ IF x.was_read THEN x.rows = <<>> /\ v.status = x.status ELSE v.status = "ROWS"
  /\ \A j \in DOMAIN x.rows : x.rows[j] = v.rows + j
  /\ Within([status |-> x.status, rows |-> v.rows + Len(x.rows)], g)
  /\ ~gone => g.status = x.status /\ (x.status = "ROWS" => g.rows = v.rows + Len(x.rows))

\* What is told is what was given.
Given(o, g, form) ==
  /\ form # "torn" => /\ Increasing(o.rows, g.rows)
                      /\ o.status = "DONE" => g.status = "DONE"
  /\ form = "exact" => /\ \A j \in DOMAIN o.rows : o.rows[j] = j
                       /\ o.status = "DONE" => Len(o.rows) = g.rows

LEMMA RestIsWithin ==
  ASSUME NEW v \in Progress, NEW x \in Answer, NEW g \in Progress, NEW gone, Rest(v, x, g, gone)
  PROVE  Within(v, g)
<1> DEFINE n == Len(x.rows)
           z == [status |-> x.status, rows |-> v.rows + n]
<1>1. n \in Nat /\ v.rows \in Nat /\ g.rows \in Nat
  BY DEF Answer, Progress
<1>2. Within(z, g)
  BY DEF Rest
<1>3. z.rows = v.rows + n /\ z.status = x.status
  OBVIOUS
<1>4. x.was_read => n = 0 /\ v.status = x.status
  BY DEF Rest
<1>5. ~x.was_read => v.status = "ROWS"
  BY DEF Rest
<1> HIDE DEF n, z
<1>6. v.rows <= g.rows
  BY <1>1, <1>2, <1>3 DEF Within
<1>7. CASE x.was_read
  BY <1>1, <1>2, <1>3, <1>4, <1>6, <1>7 DEF Within
<1>8. CASE ~x.was_read
  BY <1>5, <1>6, <1>8 DEF Within
<1>9. QED
  BY <1>7, <1>8

LEMMA WithinBefore ==
  ASSUME NEW u \in Progress, NEW v \in Progress, NEW g \in Progress, GoesOn(u, v), Within(v, g)
  PROVE  Within(u, g)
  BY DEF GoesOn, Within, Progress

\* The user gives more.
LEMMA WithinMore ==
  ASSUME NEW t \in Progress, NEW g \in Progress, g.status = "ROWS", Within(t, g),
         NEW status, NEW n \in Nat
  PROVE  Within(t, [status |-> status, rows |-> g.rows + n])
  BY DEF Within, Progress

LEMMA IncreasingTo ==
  ASSUME NEW rows \in Seq(Nat), NEW m \in Nat, NEW n \in Nat, m <= n, Increasing(rows, m)
  PROVE  Increasing(rows, n)
<1> SUFFICES ASSUME NEW j \in DOMAIN rows
             PROVE  rows[j] <= n /\ (j > 1 => rows[j - 1] < rows[j])
  BY DEF Increasing
<1>1. rows[j] \in Nat
  OBVIOUS
<1>2. rows[j] <= m /\ (j > 1 => rows[j - 1] < rows[j])
  BY DEF Increasing
<1>3. QED
  BY <1>1, <1>2

LEMMA ToldIsGiven ==
  ASSUME NEW o \in Outcome, NEW t \in Progress, NEW g \in Progress, NEW form,
         Told(o, t, form), Within(t, g)
  PROVE  Given(o, g, form)
<1>1. t.rows \in Nat /\ g.rows \in Nat /\ t.rows <= g.rows /\ o.rows \in Seq(Nat)
  BY DEF Within, Progress, Outcome
<1>2. form # "torn" => Increasing(o.rows, t.rows)
  BY DEF Told
<1>3. form # "torn" => Increasing(o.rows, g.rows)
  BY <1>1, <1>2, IncreasingTo
<1>4. form # "torn" /\ o.status = "DONE" =>
        g.status = "DONE" /\ t.status = "DONE" /\ g.rows = t.rows
  BY DEF Told, Within
<1>5. form = "exact" => Complete(o.rows, t.rows)
  BY DEF Told
<1>6. QED
  BY <1>3, <1>4, <1>5 DEF Given, Complete

\* A part of an answer is dropped.
LEMMA ToldBefore ==
  ASSUME NEW o \in Outcome, NEW t \in Progress, NEW u \in Progress, NEW form,
         form # "torn", Told(o, t, form), GoesOn(t, u)
  PROVE  Told(o, u, "hole")
<1>1. t.rows \in Nat /\ u.rows \in Nat /\ t.rows <= u.rows /\ o.rows \in Seq(Nat)
  BY DEF GoesOn, Progress, Outcome
<1>2. Increasing(o.rows, t.rows)
  BY DEF Told
<1>3. Increasing(o.rows, u.rows)
  BY <1>1, <1>2, IncreasingTo
<1>4. o.status # "ROWS" => u.status = o.status
  BY DEF Told, GoesOn
<1>5. QED
  BY <1>3, <1>4 DEF Told

\* An answer of which the news are in the buffer.
read_one(a) == IF has_news(a) THEN [a EXCEPT !.was_read = TRUE, !.rows = <<>>] ELSE a

LEMMA ReadOneIsTyped ==
  ASSUME NEW a \in Answer
  PROVE  read_one(a) \in Answer
<1>1. <<>> \in Seq(Nat)
  OBVIOUS
<1>2. QED
  BY <1>1 DEF Answer, read_one

LEMMA ReadAllIsReadOne ==
  ASSUME NEW answers \in Seq(Answer), NEW i \in DOMAIN answers
  PROVE  read_all(answers)[i] = read_one(answers[i])
  BY DEF read_all, read_one

\* The entries of an answer say the rest of it.
LEMMA EntriesSayTheRest ==
  ASSUME NEW i \in Nat, NEW a \in Answer, NEW v \in Progress, NEW g \in Progress, NEW gone,
         Rest(v, a, g, gone)
  PROVE  \E w \in Progress : Goes(entries_of(i, a), i, v, w) /\ Rest(w, read_one(a), g, gone)
<1> DEFINE L == Len(a.rows)
           w == [status |-> a.status, rows |-> v.rows + L]
           x == [a EXCEPT !.was_read = TRUE, !.rows = <<>>]
<1>1. /\ a.rows \in Seq(Nat) /\ L \in Nat /\ a.status \in Statuses /\ v.rows \in Nat /\ g.rows \in Nat
      /\ v.status \in Statuses
  BY DEF Answer, Progress
<1>2. /\ \A j \in DOMAIN a.rows : a.rows[j] = v.rows + j
      /\ Within(w, g)
      /\ ~gone => g.status = a.status /\ (a.status = "ROWS" => g.rows = v.rows + L)
      /\ ~a.was_read => v.status = "ROWS"
  BY DEF Rest
<1>3. /\ x.was_read = TRUE /\ x.rows = <<>> /\ x.status = a.status
      /\ has_news(a) => read_one(a) = x
  BY DEF Answer, read_one
<1>4. CASE ~has_news(a)
  <2>1. entries_of(i, a) = <<>> /\ read_one(a) = a
    BY <1>4 DEF entries_of, read_one
  <2>2. QED
    BY <2>1, NothingGoes
<1>5. CASE has_news(a) /\ (a.status = "ERROR" \/ a.rows = <<>>)
  <2> DEFINE e == [command |-> i, status |-> a.status, rows |-> <<>>]
             z == [status |-> a.status, rows |-> v.rows]
  <2>1. v.status = "ROWS"
    BY <1>2, <1>5 DEF has_news
  <2>2. e \in Entry /\ z \in Progress /\ e.command = i /\ e.rows = <<>> /\ e.status = a.status
    <3>1. <<>> \in Seq(Nat)
      OBVIOUS
    <3>2. QED
      BY <1>1, <3>1 DEF Entry, Progress
  <2>3. z.status = a.status /\ z.rows = v.rows
    OBVIOUS
  <2>4. entries_of(i, a) = <<e>>
    BY <1>5 DEF entries_of
  <2> HIDE DEF e, z
  <2>5. Steps(e, i, v, z)
    <3>1. Len(<<>>) = 0
      OBVIOUS
    <3>2. z = [status |-> e.status, rows |-> v.rows + Len(e.rows)]
      BY <1>1, <2>2, <3>1 DEF z
    <3>3. QED
      BY <2>1, <2>2, <3>2 DEF Steps
  <2>6. <<v, z>> \in ByEntries(i)[e]
    BY <2>2, <2>5 DEF ByEntries
  <2>7. Goes(<<e>>, i, v, z)
    BY <2>2, <2>6, OneLeads DEF Goes
  <2>8. Rest(z, x, g, gone)
    <3>1. Len(x.rows) = 0
      BY <1>3
    <3>2. Within([status |-> x.status, rows |-> z.rows + Len(x.rows)], g)
      <4> DEFINE y == [status |-> x.status, rows |-> z.rows + Len(x.rows)]
      <4>1. y.status = a.status /\ y.rows = v.rows
        BY <1>1, <1>3, <2>3, <3>1
      <4> HIDE DEF y
      <4>2. w.status = a.status /\ w.rows = v.rows + L
        OBVIOUS
      <4> HIDE DEF w
      <4>3. a.status # "ERROR" => L = 0
        BY <1>5
      <4> HIDE DEF L
      <4>4. Within(y, g)
        BY <1>1, <1>2, <4>1, <4>2, <4>3 DEF Within, Statuses
      <4>5. QED
        BY <4>4 DEF y
    <3>3. a.status # "ROWS"
      BY <1>5 DEF has_news
    <3> HIDE DEF x
    <3>4. QED
      BY <1>2, <1>3, <2>3, <3>2, <3>3 DEF Rest
  <2>9. QED
    BY <1>3, <1>5, <2>2, <2>4, <2>7, <2>8
<1>6. CASE has_news(a) /\ ~(a.status = "ERROR" \/ a.rows = <<>>)
  <2> DEFINE s == entries_of(i, a)
             e(k) == [command |-> i, status |-> IF k = L THEN a.status ELSE "ROWS",
                      rows |-> <<a.rows[k]>>]
             f == [k \in 0 .. L |-> [status |-> IF k = L THEN a.status ELSE "ROWS",
                                     rows |-> v.rows + k]]
  <2>1. v.status = "ROWS" /\ L # 0
    BY <1>1, <1>2, <1>6 DEF has_news
  <2>2. s = [k \in 1 .. L |-> e(k)] /\ s \in Seq(Entry)
    BY <1>6, EntriesAreTyped DEF entries_of
  <2>3. Len(s) = L /\ \A k \in 1 .. L : s[k] = e(k) /\ s[k] \in Entry
    <3> HIDE DEF e, L, s
    <3>1. DOMAIN s = 1 .. L
      BY <2>2
    <3>2. Len(s) = L
      BY <1>1, <2>2, <3>1
    <3>3. \A k \in 1 .. L : s[k] = e(k)
      BY <2>2
    <3>4. \A k \in 1 .. L : s[k] \in Entry
      BY <2>2, <3>2
    <3>5. QED
      BY <3>2, <3>3, <3>4
  <2>4. f \in [0 .. L -> Progress]
    BY <1>1 DEF Progress, Statuses
  <2>5. f[0] = v /\ f[L] = w
    <3>1. 0 \in 0 .. L /\ L \in 0 .. L /\ 0 # L
      BY <1>1, <2>1
    <3>2. f[0] = [status |-> "ROWS", rows |-> v.rows + 0]
      BY <3>1
    <3>3. v = [status |-> v.status, rows |-> v.rows]
      BY DEF Progress
    <3>4. v.rows + 0 = v.rows
      BY <1>1
    <3>5. QED
      BY <2>1, <3>1, <3>2, <3>3, <3>4
  <2>6. ASSUME NEW k \in 1 .. L PROVE <<f[k - 1], f[k]>> \in ByEntries(i)[s[k]]
    <3> DEFINE y == f[k - 1]
               z == f[k]
               row == a.rows[k]
    <3>1. k \in 0 .. L /\ k - 1 \in 0 .. L /\ k - 1 # L
      BY <1>1
    <3>2. y.status = "ROWS" /\ y.rows = v.rows + (k - 1) /\ y \in Progress
      BY <2>4, <3>1
    <3>3. z = [status |-> IF k = L THEN a.status ELSE "ROWS", rows |-> v.rows + k] /\ z \in Progress
      BY <2>4, <3>1
    <3>4. row = v.rows + k /\ row \in Nat
      BY <1>1, <1>2
    <3>5. /\ s[k] \in Entry /\ s[k].command = i /\ s[k].rows = <<row>>
          /\ s[k].status = IF k = L THEN a.status ELSE "ROWS"
      <4>1. s[k] = e(k) /\ s[k] \in Entry
        BY <2>3
      <4> HIDE DEF s
      <4>2. QED
        BY <4>1
    <3> HIDE DEF f, e, y, z, row, L, s
    <3>6. row = y.rows + 1 /\ y.rows + 1 = v.rows + k
      BY <1>1, <3>2, <3>4
    <3>7. Len(<<row>>) = 1
      OBVIOUS
    <3>8. Steps(s[k], i, y, z)
      <4>1. s[k].rows \in {<<>>, <<y.rows + 1>>}
        BY <3>5, <3>6
      <4>2. z = [status |-> s[k].status, rows |-> y.rows + Len(s[k].rows)]
        BY <3>3, <3>5, <3>6, <3>7
      <4>3. QED
        BY <3>2, <3>5, <4>1, <4>2 DEF Steps
    <3>9. <<y, z>> \in ByEntries(i)[s[k]]
      BY <3>2, <3>3, <3>5, <3>8 DEF ByEntries
    <3>10. QED
      BY <3>9 DEF y, z
  <2> HIDE DEF f, e, s
  <2>7. Goes(s, i, v, w)
    BY <2>3, <2>4, <2>5, <2>6 DEF Goes, Leads
  <2>8. w \in Progress /\ w.status = a.status /\ w.rows = v.rows + L
    BY <1>1 DEF Progress
  <2>9. Rest(w, x, g, gone)
    <3>1. Len(x.rows) = 0
      BY <1>3
    <3>2. [status |-> x.status, rows |-> w.rows + Len(x.rows)] = w
      <4>1. w.rows + Len(x.rows) = v.rows + L
        BY <1>1, <2>8, <3>1
      <4>2. QED
        BY <1>3, <4>1 DEF w
    <3> HIDE DEF x, w, L
    <3>3. ~gone => g.status = x.status /\ (x.status = "ROWS" => g.rows = w.rows + Len(x.rows))
      <4>1. w.rows + Len(x.rows) = v.rows + L
        BY <1>1, <2>8, <3>1
      <4>2. QED
        BY <1>2, <1>3, <4>1
    <3>4. QED
      BY <1>2, <1>3, <2>8, <3>2, <3>3 DEF Rest
  <2>10. QED
    BY <1>3, <1>6, <2>7, <2>8, <2>9 DEF s
<1>7. QED
  BY <1>4, <1>5, <1>6

\* The entries of another command say nothing.
LEMMA EntriesOfAnother ==
  ASSUME NEW i, NEW k \in Nat, i # k, NEW a \in Answer, NEW v \in Progress
  PROVE  Goes(entries_of(k, a), i, v, v)
<1> DEFINE s == entries_of(k, a)
<1>1. s \in Seq(Entry)
  BY EntriesAreTyped
<1>2. \A n \in DOMAIN s : s[n].command = k
  <2>1. CASE ~has_news(a)
    <3>1. s = <<>>
      BY <2>1 DEF entries_of
    <3> HIDE DEF s
    <3>2. DOMAIN s = {}
      BY <3>1
    <3>3. QED
      BY <3>2
  <2>2. CASE has_news(a) /\ (a.status = "ERROR" \/ a.rows = <<>>)
    <3> DEFINE e == [command |-> k, status |-> a.status, rows |-> <<>>]
    <3>1. s = <<e>> /\ e.command = k
      BY <2>2 DEF entries_of
    <3> HIDE DEF s, e
    <3>2. \A n \in DOMAIN s : s[n] = e
      BY <3>1
    <3>3. QED
      BY <3>1, <3>2
  <2>3. CASE has_news(a) /\ ~(a.status = "ERROR" \/ a.rows = <<>>)
    BY <2>3 DEF entries_of
  <2>4. QED
    BY <2>1, <2>2, <2>3
<1> HIDE DEF s
<1>3. ASSUME NEW n \in 1 .. Len(s) PROVE <<v, v>> \in ByEntries(i)[s[n]]
  <2>1. n \in DOMAIN s /\ s[n] \in Entry
    BY <1>1
  <2>2. Steps(s[n], i, v, v)
    BY <1>2, <2>1 DEF Steps
  <2>3. QED
    BY <2>1, <2>2 DEF ByEntries
<1>4. Leads(ByEntries(i), s, v, v)
  BY <1>1, <1>3, LeadsNowhere
<1>5. QED
  BY <1>4 DEF Goes, s

\* Filling the buffer changes nothing of what is said.
LEMMA FilledSaysTheSame ==
  ASSUME NEW r, NEW n, ResponseOK(r, n), NEW i \in DOMAIN r.answers,
         NEW u, NEW v \in Progress, NEW g \in Progress, NEW gone,
         Goes(r.buffer, i, u, v), Rest(v, r.answers[i], g, gone)
  PROVE  \E w \in Progress : /\ Goes(fill_response_buffer(r).buffer, i, u, w)
                             /\ Rest(w, fill_response_buffer(r).answers[i], g, gone)
<1> DEFINE A == r.answers
           L == Len(A)
<1>1. PICK b \in [0 .. L -> Seq(Entry)] :
        /\ b[0] = r.buffer
        /\ \A k \in 1 .. L : b[k] = b[k - 1] \o entries_of(k, A[k])
        /\ fill_response_buffer(r) = [r EXCEPT !.buffer = b[L], !.answers = read_all(A)]
  BY FilledInSteps
<1>2. A \in Seq(Answer) /\ r \in Response
  BY DEF ResponseOK, Response
<1>3. L \in Nat /\ i \in 1 .. L /\ \A k \in 1 .. L : A[k] \in Answer /\ k \in Nat
  BY <1>2
<1>4. fill_response_buffer(r).buffer = b[L] /\ fill_response_buffer(r).answers = read_all(A)
  <2> DEFINE z == b[L]
             y == read_all(A)
  <2> HIDE DEF z, y
  <2>1. fill_response_buffer(r) = [r EXCEPT !.buffer = z, !.answers = y]
    BY <1>1 DEF z, y
  <2>2. fill_response_buffer(r).buffer = z /\ fill_response_buffer(r).answers = y
    BY <1>2, <2>1 DEF Response
  <2>3. QED
    BY <2>2 DEF z, y
<1>5. PICK w \in Progress : Goes(entries_of(i, A[i]), i, v, w) /\ Rest(w, read_one(A[i]), g, gone)
  BY <1>3, EntriesSayTheRest
<1> DEFINE OK(k) == Goes(b[k], i, u, IF k < i THEN v ELSE w)
           T == {k \in 0 .. L : OK(k)}
<1> HIDE DEF L, A
<1>6. 0 \in T
  <2>1. 0 \in 0 .. L /\ 0 < i
    BY <1>3
  <2>2. QED
    BY <1>1, <2>1
<1>7. ASSUME NEW k \in 1 .. L, k - 1 \in T PROVE k \in T
  <2>1. k \in 0 .. L /\ k - 1 \in 0 .. L /\ i \in Nat
    BY <1>3
  <2> DEFINE x == b[k - 1]
             y == entries_of(k, A[k])
             t0 == IF k - 1 < i THEN v ELSE w
             t1 == IF k < i THEN v ELSE w
  <2>2. x \in Seq(Entry) /\ b[k] = x \o y
    BY <1>1, <2>1
  <2>3. y \in Seq(Entry)
    BY <1>3, EntriesAreTyped
  <2>4. Goes(x, i, u, t0)
    BY <1>7
  <2>5. Goes(y, i, t0, t1)
    <3>1. CASE k = i
      <4>1. k - 1 < i /\ ~(k < i)
        BY <2>1, <3>1
      <4>2. t0 = v /\ t1 = w
        BY <4>1
      <4>3. QED
        BY <1>5, <3>1, <4>2
    <3>2. CASE k # i
      <4>1. (k < i) <=> (k - 1 < i)
        BY <2>1, <3>2
      <4>2. t0 = t1 /\ t1 \in Progress
        BY <4>1
      <4> HIDE DEF t0, t1
      <4>3. QED
        BY <1>3, <3>2, <4>2, EntriesOfAnother
    <3>3. QED
      BY <3>1, <3>2
  <2> HIDE DEF x, y, t0, t1
  <2>6. Goes(x \o y, i, u, t1)
    BY <2>2, <2>3, <2>4, <2>5, LeadsJoined DEF Goes
  <2>7. OK(k)
    BY <2>2, <2>6 DEF t1
  <2>8. QED
    BY <2>1, <2>7
<1> HIDE DEF T
<1>8. 0 .. L \subseteq T
  BY <1>3, <1>6, <1>7, StepByStep
<1>9. L \in T /\ ~(L < i)
  BY <1>3, <1>8
<1>10. Goes(b[L], i, u, w)
  BY <1>9 DEF T
<1>11. read_all(A)[i] = read_one(A[i])
  BY <1>2, ReadAllIsReadOne DEF A
<1>12. QED
  BY <1>4, <1>5, <1>10, <1>11

-----------------------------------------------------------------------------
(* An answer on its way: what the user was told, what he can read, what the *)
(* messages bring, what is in the provider's buffer and what is left of the *)
(* answer there follow each other, and are together what was given.         *)

Commands(q) == 1 .. asked[q].commands

\* What the asker has of the answer to a command.
got(q, i) ==
  IF q \in DOMAIN queries THEN joined(heard[q][i], queries[q].answers[i]) ELSE heard[q][i]

\* From u on, the response has what was given.
Holds(r, i, u, g) ==
  IF r.answers = <<>> THEN Within(u, g)
  ELSE \E v \in Progress : Goes(r.buffer, i, u, v) /\ Rest(v, r.answers[i], g, r.was_cancelled)

Provided(q, i, u) ==
  IF q \in DOMAIN responses THEN Holds(responses[q], i, u, given[q][i]) ELSE Within(u, given[q][i])

Tracked(q, i) ==
  \E t, u \in Progress :
    /\ Told(got(q, i), t, text[q])
    /\ Comes(to_asker[queries[q].connection], q, i, t, u)
    /\ Provided(q, i, u)

\* The answers that are waited for are on their way.
Running ==
  \A q \in DOMAIN queries : queries[q].response = "Running" =>
    /\ queries[q].connection \in asker_up
    /\ \A i \in Commands(q) : Tracked(q, i)

\* What the asker has of any answer was given.
Sound == \A q \in DOMAIN asked : \A i \in Commands(q) : Given(got(q, i), given[q][i], text[q])

\* What was read was told.
Read == \A q \in DOMAIN queries : \A i \in Commands(q) : Reads(heard[q][i], queries[q].answers[i])

\* What has ended has the last status of every command.
Ended ==
  /\ failed \cap ended = {}
  /\ failed \cap DOMAIN queries = {}
  /\ \A q \in ended : all_final(heard[q])

Exact == Running /\ Sound /\ Read /\ Ended

\* A query keeps the connection and the id of its service, at, wherever it is.
ToProvider(at, c) == {m \in ProviderMessages(DOMAIN asked) : at[m.query] = <<c, m.id>>}

ToAsker(at, c) ==
  {m \in AskerMessages :
     m.kind \in {"r", "R", "E"} => m.query \in DOMAIN asked /\ at[m.query] = <<c, m.id>>}

QueriesFollow(at) ==
  \A q \in DOMAIN queries : at[q] = <<queries[q].connection, queries[q].service_id>>

ResponsesFollow(at) ==
  \A q \in DOMAIN responses : at[q] = <<responses[q].connection, responses[q].service_id>>

MessagesFollow(at) ==
  \A c \in Connections : to_provider[c] \in Seq(ToProvider(at, c)) /\ to_asker[c] \in Seq(ToAsker(at, c))

OneTrace == \E at : QueriesFollow(at) /\ ResponsesFollow(at) /\ MessagesFollow(at)

\* A part of the text of q.
IsPart(m, q) == m.kind \in {"q", "Q"} /\ m.query = q

IsLast(m, q) == m.kind = "Q" /\ m.query = q

AllSent(q) == q \in DOMAIN queries => queries[q].unsent = 0

NoneComes(q) == \A c \in Connections : \A k \in 1 .. Len(to_provider[c]) : ~IsPart(to_provider[c][k], q)

Unanswered == [status |-> "ROWS", rows |-> 0]

\* The provider has the whole of q, or its user has answered.
IsBegun(q) ==
  \/ q \in DOMAIN responses /\ responses[q].completed
  \/ \E i \in Commands(q) : given[q][i] # Unanswered

OnceBegun == \A q \in DOMAIN asked : IsBegun(q) => AllSent(q) /\ NoneComes(q)

\* Nothing of a query comes after its last part.
LastIsLast(c, q) ==
  \A k \in 1 .. Len(to_provider[c]) : IsLast(to_provider[c][k], q) =>
    AllSent(q) /\ \A j \in k + 1 .. Len(to_provider[c]) : ~IsPart(to_provider[c][j], q)

LastParts == \A c \in Connections : \A q \in DOMAIN asked : LastIsLast(c, q)

NoAnswerYet ==
  \A q \in DOMAIN responses :
    IF responses[q].answers = <<>> THEN responses[q].buffer = <<>> ELSE responses[q].completed

Traced == OneTrace /\ OnceBegun /\ LastParts /\ NoAnswerYet

LEMMA InitExact == Init => Traced /\ Exact
<1> SUFFICES ASSUME Init PROVE Traced /\ Exact
  OBVIOUS
<1>1. /\ DOMAIN queries = {} /\ DOMAIN responses = {} /\ DOMAIN asked = {}
      /\ failed = {} /\ ended = {}
      /\ \A c \in Connections : to_provider[c] = <<>> /\ to_asker[c] = <<>>
  BY DEF Init, Empty
<1>2. Exact
  BY <1>1 DEF Exact, Running, Sound, Read, Ended
<1>3. OnceBegun /\ LastParts /\ NoAnswerYet
  BY <1>1 DEF OnceBegun, LastParts, NoAnswerYet
<1>4. OneTrace
  <2>1. QueriesFollow(Empty) /\ ResponsesFollow(Empty)
    BY <1>1 DEF QueriesFollow, ResponsesFollow
  <2>2. \A S : <<>> \in Seq(S)
    OBVIOUS
  <2>3. MessagesFollow(Empty)
    BY <1>1, <2>2 DEF MessagesFollow
  <2>4. QED
    BY <2>1, <2>3 DEF OneTrace
<1>5. QED
  BY <1>2, <1>3, <1>4 DEF Traced

\* The parts of the answers, and their types.
LEMMA CommandTypes ==
  ASSUME Typed, NEW q \in DOMAIN asked, NEW i \in Commands(q)
  PROVE  /\ asked[q].commands \in Nat /\ i \in Nat
         /\ DOMAIN heard[q] = Commands(q) /\ DOMAIN given[q] = Commands(q)
         /\ q \in DOMAIN heard /\ q \in DOMAIN given
         /\ heard[q][i] \in Outcome /\ given[q][i] \in Progress
         /\ q \in DOMAIN queries =>
              /\ queries[q] \in Query
              /\ queries[q].connection \in Connections
              /\ queries[q].answers \in Seq(Answer)
              /\ Len(queries[q].answers) = asked[q].commands
              /\ DOMAIN queries[q].answers = Commands(q)
              /\ queries[q].answers[i] \in Answer
         /\ got(q, i) \in Outcome
<1>1. asked[q].commands \in Nat /\ i \in Nat
  BY DEF Typed, AskedTyped, Commands
<1>2. /\ heard[q] \in [Commands(q) -> [status : Statuses, rows : Seq(Nat)]]
      /\ given[q] \in [Commands(q) -> [status : Statuses, rows : Nat]]
      /\ q \in DOMAIN heard /\ q \in DOMAIN given
  BY DEF Typed, AskedTyped, Commands
<1>3. heard[q][i] \in Outcome /\ given[q][i] \in Progress
  BY <1>2 DEF Outcome, Progress
<1>4. ASSUME q \in DOMAIN queries
      PROVE  /\ queries[q] \in Query
             /\ queries[q].connection \in Connections
             /\ queries[q].answers \in Seq(Answer)
             /\ Len(queries[q].answers) = asked[q].commands
             /\ DOMAIN queries[q].answers = Commands(q)
             /\ queries[q].answers[i] \in Answer
  <2>1. queries[q] \in Query /\ Len(queries[q].answers) = asked[q].commands
    BY <1>4 DEF Typed, QueriesTyped
  <2>2. queries[q].answers \in Seq(Answer) /\ queries[q].connection \in Connections
    BY <2>1 DEF Query
  <2> DEFINE answers == queries[q].answers
             n == asked[q].commands
  <2>3. answers \in Seq(Answer) /\ Len(answers) = n /\ i \in 1 .. n
    BY <2>1, <2>2 DEF Commands
  <2> HIDE DEF answers, n
  <2>4. DOMAIN answers = 1 .. n /\ answers[i] \in Answer
    BY <2>3
  <2>5. QED
    BY <2>1, <2>2, <2>4 DEF answers, n, Commands
<1>5. got(q, i) \in Outcome
  <2>1. CASE q \in DOMAIN queries
    <3> DEFINE a == queries[q].answers[i]
               h == heard[q][i]
    <3>1. a \in Answer /\ h \in Outcome
      BY <1>3, <1>4, <2>1
    <3>2. got(q, i) = joined(h, a)
      BY <2>1 DEF got
    <3> HIDE DEF a, h
    <3>3. a.rows \in Seq(Nat) /\ h.rows \in Seq(Nat) /\ a.status \in Statuses
      BY <3>1 DEF Answer, Outcome
    <3>4. h.rows \o a.rows \in Seq(Nat)
      BY <3>3
    <3>5. QED
      BY <3>2, <3>3, <3>4 DEF joined, Outcome
  <2>2. CASE q \notin DOMAIN queries
    BY <1>3, <2>2 DEF got
  <2>3. QED
    BY <2>1, <2>2
<1>6. QED
  BY <1>1, <1>2, <1>3, <1>4, <1>5

\* What the user was told is as sound as what he will have been.
LEMMA HeardIsGiven ==
  ASSUME NEW h \in Outcome, NEW a \in Answer, NEW g \in Progress, NEW form,
         Reads(h, a), Given(joined(h, a), g, form)
  PROVE  Given(h, g, form)
<1> DEFINE x == h.rows
           y == a.rows
           z == x \o y
<1>1. x \in Seq(Nat) /\ y \in Seq(Nat) /\ Len(x) \in Nat /\ Len(y) \in Nat
  BY DEF Outcome, Answer
<1>2. joined(h, a).rows = z /\ joined(h, a).status = a.status
  BY DEF joined
<1> HIDE DEF x, y, z
<1>3. /\ z \in Seq(Nat) /\ Len(z) = Len(x) + Len(y)
      /\ \A i \in 1 .. Len(x) + Len(y) : z[i] = IF i <= Len(x) THEN x[i] ELSE y[i - Len(x)]
  BY <1>1, ConcatProperties DEF z
<1>4. \A j \in DOMAIN x : j \in DOMAIN z /\ z[j] = x[j]
  <2> SUFFICES ASSUME NEW j \in DOMAIN x PROVE j \in DOMAIN z /\ z[j] = x[j]
    OBVIOUS
  <2>1. j \in 1 .. Len(x) /\ DOMAIN z = 1 .. Len(x) + Len(y)
    BY <1>1, <1>3
  <2>2. j \in 1 .. Len(x) + Len(y) /\ j <= Len(x)
    BY <1>1, <2>1
  <2>3. QED
    BY <1>3, <2>1, <2>2
<1>5. ASSUME form # "torn" PROVE Increasing(x, g.rows)
  <2> SUFFICES ASSUME NEW j \in DOMAIN x PROVE x[j] <= g.rows /\ (j > 1 => x[j - 1] < x[j])
    BY DEF Increasing
  <2>1. z[j] <= g.rows /\ (j > 1 => z[j - 1] < z[j])
    BY <1>2, <1>4, <1>5 DEF Given, Increasing
  <2>2. j > 1 => j - 1 \in DOMAIN x
    BY <1>1
  <2>3. QED
    BY <1>4, <2>1, <2>2
<1>6. h.status = "DONE" => a.was_read /\ a.rows = <<>> /\ a.status = "DONE"
  BY DEF Reads
<1>7. h.status = "DONE" => z = x
  BY <1>1, <1>6 DEF y, z
<1>8. form = "exact" => \A j \in DOMAIN x : x[j] = j
  BY <1>2, <1>4 DEF Given
<1>9. h.status = "DONE" => /\ form # "torn" => g.status = "DONE"
                           /\ form = "exact" => Len(x) = g.rows
  BY <1>2, <1>6, <1>7 DEF Given
<1>10. QED
  BY <1>5, <1>8, <1>9 DEF Given, x

LEMMA ExactIsExact ==
  ASSUME Typed, Exact
  PROVE  AnswersAreExact
<1>1. ASSUME NEW q \in DOMAIN heard, NEW i \in DOMAIN heard[q]
      PROVE  Given(heard[q][i], given[q][i], text[q])
  <2>1. q \in DOMAIN asked /\ DOMAIN heard[q] = Commands(q)
    BY DEF Typed, AskedTyped, Commands
  <2>2. i \in Commands(q)
    BY <2>1
  <2>3. Given(got(q, i), given[q][i], text[q])
    BY <2>1, <2>2 DEF Exact, Sound
  <2>4. CASE q \in DOMAIN queries
    <3>1. Reads(heard[q][i], queries[q].answers[i])
      BY <2>2, <2>4 DEF Exact, Read
    <3>2. got(q, i) = joined(heard[q][i], queries[q].answers[i])
      BY <2>4 DEF got
    <3> DEFINE h == heard[q][i]
               a == queries[q].answers[i]
               g == given[q][i]
               form == text[q]
    <3>3. h \in Outcome /\ a \in Answer /\ g \in Progress
      BY <2>1, <2>2, <2>4, CommandTypes
    <3>4. Reads(h, a) /\ Given(joined(h, a), g, form)
      BY <2>3, <3>1, <3>2
    <3> HIDE DEF h, a, g, form
    <3>5. Given(h, g, form)
      BY <3>3, <3>4, HeardIsGiven
    <3>6. QED
      BY <3>5 DEF h, g, form
  <2>5. CASE q \notin DOMAIN queries
    BY <2>3, <2>5 DEF got
  <2>6. QED
    BY <2>4, <2>5
<1>2. AnswersAreGiven
  BY <1>1 DEF AnswersAreGiven, Given, Increasing
<1>3. ASSUME NEW q \in ended, q \in DOMAIN queries PROVE news(q) = {}
  <2>1. q \in DOMAIN asked /\ all_final(heard[q])
    BY DEF Typed, AskedTyped, Exact, Ended
  <2>2. ASSUME NEW i \in DOMAIN queries[q].answers PROVE ~has_news(queries[q].answers[i])
    <3> DEFINE n == asked[q].commands
               answers == queries[q].answers
    <3>1. answers \in Seq(Answer) /\ Len(answers) = n
      BY <1>3 DEF Typed, QueriesTyped, Query
    <3>2. i \in DOMAIN answers
      OBVIOUS
    <3> HIDE DEF n, answers
    <3>3. i \in 1 .. n
      BY <3>1, <3>2
    <3>4. i \in Commands(q)
      BY <3>3 DEF n, Commands
    <3>5. DOMAIN heard[q] = Commands(q)
      BY <2>1, <3>4, CommandTypes
    <3>6. heard[q][i].status # "ROWS"
      BY <2>1, <3>4, <3>5 DEF all_final
    <3>7. Reads(heard[q][i], queries[q].answers[i])
      BY <1>3, <3>4 DEF Exact, Read
    <3>8. QED
      BY <3>6, <3>7 DEF Reads, has_news
  <2>3. QED
    BY <2>2 DEF news
<1>4. EndIsTheLast
  BY <1>3 DEF EndIsTheLast, Exact, Ended
<1>5. QED
  BY <1>2, <1>4 DEF AnswersAreExact

\* What is sent over a connection, or lost on it, is what comes over it.
LEMMA SendingKeeps ==
  ASSUME NEW P, NEW channel, DOMAIN channel = Connections,
         \A d \in Connections : channel[d] \in Seq(P[d]),
         NEW c \in Connections, NEW m \in P[c], NEW up, NEW after, Sending(channel, after, c, up, m)
  PROVE  \A d \in Connections : after[d] \in Seq(P[d])
<1>1. CASE c \in up
  <2>1. after = [channel EXCEPT ![c] = Append(channel[c], m)]
    BY <1>1 DEF Sending
  <2>2. Append(channel[c], m) \in Seq(P[c])
    <3> DEFINE s == channel[c]
               S == P[c]
    <3>1. s \in Seq(S) /\ m \in S
      OBVIOUS
    <3> HIDE DEF s, S
    <3>2. Append(s, m) \in Seq(S)
      BY <3>1
    <3>3. QED
      BY <3>2 DEF s, S
  <2>3. QED
    BY <2>1, <2>2
<1>2. CASE c \notin up
  BY <1>2 DEF Sending
<1>3. QED
  BY <1>1, <1>2

\* The first message of a channel is taken, or all of them are lost.
Shorter(channel, after) ==
  \/ after = channel
  \/ \E c \in Connections : \E s :
       /\ s = <<>> \/ (s = Tail(channel[c]) /\ channel[c] # <<>>)
       /\ after = [channel EXCEPT ![c] = s]

LEMMA ShorterKeeps ==
  ASSUME NEW P, NEW channel, DOMAIN channel = Connections,
         \A d \in Connections : channel[d] \in Seq(P[d]), NEW after, Shorter(channel, after)
  PROVE  \A d \in Connections : after[d] \in Seq(P[d])
<1>1. CASE after = channel
  BY <1>1
<1>2. CASE after # channel
  <2>1. PICK c \in Connections : \E s :
          /\ s = <<>> \/ (s = Tail(channel[c]) /\ channel[c] # <<>>)
          /\ after = [channel EXCEPT ![c] = s]
    BY <1>2 DEF Shorter
  <2>2. PICK s : /\ s = <<>> \/ (s = Tail(channel[c]) /\ channel[c] # <<>>)
                 /\ after = [channel EXCEPT ![c] = s]
    BY <2>1
  <2>3. s \in Seq(P[c])
    <3> DEFINE t == channel[c]
               S == P[c]
    <3>1. t \in Seq(S) /\ (s = <<>> \/ (s = Tail(t) /\ t # <<>>))
      BY <2>2
    <3> HIDE DEF t, S
    <3>2. s \in Seq(S)
      <4>1. CASE s = <<>>
        BY <4>1
      <4>2. CASE s = Tail(t) /\ t # <<>>
        <5>1. Tail(t) \in Seq(S)
          BY <3>1, <4>2, Taken
        <5>2. QED
          BY <4>2, <5>1
      <4>3. QED
        BY <3>1, <4>1, <4>2
    <3>3. QED
      BY <3>2 DEF S
  <2>4. QED
    BY <2>2, <2>3
<1>3. QED
  BY <1>1, <1>2

\* What is left in a channel was there before, in the same order.
LEMMA ShorterHasNoMore ==
  ASSUME NEW S, NEW channel \in [Connections -> Seq(S)], NEW after, Shorter(channel, after),
         NEW d \in Connections
  PROVE  \E n \in 0 .. Len(channel[d]) :
           /\ Len(after[d]) \in Nat /\ n + Len(after[d]) <= Len(channel[d])
           /\ \A k \in 1 .. Len(after[d]) : after[d][k] = channel[d][k + n]
<1> DEFINE t == channel[d]
<1>1. t \in Seq(S) /\ Len(t) \in Nat
  OBVIOUS
<1>2. after[d] = t \/ after[d] = <<>> \/ (after[d] = Tail(t) /\ t # <<>>)
  BY DEF Shorter
<1> DEFINE u == after[d]
<1> HIDE DEF t, u
<1>3. u = t \/ u = <<>> \/ (u = Tail(t) /\ t # <<>>)
  BY <1>2 DEF u
<1>4. \E n \in 0 .. Len(t) :
        Len(u) \in Nat /\ n + Len(u) <= Len(t) /\ \A k \in 1 .. Len(u) : u[k] = t[k + n]
  <2>1. CASE u = t
    <3>1. 0 \in 0 .. Len(t) /\ 0 + Len(u) <= Len(t) /\ \A k \in 1 .. Len(u) : u[k] = t[k + 0]
      BY <1>1, <2>1
    <3>2. QED
      BY <1>1, <2>1, <3>1
  <2>2. CASE u = <<>>
    <3>1. Len(u) = 0
      BY <2>2
    <3>2. 0 \in 0 .. Len(t) /\ 0 + Len(u) <= Len(t) /\ \A k \in 1 .. Len(u) : u[k] = t[k + 0]
      BY <1>1, <3>1
    <3>3. QED
      BY <3>1, <3>2
  <2>3. CASE u = Tail(t) /\ t # <<>>
    <3>1. /\ Len(u) = Len(t) - 1 /\ Len(t) \in Nat \ {0}
          /\ \A k \in 1 .. Len(t) - 1 : u[k] = t[k + 1]
      BY <1>1, <2>3, Taken
    <3>2. 1 \in 0 .. Len(t) /\ 1 + Len(u) <= Len(t) /\ Len(u) \in Nat
      BY <3>1
    <3>3. QED
      BY <3>1, <3>2
  <2>4. QED
    BY <1>3, <2>1, <2>2, <2>3
<1>5. QED
  BY <1>4 DEF t, u

LEMMA KindsStay ==
  ASSUME UNCHANGED asked
  PROVE  /\ \A at, c : ToProvider(at, c)' = ToProvider(at, c)
         /\ \A at, c : ToAsker(at, c)' = ToAsker(at, c)
         /\ \A q : Commands(q)' = Commands(q)
  BY DEF ToProvider, ToAsker, Commands, ProviderMessages

LEMMA ChannelsAreMaps ==
  ASSUME Typed
  PROVE  DOMAIN to_asker = Connections /\ DOMAIN to_provider = Connections
  BY DEF Typed, ChannelsTyped

LEMMA ToProviderStays ==
  ASSUME Typed, UNCHANGED asked, Shorter(to_provider, to_provider'), NEW at, MessagesFollow(at)
  PROVE  \A c \in Connections : to_provider'[c] \in Seq(ToProvider(at, c)')
<1> DEFINE P == [c \in Connections |-> ToProvider(at, c)]
           after == to_provider'
<1>1. \A c \in Connections : to_provider[c] \in Seq(P[c])
  BY DEF MessagesFollow
<1>2. \A c \in Connections : P[c] = ToProvider(at, c)'
  BY KindsStay
<1>3. Shorter(to_provider, after) /\ DOMAIN to_provider = Connections
  BY ChannelsAreMaps
<1> HIDE DEF P, after
<1>4. \A c \in Connections : after[c] \in Seq(P[c])
  BY <1>1, <1>3, ShorterKeeps
<1>5. QED
  BY <1>2, <1>4 DEF after

LEMMA ToAskerStays ==
  ASSUME Typed, UNCHANGED asked, Shorter(to_asker, to_asker'), NEW at, MessagesFollow(at)
  PROVE  \A c \in Connections : to_asker'[c] \in Seq(ToAsker(at, c)')
<1> DEFINE P == [c \in Connections |-> ToAsker(at, c)]
           after == to_asker'
<1>1. \A c \in Connections : to_asker[c] \in Seq(P[c])
  BY DEF MessagesFollow
<1>2. \A c \in Connections : P[c] = ToAsker(at, c)'
  BY KindsStay
<1>3. Shorter(to_asker, after) /\ DOMAIN to_asker = Connections
  BY ChannelsAreMaps
<1> HIDE DEF P, after
<1>4. \A c \in Connections : after[c] \in Seq(P[c])
  BY <1>1, <1>3, ShorterKeeps
<1>5. QED
  BY <1>2, <1>4 DEF after

LEMMA ToAskerGrows ==
  ASSUME Typed, UNCHANGED asked, NEW at, MessagesFollow(at), NEW c \in Connections,
         NEW m \in ToAsker(at, c), Sent(c, to_asker, asker_up, m)
  PROVE  \A d \in Connections : to_asker'[d] \in Seq(ToAsker(at, d)')
<1> DEFINE P == [d \in Connections |-> ToAsker(at, d)]
           after == to_asker'
<1>1. m \in P[c] /\ \A d \in Connections : to_asker[d] \in Seq(P[d])
  BY DEF MessagesFollow
<1>2. \A d \in Connections : P[d] = ToAsker(at, d)'
  BY KindsStay
<1>3. Sending(to_asker, after, c, asker_up, m) /\ DOMAIN to_asker = Connections
  BY ChannelsAreMaps DEF Sent, Sending
<1> HIDE DEF P, after
<1>4. \A d \in Connections : after[d] \in Seq(P[d])
  BY <1>1, <1>3, SendingKeeps
<1>5. QED
  BY <1>2, <1>4 DEF after

\* What was sent remains sent, and what does not come any more does not come.
LEMMA AllSentStays ==
  ASSUME QueriesGoOn, NEW q, AllSent(q)
  PROVE  AllSent(q)'
<1> SUFFICES ASSUME q \in DOMAIN queries' PROVE queries'[q].unsent = 0
  BY DEF AllSent
<1>1. q \in DOMAIN queries /\ queries'[q].unsent \in 0 .. queries[q].unsent
  BY DEF QueriesGoOn, StaysQuery
<1>2. QED
  BY <1>1 DEF AllSent

LEMMA NoneComesStill ==
  ASSUME Typed, Shorter(to_provider, to_provider'), NEW q, NoneComes(q)
  PROVE  NoneComes(q)'
<1> DEFINE S == ProviderMessages(DOMAIN asked)
           after == to_provider'
<1>1. to_provider \in [Connections -> Seq(S)] /\ Shorter(to_provider, after)
  BY DEF Typed, ChannelsTyped
<1> HIDE DEF S, after
<1>2. ASSUME NEW c \in Connections, NEW k \in 1 .. Len(after[c]) PROVE ~IsPart(after[c][k], q)
  <2>1. PICK n \in 0 .. Len(to_provider[c]) :
          /\ Len(after[c]) \in Nat /\ n + Len(after[c]) <= Len(to_provider[c])
          /\ \A j \in 1 .. Len(after[c]) : after[c][j] = to_provider[c][j + n]
    BY <1>1, ShorterHasNoMore
  <2>2. Len(to_provider[c]) \in Nat
    BY <1>1
  <2>3. k + n \in 1 .. Len(to_provider[c]) /\ after[c][k] = to_provider[c][k + n]
    BY <2>1, <2>2
  <2>4. QED
    BY <2>3 DEF NoneComes
<1>3. QED
  BY <1>2 DEF NoneComes, after

LEMMA LastIsLastStill ==
  ASSUME Typed, QueriesGoOn, Shorter(to_provider, to_provider'),
         NEW c \in Connections, NEW q, LastIsLast(c, q)
  PROVE  LastIsLast(c, q)'
<1> DEFINE S == ProviderMessages(DOMAIN asked)
           after == to_provider'
           L == Len(to_provider[c])
           M == Len(after[c])
<1>1. to_provider \in [Connections -> Seq(S)] /\ Shorter(to_provider, after)
  BY DEF Typed, ChannelsTyped
<1> HIDE DEF S, after
<1>2. PICK n \in 0 .. L :
        /\ M \in Nat /\ n + M <= L
        /\ \A j \in 1 .. M : after[c][j] = to_provider[c][j + n]
  BY <1>1, ShorterHasNoMore
<1>3. L \in Nat
  BY <1>1
<1>4. ASSUME NEW k \in 1 .. M, IsLast(after[c][k], q)
      PROVE  AllSent(q)' /\ \A j \in k + 1 .. M : ~IsPart(after[c][j], q)
  <2>1. k + n \in 1 .. L /\ after[c][k] = to_provider[c][k + n]
    BY <1>2, <1>3
  <2>2. AllSent(q) /\ \A j \in k + n + 1 .. L : ~IsPart(to_provider[c][j], q)
    BY <1>4, <2>1 DEF LastIsLast
  <2>3. AllSent(q)'
    BY <2>2, AllSentStays
  <2>4. ASSUME NEW j \in k + 1 .. M PROVE ~IsPart(after[c][j], q)
    <3>1. j \in 1 .. M /\ j + n \in k + n + 1 .. L
      BY <1>2, <1>3
    <3>2. QED
      BY <1>2, <2>2, <3>1
  <2>5. QED
    BY <2>3, <2>4
<1>5. QED
  BY <1>4 DEF LastIsLast, after

\* A response stays where it is, and has no answers before its query is whole.
KeepsResponse(r, r1) ==
  /\ r1.connection = r.connection /\ r1.service_id = r.service_id /\ r1.completed = r.completed
  /\ IF r1.answers = <<>> THEN r1.buffer = <<>> ELSE r1.completed

\* An answer is sent by its response.
OfResponse(c, m) ==
  m.kind \in {"r", "R", "E"} =>
    /\ m.query \in DOMAIN responses
    /\ responses[m.query].connection = c /\ responses[m.query].service_id = m.id

\* Where queries, responses and messages only go on, the traces stay.
LEMMA TracesStay ==
  ASSUME Typed, Traced, UNCHANGED asked, QueriesGoOn,
         \A q \in DOMAIN queries' : queries'[q].service_id = queries[q].service_id,
         DOMAIN responses' \subseteq DOMAIN responses,
         \A q \in DOMAIN responses' : KeepsResponse(responses[q], responses'[q]),
         \A q \in DOMAIN asked : IsBegun(q)' => IsBegun(q),
         Shorter(to_provider, to_provider'),
         \/ Shorter(to_asker, to_asker')
         \/ \E c \in Connections : \E m \in AskerMessages :
              Sent(c, to_asker, asker_up, m) /\ OfResponse(c, m)
  PROVE  Traced'
<1>1. PICK at : QueriesFollow(at) /\ ResponsesFollow(at) /\ MessagesFollow(at)
  BY DEF Traced, OneTrace
<1>2. QueriesFollow(at)'
  <2> SUFFICES ASSUME NEW q \in DOMAIN queries'
               PROVE  at[q] = <<queries'[q].connection, queries'[q].service_id>>
    BY DEF QueriesFollow
  <2>1. q \in DOMAIN queries /\ queries'[q].connection = queries[q].connection
    BY DEF QueriesGoOn, StaysQuery
  <2>2. QED
    BY <1>1, <2>1 DEF QueriesFollow
<1>3. ResponsesFollow(at)'
  <2> SUFFICES ASSUME NEW q \in DOMAIN responses'
               PROVE  at[q] = <<responses'[q].connection, responses'[q].service_id>>
    BY DEF ResponsesFollow
  <2>1. q \in DOMAIN responses /\ KeepsResponse(responses[q], responses'[q])
    OBVIOUS
  <2>2. QED
    BY <1>1, <2>1 DEF ResponsesFollow, KeepsResponse
<1>4. \A c \in Connections : to_asker'[c] \in Seq(ToAsker(at, c)')
  <2>1. CASE Shorter(to_asker, to_asker')
    BY <1>1, <2>1, ToAskerStays
  <2>2. ASSUME NEW c \in Connections, NEW m \in AskerMessages,
               Sent(c, to_asker, asker_up, m), OfResponse(c, m)
        PROVE  \A d \in Connections : to_asker'[d] \in Seq(ToAsker(at, d)')
    <3>1. m \in ToAsker(at, c)
      <4>1. ASSUME m.kind \in {"r", "R", "E"}
            PROVE  m.query \in DOMAIN asked /\ at[m.query] = <<c, m.id>>
        <5>1. /\ m.query \in DOMAIN responses
              /\ responses[m.query].connection = c /\ responses[m.query].service_id = m.id
          BY <2>2, <4>1 DEF OfResponse
        <5>2. m.query \in DOMAIN asked
          BY <5>1 DEF Typed, ResponsesTyped
        <5>3. QED
          BY <1>1, <5>1, <5>2 DEF ResponsesFollow
      <4>2. QED
        BY <4>1 DEF ToAsker
    <3>2. QED
      BY <1>1, <2>2, <3>1, ToAskerGrows
  <2>3. QED
    BY <2>1, <2>2
<1>5. MessagesFollow(at)'
  <2>1. \A c \in Connections : to_provider'[c] \in Seq(ToProvider(at, c)')
    BY <1>1, ToProviderStays
  <2>2. QED
    BY <1>4, <2>1 DEF MessagesFollow
<1>6. OneTrace'
  BY <1>2, <1>3, <1>5 DEF OneTrace
<1>7. OnceBegun'
  <2> SUFFICES ASSUME NEW q \in DOMAIN asked, IsBegun(q)' PROVE AllSent(q)' /\ NoneComes(q)'
    BY DEF OnceBegun
  <2>1. AllSent(q) /\ NoneComes(q)
    BY DEF Traced, OnceBegun
  <2>2. QED
    BY <2>1, AllSentStays, NoneComesStill
<1>8. LastParts'
  <2> SUFFICES ASSUME NEW c \in Connections, NEW q \in DOMAIN asked PROVE LastIsLast(c, q)'
    BY DEF LastParts
  <2>1. LastIsLast(c, q)
    BY DEF Traced, LastParts
  <2>2. QED
    BY <2>1, LastIsLastStill
<1>9. NoAnswerYet'
  BY DEF NoAnswerYet, KeepsResponse
<1>10. QED
  BY <1>6, <1>7, <1>8, <1>9 DEF Traced

\* Responses that are left alone stay.
LEMMA ResponsesAsTheyAre ==
  ASSUME Traced, NEW q \in DOMAIN responses, NEW r, r.connection = responses[q].connection,
         r.service_id = responses[q].service_id, r.completed = responses[q].completed,
         r.answers = responses[q].answers, r.buffer = responses[q].buffer
  PROVE  KeepsResponse(responses[q], r)
  BY DEF Traced, NoAnswerYet, KeepsResponse

LEMMA BegunAsBefore ==
  ASSUME UNCHANGED <<asked, given>>, DOMAIN responses' \subseteq DOMAIN responses,
         \A q \in DOMAIN responses' : responses'[q].completed = responses[q].completed,
         NEW q, IsBegun(q)'
  PROVE  IsBegun(q)
  BY DEF IsBegun, Commands

\* A step of the asker.
LEMMA AskerTraces ==
  ASSUME Typed, Traced, UNCHANGED <<asked, responses, given, to_provider>>, QueriesGoOn,
         \A q \in DOMAIN queries' : queries'[q].service_id = queries[q].service_id,
         Shorter(to_asker, to_asker')
  PROVE  Traced'
<1>1. \A q \in DOMAIN responses' : KeepsResponse(responses[q], responses'[q])
  BY ResponsesAsTheyAre
<1>2. \A q \in DOMAIN asked : IsBegun(q)' => IsBegun(q)
  BY BegunAsBefore
<1>3. Shorter(to_provider, to_provider')
  BY DEF Shorter
<1>4. QED
  BY <1>1, <1>2, <1>3, TracesStay

\* A step of a provider.
LEMMA ProviderTraces ==
  ASSUME Typed, Traced, UNCHANGED <<asked, queries, given>>,
         DOMAIN responses' \subseteq DOMAIN responses,
         \A q \in DOMAIN responses' : KeepsResponse(responses[q], responses'[q]),
         Shorter(to_provider, to_provider'),
         \/ to_asker' = to_asker
         \/ \E c \in Connections : \E m \in AskerMessages :
              Sent(c, to_asker, asker_up, m) /\ OfResponse(c, m)
  PROVE  Traced'
<1>1. QueriesGoOn
  BY QueriesUntouched
<1>2. \A q \in DOMAIN asked : IsBegun(q)' => IsBegun(q)
  <2>1. \A q \in DOMAIN responses' : responses'[q].completed = responses[q].completed
    BY DEF KeepsResponse
  <2>2. QED
    BY <2>1, BegunAsBefore
<1>3. \/ Shorter(to_asker, to_asker')
      \/ \E c \in Connections : \E m \in AskerMessages :
           Sent(c, to_asker, asker_up, m) /\ OfResponse(c, m)
  BY DEF Shorter
<1>4. \A q \in DOMAIN queries' : queries'[q].service_id = queries[q].service_id
  OBVIOUS
<1>5. QED
  BY <1>1, <1>2, <1>3, <1>4, TracesStay

\* A query keeps its answers, or they fail and it is not waited for any more.
Changes(q, r) ==
  /\ r.service_id = q.service_id
  /\ \/ r.answers = q.answers /\ (r.response = "Running" => q.response = "Running")
     \/ r.answers = failing(q.answers) /\ r.response # "Running"

LEMMA SameChanges ==
  ASSUME NEW q \in Query, NEW status
  PROVE  /\ Changes(q, q)
         /\ Changes(q, [q EXCEPT !.query = status])
         /\ Changes(q, [q EXCEPT !.query = status, !.response = "Cancelled"])
  BY DEF Changes, Query

LEMMA AbortedChanges ==
  ASSUME NEW q \in Query, NEW status
  PROVE  Changes(q, aborted(q)) /\ Changes(q, [aborted(q) EXCEPT !.query = status])
<1> DEFINE f == failing(q.answers)
<1> HIDE DEF f
<1>1. aborted(q) = [q EXCEPT !.response = "Aborted", !.answers = f]
  BY DEF aborted, f
<1>2. QED
  BY <1>1 DEF Changes, Query, f

\* One answer that fails.
failed_answer(a) ==
  IF a.status = "ROWS" THEN [a EXCEPT !.status = "ERROR", !.was_read = FALSE] ELSE a

LEMMA FailedIsGiven ==
  ASSUME NEW h \in Outcome, NEW a \in Answer, NEW g \in Progress, NEW form,
         Reads(h, a), Given(joined(h, a), g, form)
  PROVE  /\ Reads(h, failed_answer(a))
         /\ Given(joined(h, failed_answer(a)), g, form)
         /\ failed_answer(a).status # "ROWS"
<1>1. CASE a.status = "ROWS"
  <2> DEFINE b == failed_answer(a)
             x == h.rows \o a.rows
  <2>1. b.status = "ERROR" /\ b.was_read = FALSE /\ b.rows = a.rows
    BY <1>1 DEF Answer, failed_answer
  <2> HIDE DEF b
  <2>2. Reads(h, b)
    BY <1>1, <2>1 DEF Reads
  <2>3. joined(h, b).rows = x /\ joined(h, b).status = "ERROR" /\ joined(h, a).rows = x
    BY <2>1 DEF joined
  <2> HIDE DEF x
  <2>4. Given(joined(h, b), g, form)
    BY <2>3 DEF Given
  <2>5. QED
    BY <2>1, <2>2, <2>4 DEF b
<1>2. CASE a.status # "ROWS"
  BY <1>2 DEF failed_answer
<1>3. QED
  BY <1>1, <1>2

LEMMA FailingFails ==
  ASSUME NEW answers, NEW i \in DOMAIN answers
  PROVE  failing(answers)[i] = failed_answer(answers[i])
  BY DEF failing, failed_answer

\* Where queries fail or go and nothing else happens to the answers.
LEMMA QueriesFail ==
  ASSUME Typed, Exact, UNCHANGED <<asked, heard, given, failed, ended, text, responses>>, QueriesGoOn,
         \A q \in DOMAIN queries' : Changes(queries[q], queries'[q]),
         \A q \in DOMAIN queries' : queries'[q].response = "Running" =>
           (/\ queries[q].connection \in asker_up => queries[q].connection \in asker_up'
            /\ to_asker'[queries[q].connection] = to_asker[queries[q].connection])
  PROVE  Exact'
<1>1. \A q : Commands(q)' = Commands(q)
  BY KindsStay
<1>2. ASSUME NEW q \in DOMAIN queries', NEW i \in Commands(q)
      PROVE  /\ q \in DOMAIN queries /\ q \in DOMAIN asked
             /\ \/ queries'[q].answers[i] = queries[q].answers[i]
                   /\ (queries'[q].response = "Running" => queries[q].response = "Running")
                \/ queries'[q].answers[i] = failed_answer(queries[q].answers[i])
                   /\ queries'[q].response # "Running"
  <2>1. q \in DOMAIN queries /\ q \in DOMAIN asked
    BY DEF QueriesGoOn, Typed, QueriesTyped
  <2>2. i \in DOMAIN queries[q].answers
    BY <2>1, CommandTypes
  <2>3. Changes(queries[q], queries'[q])
    OBVIOUS
  <2>4. QED
    BY <2>1, <2>2, <2>3, FailingFails DEF Changes
<1>3. Running'
  <2> SUFFICES ASSUME NEW q \in DOMAIN queries', queries'[q].response = "Running"
               PROVE  queries'[q].connection \in asker_up' /\ \A i \in Commands(q) : Tracked(q, i)'
    BY <1>1 DEF Running
  <2>1. q \in DOMAIN queries /\ queries'[q].connection = queries[q].connection
        /\ queries[q].response = "Running"
    BY DEF QueriesGoOn, StaysQuery, Changes
  <2>2. queries[q].connection \in asker_up /\ \A i \in Commands(q) : Tracked(q, i)
    BY <2>1 DEF Exact, Running
  <2>3. ASSUME NEW i \in Commands(q) PROVE Tracked(q, i)'
    <3>1. queries'[q].answers[i] = queries[q].answers[i]
      BY <1>2
    <3>2. got(q, i)' = got(q, i)
      BY <2>1, <3>1 DEF got
    <3>3. PICK t \in Progress, u \in Progress :
            /\ Told(got(q, i), t, text[q])
            /\ Comes(to_asker[queries[q].connection], q, i, t, u)
            /\ Provided(q, i, u)
      BY <2>2 DEF Tracked
    <3>4. Comes(to_asker'[queries'[q].connection], q, i, t, u)
      BY <2>1, <3>3
    <3>5. Provided(q, i, u)'
      BY <3>3 DEF Provided
    <3>6. Told(got(q, i)', t, text'[q])
      BY <3>2, <3>3
    <3>7. QED
      BY <3>4, <3>5, <3>6 DEF Tracked
  <2>4. QED
    BY <2>1, <2>2, <2>3
<1>4. ASSUME NEW q \in DOMAIN asked, NEW i \in Commands(q)
      PROVE  /\ Given(got(q, i)', given[q][i], text[q])
             /\ q \in DOMAIN queries' => Reads(heard[q][i], queries'[q].answers[i])
  <2> DEFINE h == heard[q][i]
             a == queries[q].answers[i]
             b == queries'[q].answers[i]
             g == given[q][i]
             form == text[q]
  <2>1. h \in Outcome /\ g \in Progress
    BY CommandTypes
  <2>2. Given(got(q, i), g, form)
    BY DEF Exact, Sound
  <2>3. CASE q \notin DOMAIN queries
    <3>1. q \notin DOMAIN queries'
      BY <2>3 DEF QueriesGoOn
    <3>2. got(q, i)' = got(q, i)
      BY <2>3, <3>1 DEF got
    <3>3. QED
      BY <2>2, <3>1, <3>2
  <2>4. CASE q \in DOMAIN queries
    <3>1. a \in Answer /\ Reads(h, a)
      BY <2>4, CommandTypes DEF Exact, Read
    <3>2. Given(joined(h, a), g, form)
      BY <2>2, <2>4 DEF got
    <3>3. CASE q \in DOMAIN queries'
      <4>1. got(q, i)' = joined(h, b)
        BY <3>3 DEF got
      <4>2. b = a \/ b = failed_answer(a)
        BY <1>2, <3>3
      <4> HIDE DEF h, a, b, g, form
      <4>3. Reads(h, b) /\ Given(joined(h, b), g, form)
        BY <2>1, <3>1, <3>2, <4>2, FailedIsGiven
      <4>4. QED
        BY <4>1, <4>3 DEF h, b, g, form
    <3>4. CASE q \notin DOMAIN queries'
      <4>1. got(q, i)' = h
        BY <3>4 DEF got
      <4> HIDE DEF h, a, g, form
      <4>2. Given(h, g, form)
        BY <2>1, <3>1, <3>2, HeardIsGiven
      <4>3. QED
        BY <3>4, <4>1, <4>2 DEF g, form
    <3>5. QED
      BY <3>3, <3>4
  <2>5. QED
    BY <2>3, <2>4
<1>5. Sound'
  BY <1>1, <1>4 DEF Sound
<1>6. Read'
  <2> SUFFICES ASSUME NEW q \in DOMAIN queries', NEW i \in Commands(q)
               PROVE  Reads(heard'[q][i], queries'[q].answers[i])
    BY <1>1 DEF Read
  <2>1. q \in DOMAIN asked
    BY <1>2
  <2>2. QED
    BY <1>4, <2>1
<1>7. Ended'
  BY DEF Exact, Ended, QueriesGoOn
<1>8. QED
  BY <1>3, <1>5, <1>6, <1>7 DEF Exact

\* A query is cancelled, or overdue.
LEMMA CancelExact ==
  ASSUME Typed, Traced, Exact, NEW q, NEW cb \in BOOLEAN, CancelQuery(q, cb)
  PROVE  Traced' /\ Exact'
<1> DEFINE after == [queries EXCEPT ![q] = cancelled(@, cb)]
<1>1. /\ q \in DOMAIN queries
      /\ queries' = remaining(after, {queries[q].connection})
      /\ UNCHANGED <<links, known, text, failed, asked, heard, ended, providing, to_provider, to_asker>>
  BY DEF CancelQuery
<1>2. QueriesGoOn
  BY CancelKeepsTypes
<1>3. after = [x \in DOMAIN queries |-> IF x = q THEN cancelled(queries[q], cb) ELSE queries[x]]
  BY <1>1 DEF Typed, QueriesTyped
<1>4. Changes(queries[q], cancelled(queries[q], cb))
  <2> DEFINE p == queries[q]
  <2>1. p \in Query
    BY <1>1 DEF Typed, QueriesTyped
  <2> HIDE DEF p
  <2>2. Changes(p, cancelled(p, cb))
    BY <2>1, SameChanges, AbortedChanges DEF cancelled
  <2>3. QED
    BY <2>2 DEF p
<1>5. ASSUME NEW x \in DOMAIN queries PROVE Changes(queries[x], after[x])
  <2>1. queries[x] \in Query
    BY DEF Typed, QueriesTyped
  <2>2. QED
    BY <1>3, <1>4, <2>1, SameChanges
<1>6. \A x \in DOMAIN queries' : x \in DOMAIN queries /\ queries'[x] = after[x]
  <2>1. DOMAIN after = DOMAIN queries
    BY <1>3
  <2> HIDE DEF after
  <2>2. QED
    BY <1>1, <2>1 DEF remaining, without
<1> HIDE DEF after
<1>7. \A x \in DOMAIN queries' : Changes(queries[x], queries'[x])
  BY <1>5, <1>6
<1>8. Exact'
  BY <1>1, <1>2, <1>7, QueriesFail DEF links, providing
<1>9. Traced'
  <2>1. \A x \in DOMAIN queries' : queries'[x].service_id = queries[x].service_id
    BY <1>7 DEF Changes
  <2>2. Shorter(to_asker, to_asker')
    BY <1>1 DEF Shorter
  <2>3. QED
    BY <1>1, <1>2, <2>1, <2>2, AskerTraces DEF providing
<1>10. QED
  BY <1>8, <1>9

LEMMA TimeOutExact ==
  ASSUME Typed, Traced, Exact, NEW q, TimeOut(q)
  PROVE  Traced' /\ Exact'
<1>1. /\ q \in DOMAIN queries
      /\ queries' = [queries EXCEPT ![q] = overdue(queries[q])]
      /\ UNCHANGED <<links, known, text, failed, asked, heard, ended, providing, to_provider, to_asker>>
  BY DEF TimeOut
<1>2. QueriesGoOn
  BY TimeOutKeepsTypes
<1>3. queries' = [x \in DOMAIN queries |-> IF x = q THEN overdue(queries[q]) ELSE queries[x]]
  BY <1>1 DEF Typed, QueriesTyped
<1>4. ASSUME NEW x \in DOMAIN queries' PROVE Changes(queries[x], queries'[x])
  <2>1. x \in DOMAIN queries /\ queries[x] \in Query
    BY <1>3 DEF Typed, QueriesTyped
  <2>2. QED
    BY <1>3, <2>1, SameChanges, AbortedChanges DEF overdue
<1>5. Exact'
  BY <1>1, <1>2, <1>4, QueriesFail DEF links, providing
<1>6. Traced'
  <2>1. \A x \in DOMAIN queries' : queries'[x].service_id = queries[x].service_id
    BY <1>4 DEF Changes
  <2>2. Shorter(to_asker, to_asker')
    BY <1>1 DEF Shorter
  <2>3. QED
    BY <1>1, <1>2, <2>1, <2>2, AskerTraces DEF providing
<1>7. QED
  BY <1>5, <1>6

\* The asker loses a connection.
LEMMA AskerLosesExact ==
  ASSUME Typed, Traced, Exact, NEW c \in Connections, AskerLoses(c)
  PROVE  Traced' /\ Exact'
<1> DEFINE lost(q) == IF queries[q].connection # c THEN queries[q]
                      ELSE IF queries[q].response = "Running"
                      THEN [aborted(queries[q]) EXCEPT !.query = "Aborted"]
                      ELSE [queries[q] EXCEPT !.query = "Aborted"]
<1>1. /\ asker_up' = asker_up \ {c}
      /\ to_asker' = [to_asker EXCEPT ![c] = <<>>]
      /\ queries' = [q \in DOMAIN queries |-> lost(q)]
      /\ UNCHANGED <<text, failed, asked, heard, ended, providing, to_provider>>
  BY DEF AskerLoses
<1>2. QueriesGoOn
  BY AskerLosesKeepsTypes
<1>3. ASSUME NEW q \in DOMAIN queries
      PROVE  /\ Changes(queries[q], lost(q))
             /\ lost(q).response = "Running" => queries[q].connection # c
  <2> DEFINE p == queries[q]
  <2>1. p \in Query
    BY DEF Typed, QueriesTyped
  <2>2. lost(q) = IF p.connection # c THEN p
                  ELSE IF p.response = "Running" THEN [aborted(p) EXCEPT !.query = "Aborted"]
                  ELSE [p EXCEPT !.query = "Aborted"]
    OBVIOUS
  <2> HIDE DEF p, lost
  <2>3. Changes(p, lost(q))
    <3>1. Changes(p, p) /\ Changes(p, [p EXCEPT !.query = "Aborted"])
      BY <2>1, SameChanges
    <3>2. p.response = "Running" => Changes(p, [aborted(p) EXCEPT !.query = "Aborted"])
      BY <2>1, AbortedChanges
    <3>3. QED
      BY <2>2, <3>1, <3>2
  <2>4. lost(q).response = "Running" => p.connection # c
    <3> DEFINE f == failing(p.answers)
               a == aborted(p)
    <3>1. a = [p EXCEPT !.response = "Aborted", !.answers = f]
      BY DEF aborted
    <3> HIDE DEF f, a
    <3>2. a.response = "Aborted" /\ [a EXCEPT !.query = "Aborted"].response = "Aborted"
      BY <2>1, <3>1 DEF Query
    <3>3. [p EXCEPT !.query = "Aborted"].response = p.response
      BY <2>1 DEF Query
    <3>4. QED
      BY <2>2, <3>2, <3>3 DEF a
  <2>5. QED
    BY <2>3, <2>4 DEF p
<1> HIDE DEF lost
<1>4. \A q \in DOMAIN queries' : q \in DOMAIN queries /\ queries'[q] = lost(q)
  BY <1>1
<1>5. \A q \in DOMAIN queries' : Changes(queries[q], queries'[q])
  BY <1>3, <1>4
<1>6. ASSUME NEW q \in DOMAIN queries', queries'[q].response = "Running"
      PROVE  /\ queries[q].connection \in asker_up => queries[q].connection \in asker_up'
             /\ to_asker'[queries[q].connection] = to_asker[queries[q].connection]
  <2>1. queries[q].connection # c
    BY <1>3, <1>4, <1>6
  <2>2. QED
    BY <1>1, <2>1
<1>7. Exact'
  BY <1>1, <1>2, <1>5, <1>6, QueriesFail DEF providing
<1>8. Traced'
  <2>1. \A x \in DOMAIN queries' : queries'[x].service_id = queries[x].service_id
    BY <1>5 DEF Changes
  <2>2. Shorter(to_asker, to_asker')
    BY <1>1 DEF Shorter
  <2>3. QED
    BY <1>1, <1>2, <2>1, <2>2, AskerTraces DEF providing
<1>9. QED
  BY <1>7, <1>8

\* The user of the provider answers more.
LEMMA GivenMore ==
  ASSUME NEW o \in Outcome, NEW g \in Progress, NEW form, Given(o, g, form),
         g.status = "ROWS", NEW status, NEW n \in Nat
  PROVE  Given(o, [status |-> status, rows |-> g.rows + n], form)
<1> DEFINE k == g.rows + n
           g1 == [status |-> status, rows |-> k]
<1>1. k \in Nat /\ g.rows \in Nat /\ g.rows <= k /\ o.rows \in Seq(Nat)
  BY DEF Progress, Outcome
<1>2. g1.rows = k
  OBVIOUS
<1> HIDE DEF k, g1
<1>3. form # "torn" => Increasing(o.rows, k)
  BY <1>1, IncreasingTo DEF Given
<1>4. form # "torn" => o.status # "DONE"
  BY DEF Given
<1>5. Given(o, g1, form)
  BY <1>2, <1>3, <1>4 DEF Given
<1>6. QED
  BY <1>5 DEF g1, k

\* Where the answers move on and the asker is left alone.
LEMMA AnswersMove ==
  ASSUME Typed, Exact, UNCHANGED <<queries, heard, text, asked, failed, ended>>,
         asker_up \subseteq asker_up',
         \A q \in DOMAIN queries : queries[q].response = "Running" =>
           \A i \in Commands(q) : \A t, u \in Progress :
             Comes(to_asker[queries[q].connection], q, i, t, u) /\ Provided(q, i, u) =>
               \E v \in Progress :
                 Comes(to_asker'[queries[q].connection], q, i, t, v) /\ Provided(q, i, v)',
         \A q \in DOMAIN asked : \A i \in Commands(q) :
           \/ given'[q][i] = given[q][i]
           \/ /\ given[q][i].status = "ROWS"
              /\ \E status : \E n \in Nat :
                   given'[q][i] = [status |-> status, rows |-> given[q][i].rows + n]
  PROVE  Exact'
<1>1. \A q : Commands(q)' = Commands(q)
  BY KindsStay
<1>2. \A q, i : got(q, i)' = got(q, i)
  BY DEF got
<1>3. Running'
  <2> SUFFICES ASSUME NEW q \in DOMAIN queries, queries[q].response = "Running"
               PROVE  queries[q].connection \in asker_up' /\ \A i \in Commands(q) : Tracked(q, i)'
    BY <1>1 DEF Running
  <2>1. queries[q].connection \in asker_up /\ \A i \in Commands(q) : Tracked(q, i)
    BY DEF Exact, Running
  <2>2. ASSUME NEW i \in Commands(q) PROVE Tracked(q, i)'
    <3>1. PICK t \in Progress, u \in Progress :
            /\ Told(got(q, i), t, text[q])
            /\ Comes(to_asker[queries[q].connection], q, i, t, u)
            /\ Provided(q, i, u)
      BY <2>1 DEF Tracked
    <3>2. PICK v \in Progress :
            Comes(to_asker'[queries[q].connection], q, i, t, v) /\ Provided(q, i, v)'
      BY <3>1
    <3>3. Told(got(q, i)', t, text'[q])
      BY <1>2, <3>1
    <3>4. QED
      BY <3>2, <3>3 DEF Tracked
  <2>3. QED
    BY <2>1, <2>2
<1>4. Sound'
  <2> SUFFICES ASSUME NEW q \in DOMAIN asked, NEW i \in Commands(q)
               PROVE  Given(got(q, i), given'[q][i], text[q])
    BY <1>1, <1>2 DEF Sound
  <2> DEFINE o == got(q, i)
             g == given[q][i]
             g1 == given'[q][i]
             form == text[q]
  <2>1. o \in Outcome /\ g \in Progress
    BY CommandTypes
  <2>2. Given(o, g, form)
    BY DEF Exact, Sound
  <2>3. \/ g1 = g
        \/ g.status = "ROWS" /\ \E status : \E n \in Nat : g1 = [status |-> status, rows |-> g.rows + n]
    OBVIOUS
  <2> HIDE DEF o, g, g1, form
  <2>4. Given(o, g1, form)
    BY <2>1, <2>2, <2>3, GivenMore
  <2>5. QED
    BY <2>4 DEF o, g1, form
<1>5. Read' /\ Ended'
  BY <1>1 DEF Exact, Read, Ended
<1>6. QED
  BY <1>3, <1>4, <1>5 DEF Exact

LEMMA HoldsIsWithin ==
  ASSUME NEW r, NEW n \in Nat, ResponseOK(r, n), NEW i \in 1 .. n, NEW u \in Progress,
         NEW g \in Progress, Holds(r, i, u, g)
  PROVE  Within(u, g)
<1>1. CASE r.answers = <<>>
  BY <1>1 DEF Holds
<1>2. CASE r.answers # <<>>
  <2>1. PICK v \in Progress : Goes(r.buffer, i, u, v) /\ Rest(v, r.answers[i], g, r.was_cancelled)
    BY <1>2 DEF Holds
  <2>2. r.answers \in Seq(Answer) /\ r.buffer \in Seq(Entry) /\ Len(r.answers) = n
    BY <1>2 DEF ResponseOK, Response
  <2>3. r.answers[i] \in Answer
    BY <2>2
  <2>4. Within(v, g)
    BY <2>1, <2>3, RestIsWithin
  <2>5. GoesOn(u, v)
    BY <2>1, <2>2, EntriesGoOn
  <2>6. QED
    BY <2>4, <2>5, WithinBefore
<1>3. QED
  BY <1>1, <1>2

LEMMA HoldsMarked ==
  ASSUME NEW r, NEW r1, r1.answers = r.answers, r1.buffer = r.buffer,
         r1.was_cancelled = r.was_cancelled \/ r1.was_cancelled = TRUE,
         NEW i, NEW u, NEW g, Holds(r, i, u, g)
  PROVE  Holds(r1, i, u, g)
<1>1. CASE r.answers = <<>>
  BY <1>1 DEF Holds
<1>2. CASE r.answers # <<>>
  <2>1. PICK v \in Progress : Goes(r.buffer, i, u, v) /\ Rest(v, r.answers[i], g, r.was_cancelled)
    BY <1>2 DEF Holds
  <2>2. Rest(v, r1.answers[i], g, r1.was_cancelled)
    BY <2>1 DEF Rest
  <2>3. QED
    BY <1>2, <2>1, <2>2 DEF Holds
<1>3. QED
  BY <1>1, <1>2

\* What a provider's response has is within what its user gave.
LEMMA ProvidedIsWithin ==
  ASSUME Typed, NEW q \in DOMAIN asked, NEW i \in Commands(q), NEW u \in Progress, Provided(q, i, u)
  PROVE  Within(u, given[q][i])
<1>1. CASE q \in DOMAIN responses
  <2> DEFINE n == asked[q].commands
             r == responses[q]
             g == given[q][i]
  <2>1. n \in Nat /\ ResponseOK(r, n) /\ g \in Progress /\ i \in 1 .. n
    BY <1>1, CommandTypes DEF Typed, ResponsesTyped, Commands
  <2>2. Holds(r, i, u, g)
    BY <1>1 DEF Provided
  <2> HIDE DEF n, r, g
  <2>3. Within(u, g)
    BY <2>1, <2>2, HoldsIsWithin
  <2>4. QED
    BY <2>3 DEF g
<1>2. CASE q \notin DOMAIN responses
  BY <1>2 DEF Provided
<1>3. QED
  BY <1>1, <1>2

\* Where responses are marked, cancelled or removed.
LEMMA ResponsesMarked ==
  ASSUME Typed, Exact,
         UNCHANGED <<queries, heard, text, asked, failed, ended, given, to_asker>>,
         asker_up \subseteq asker_up', DOMAIN responses' \subseteq DOMAIN responses,
         \A q \in DOMAIN responses' :
           /\ responses'[q].answers = responses[q].answers
           /\ responses'[q].buffer = responses[q].buffer
           /\ \/ responses'[q].was_cancelled = responses[q].was_cancelled
              \/ responses'[q].was_cancelled = TRUE
  PROVE  Exact'
<1>1. ASSUME NEW q \in DOMAIN asked, NEW i \in Commands(q), NEW u \in Progress, Provided(q, i, u)
      PROVE  Provided(q, i, u)'
  <2>1. CASE q \in DOMAIN responses'
    <3> DEFINE r == responses[q]
               r1 == responses'[q]
               g == given[q][i]
    <3>1. Holds(r, i, u, g)
      BY <1>1, <2>1 DEF Provided
    <3>2. /\ r1.answers = r.answers /\ r1.buffer = r.buffer
          /\ r1.was_cancelled = r.was_cancelled \/ r1.was_cancelled = TRUE
      BY <2>1
    <3> HIDE DEF r, r1, g
    <3>3. Holds(r1, i, u, g)
      BY <3>1, <3>2, HoldsMarked
    <3>4. QED
      BY <2>1, <3>3 DEF Provided, r1, g
  <2>2. CASE q \notin DOMAIN responses'
    <3>1. Within(u, given[q][i])
      BY <1>1, ProvidedIsWithin
    <3>2. QED
      BY <2>2, <3>1 DEF Provided
  <2>3. QED
    BY <2>1, <2>2
<1>2. ASSUME NEW q \in DOMAIN queries, NEW i \in Commands(q), NEW t \in Progress, NEW u \in Progress,
             Comes(to_asker[queries[q].connection], q, i, t, u), Provided(q, i, u)
      PROVE  \E v \in Progress :
               Comes(to_asker'[queries[q].connection], q, i, t, v) /\ Provided(q, i, v)'
  <2>1. q \in DOMAIN asked
    BY DEF Typed, QueriesTyped
  <2>2. Provided(q, i, u)' /\ to_asker' = to_asker
    BY <1>1, <1>2, <2>1
  <2>3. QED
    BY <1>2, <2>2
<1>3. QED
  BY <1>2, AnswersMove

\* Where nothing happens to queries and answers.
LEMMA QuietExact ==
  ASSUME Typed, Traced, Exact, asker_up \subseteq asker_up',
         UNCHANGED <<queries, heard, text, asked, failed, ended, given, responses, to_asker,
                     to_provider>>
  PROVE  Traced' /\ Exact'
<1>1. QueriesGoOn
  BY QueriesUntouched
<1>2. Shorter(to_asker, to_asker')
  BY DEF Shorter
<1>3. Traced'
  BY <1>1, <1>2, AskerTraces
<1>4. Exact'
  BY ResponsesMarked
<1>5. QED
  BY <1>3, <1>4

LEMMA UntouchedExact ==
  ASSUME Typed, Traced, Exact, UNCHANGED vars
  PROVE  Traced' /\ Exact'
BY QuietExact DEF vars

LEMMA ServicesExact ==
  ASSUME Typed, Traced, Exact, NEW p, NEW services, SetAcceptedServices(p, services)
  PROVE  Traced' /\ Exact'
BY QuietExact DEF SetAcceptedServices, links, asking

LEMMA ConnectExact ==
  ASSUME Typed, Traced, Exact, NEW c, Connect(c)
  PROVE  Traced' /\ Exact'
BY QuietExact DEF Connect, asking, providing

\* A provider's user is given queries, and forgets the cancelled ones.
LEMMA GetQueriesExact ==
  ASSUME Typed, Traced, Exact, NEW p, GetReceivedQueries(p)
  PROVE  Traced' /\ Exact'
<1> DEFINE own == {q \in DOMAIN responses : ProviderOf[responses[q].connection] = p}
           gone == {q \in own : responses[q].was_cancelled}
           given_to(q) == IF q \in own /\ is_for_user(responses[q])
                          THEN [responses[q] EXCEPT !.was_read = TRUE] ELSE responses[q]
<1>1. /\ responses' = without([q \in DOMAIN responses |-> given_to(q)], gone)
      /\ UNCHANGED <<queries, heard, text, asked, failed, ended, given, asker_up, to_asker, to_provider>>
  BY DEF GetReceivedQueries, links, asking
<1>2. ASSUME NEW q \in DOMAIN responses
      PROVE  /\ given_to(q).connection = responses[q].connection
             /\ given_to(q).service_id = responses[q].service_id
             /\ given_to(q).completed = responses[q].completed
             /\ given_to(q).answers = responses[q].answers
             /\ given_to(q).buffer = responses[q].buffer
             /\ given_to(q).was_cancelled = responses[q].was_cancelled
  <2>1. responses[q] \in Response
    BY DEF Typed, ResponsesTyped, ResponseOK
  <2>2. QED
    BY <2>1 DEF Response
<1> HIDE DEF given_to, gone
<1>3. /\ DOMAIN responses' \subseteq DOMAIN responses
      /\ \A q \in DOMAIN responses' : responses'[q] = given_to(q)
  BY <1>1 DEF without
<1>4. \A q \in DOMAIN responses' : KeepsResponse(responses[q], responses'[q])
  BY <1>2, <1>3, ResponsesAsTheyAre
<1>5. Shorter(to_provider, to_provider')
  BY <1>1 DEF Shorter
<1>6. Traced'
  BY <1>1, <1>3, <1>4, <1>5, ProviderTraces
<1>7. Exact'
  BY <1>1, <1>2, <1>3, ResponsesMarked
<1>8. QED
  BY <1>6, <1>7

\* A provider loses a connection.
LEMMA ProviderLosesExact ==
  ASSUME Typed, Traced, Exact, NEW c \in Connections, ProviderLoses(c)
  PROVE  Traced' /\ Exact'
<1> DEFINE lost(q) == IF responses[q].connection = c THEN [responses[q] EXCEPT !.was_cancelled = TRUE]
                      ELSE responses[q]
<1>1. /\ responses' = [q \in DOMAIN responses |-> lost(q)]
      /\ to_provider' = [to_provider EXCEPT ![c] = <<>>]
      /\ UNCHANGED <<queries, heard, text, asked, failed, ended, given, asker_up, to_asker>>
  BY DEF ProviderLoses, asking
<1>2. ASSUME NEW q \in DOMAIN responses
      PROVE  /\ lost(q).connection = responses[q].connection
             /\ lost(q).service_id = responses[q].service_id
             /\ lost(q).completed = responses[q].completed
             /\ lost(q).answers = responses[q].answers
             /\ lost(q).buffer = responses[q].buffer
             /\ lost(q).was_cancelled = responses[q].was_cancelled \/ lost(q).was_cancelled = TRUE
  <2>1. responses[q] \in Response
    BY DEF Typed, ResponsesTyped, ResponseOK
  <2>2. QED
    BY <2>1 DEF Response
<1> HIDE DEF lost
<1>3. /\ DOMAIN responses' \subseteq DOMAIN responses
      /\ \A q \in DOMAIN responses' : responses'[q] = lost(q)
  BY <1>1
<1>4. \A q \in DOMAIN responses' : KeepsResponse(responses[q], responses'[q])
  BY <1>2, <1>3, ResponsesAsTheyAre
<1>5. Shorter(to_provider, to_provider')
  BY <1>1 DEF Shorter
<1>6. Traced'
  BY <1>1, <1>3, <1>4, <1>5, ProviderTraces
<1>7. Exact'
  BY <1>1, <1>2, <1>3, ResponsesMarked
<1>8. QED
  BY <1>6, <1>7

\* What is sent over a connection is nothing to a query it does not answer.
LEMMA OtherMessageComes ==
  ASSUME Typed, NEW c \in Connections, NEW m \in AskerMessages, Sent(c, to_asker, asker_up, m),
         NEW d \in Connections, NEW q, ~IsOf(m, q), NEW i, NEW t, NEW u, Comes(to_asker[d], q, i, t, u)
  PROVE  Comes(to_asker'[d], q, i, t, u)
<1>1. to_asker \in [Connections -> Seq(AskerMessages)]
  BY DEF Typed, ChannelsTyped
<1>2. Comes(Append(to_asker[d], m), q, i, t, u)
  BY <1>1, ComesMore
<1>3. to_asker'[d] \in {to_asker[d], Append(to_asker[d], m)}
  BY <1>1 DEF Sent
<1>4. QED
  BY <1>2, <1>3

\* A provider tells of its services.
LEMMA AnnounceExact ==
  ASSUME Typed, Traced, Exact, NEW c \in Connections, Announce(c)
  PROVE  Traced' /\ Exact'
<1>1. UNCHANGED <<queries, heard, text, asked, failed, ended, given, asker_up, responses, to_provider>>
  BY DEF Announce, links, asking
<1>2. PICK m \in AskerMessages : m.kind \in {"a", "A"} /\ Sent(c, to_asker, asker_up, m)
  <2>0. /\ told[c] \in Tables
        /\ my_services \in [Providers -> SUBSET Services] /\ ProviderOf[c] \in Providers
    BY DbAssumption DEF Typed, ServicesTyped
  <2>1. CASE \E s \in unannounced(c), id \in ServiceIds \ ids(told[c]) :
               Sent(c, to_asker, asker_up, [kind |-> "a", service |-> s, id |-> id])
    <3>1. unannounced(c) \subseteq Services
      BY <2>0 DEF unannounced
    <3>2. \A s \in Services, id \in ServiceIds : [kind |-> "a", service |-> s, id |-> id] \in AskerMessages
      BY DEF AskerMessages
    <3>3. QED
      BY <2>1, <3>1, <3>2
  <2>2. CASE \E s \in withdrawn(c) : Sent(c, to_asker, asker_up, [kind |-> "A", id |-> told[c][s]])
    <3>1. \A s \in withdrawn(c) : told[c][s] \in ServiceIds
      BY <2>0, IdsOfTable DEF withdrawn
    <3>2. \A id \in ServiceIds : [kind |-> "A", id |-> id] \in AskerMessages
      BY DEF AskerMessages
    <3>3. QED
      BY <2>2, <3>1, <3>2
  <2>3. QED
    BY <2>1, <2>2 DEF Announce
<1>3. /\ \A q : ~IsOf(m, q)
      /\ OfResponse(c, m)
  BY <1>2 DEF IsOf, OfResponse
<1>4. Traced'
  <2>1. \A q \in DOMAIN responses : KeepsResponse(responses[q], responses[q])
    BY ResponsesAsTheyAre
  <2>2. Shorter(to_provider, to_provider')
    BY <1>1 DEF Shorter
  <2>3. QED
    BY <1>1, <1>2, <1>3, <2>1, <2>2, ProviderTraces
<1>5. Exact'
  <2>1. ASSUME NEW q \in DOMAIN queries, NEW i, NEW t \in Progress, NEW u \in Progress,
               Comes(to_asker[queries[q].connection], q, i, t, u), Provided(q, i, u)
        PROVE  Comes(to_asker'[queries[q].connection], q, i, t, u) /\ Provided(q, i, u)'
    <3>1. queries[q].connection \in Connections
      BY DEF Typed, QueriesTyped, Query
    <3>2. Comes(to_asker'[queries[q].connection], q, i, t, u)
      BY <1>2, <1>3, <2>1, <3>1, OtherMessageComes
    <3>3. Provided(q, i, u)'
      BY <1>1, <2>1 DEF Provided
    <3>4. QED
      BY <3>2, <3>3
  <2>2. QED
    BY <1>1, <2>1, AnswersMove
<1>6. QED
  BY <1>4, <1>5

LEMMA ToProviderGrows ==
  ASSUME Typed, UNCHANGED asked, NEW at, MessagesFollow(at), NEW c \in Connections,
         NEW m \in ToProvider(at, c), Sent(c, to_provider, provider_up, m)
  PROVE  \A d \in Connections : to_provider'[d] \in Seq(ToProvider(at, d)')
<1> DEFINE P == [d \in Connections |-> ToProvider(at, d)]
           after == to_provider'
<1>1. m \in P[c] /\ \A d \in Connections : to_provider[d] \in Seq(P[d])
  BY DEF MessagesFollow
<1>2. \A d \in Connections : P[d] = ToProvider(at, d)'
  BY KindsStay
<1>3. Sending(to_provider, after, c, provider_up, m) /\ DOMAIN to_provider = Connections
  BY ChannelsAreMaps DEF Sent, Sending
<1> HIDE DEF P, after
<1>4. \A d \in Connections : after[d] \in Seq(P[d])
  BY <1>1, <1>3, SendingKeeps
<1>5. QED
  BY <1>2, <1>4 DEF after

\* What there is in a channel after a message was sent: that one, or one that
\* there was before.
LEMMA OneMoreComes ==
  ASSUME Typed, NEW c \in Connections, NEW m \in ProviderMessages(DOMAIN asked),
         Sent(c, to_provider, provider_up, m), NEW d \in Connections
  PROVE  \/ to_provider'[d] = to_provider[d]
         \/ /\ Len(to_provider[d]) \in Nat
            /\ Len(to_provider'[d]) = Len(to_provider[d]) + 1
            /\ to_provider'[d][Len(to_provider[d]) + 1] = m
            /\ \A k \in 1 .. Len(to_provider[d]) : to_provider'[d][k] = to_provider[d][k]
<1>1. to_provider \in [Connections -> Seq(ProviderMessages(DOMAIN asked))]
  BY DEF Typed, ChannelsTyped
<1>2. to_provider'[d] \in {to_provider[d], Append(to_provider[d], m)}
  BY <1>1 DEF Sent
<1>3. Len(to_provider[d]) \in Nat
  BY <1>1
<1>4. QED
  BY <1>1, <1>2, <1>3, Appended

LEMMA NoneComesMore ==
  ASSUME Typed, NEW c \in Connections, NEW m \in ProviderMessages(DOMAIN asked),
         Sent(c, to_provider, provider_up, m), NEW q, NoneComes(q), ~IsPart(m, q)
  PROVE  NoneComes(q)'
<1> SUFFICES ASSUME NEW d \in Connections, NEW k \in 1 .. Len(to_provider'[d])
             PROVE  ~IsPart(to_provider'[d][k], q)
  BY DEF NoneComes
<1> DEFINE L == Len(to_provider[d])
           s == to_provider[d]
           s1 == to_provider'[d]
<1>1. \/ s1 = s
      \/ L \in Nat /\ Len(s1) = L + 1 /\ s1[L + 1] = m /\ \A j \in 1 .. L : s1[j] = s[j]
  BY OneMoreComes
<1>2. \A j \in 1 .. L : ~IsPart(s[j], q)
  BY DEF NoneComes
<1>3. k \in 1 .. Len(s1)
  OBVIOUS
<1> HIDE DEF s, s1
<1>4. ~IsPart(s1[k], q)
  <2>1. CASE s1 = s
    BY <1>2, <1>3, <2>1 DEF s
  <2> HIDE DEF L
  <2>2. CASE L \in Nat /\ Len(s1) = L + 1 /\ s1[L + 1] = m /\ \A j \in 1 .. L : s1[j] = s[j]
    <3>1. k \in 1 .. L \/ k = L + 1
      BY <1>3, <2>2
    <3>2. QED
      BY <1>2, <2>2, <3>1
  <2>3. QED
    BY <1>1, <2>1, <2>2
<1>5. QED
  BY <1>4 DEF s1

LEMMA LastIsLastMore ==
  ASSUME Typed, QueriesGoOn, NEW c \in Connections, NEW m \in ProviderMessages(DOMAIN asked),
         Sent(c, to_provider, provider_up, m),
         NEW q, IsPart(m, q) => ~AllSent(q), IsLast(m, q) => AllSent(q)',
         NEW d \in Connections, LastIsLast(d, q)
  PROVE  LastIsLast(d, q)'
<1> DEFINE L == Len(to_provider[d])
           s == to_provider[d]
           s1 == to_provider'[d]
           M == Len(s1)
<1>1. \/ s1 = s
      \/ L \in Nat /\ M = L + 1 /\ s1[L + 1] = m /\ \A j \in 1 .. L : s1[j] = s[j]
  BY OneMoreComes
<1>2. \A k \in 1 .. L : IsLast(s[k], q) => AllSent(q) /\ \A j \in k + 1 .. L : ~IsPart(s[j], q)
  BY DEF LastIsLast
<1>3. L = Len(s)
  OBVIOUS
<1>4. AllSent(q) => AllSent(q)'
  BY AllSentStays
<1> HIDE DEF s, s1, L
<1>5. ASSUME NEW k \in 1 .. M, IsLast(s1[k], q)
      PROVE  AllSent(q)' /\ \A j \in k + 1 .. M : ~IsPart(s1[j], q)
  <2>1. CASE s1 = s
    BY <1>2, <1>3, <1>4, <1>5, <2>1
  <2> HIDE DEF M
  <2>2. CASE L \in Nat /\ M = L + 1 /\ s1[L + 1] = m /\ \A j \in 1 .. L : s1[j] = s[j]
    <3>1. CASE k = L + 1
      <4>1. AllSent(q)'
        BY <1>5, <2>2, <3>1
      <4>2. k + 1 .. M = {}
        BY <2>2, <3>1
      <4>3. QED
        BY <4>1, <4>2
    <3>2. CASE k \in 1 .. L
      <4>1. AllSent(q) /\ \A j \in k + 1 .. L : ~IsPart(s[j], q)
        BY <1>2, <1>5, <2>2, <3>2
      <4>2. ASSUME NEW j \in k + 1 .. M PROVE ~IsPart(s1[j], q)
        <5>1. j \in k + 1 .. L \/ j = L + 1
          BY <2>2
        <5>2. j \in k + 1 .. L => j \in 1 .. L
          BY <3>2
        <5>3. QED
          BY <2>2, <4>1, <5>1, <5>2
      <4>3. QED
        BY <1>4, <4>1, <4>2
    <3>3. QED
      BY <2>2, <3>1, <3>2
  <2>3. QED
    BY <1>1, <2>1, <2>2
<1>6. QED
  BY <1>5 DEF LastIsLast, M, s1

\* A part of a query, or its cancel, is sent.
LEMMA SendOfQueryExact ==
  ASSUME Typed, Traced, Exact, NEW c \in Connections, SendOfQuery(c)
  PROVE  Traced' /\ Exact'
<1> DEFINE q == Sender(c)
           s == queries[q]
           m0 == [kind |-> "C", id |-> s.service_id, query |-> q]
           m1(n) == [kind |-> IF n = s.unsent THEN "Q" ELSE "q", id |-> s.service_id, query |-> q,
                     parts |-> n]
<1> HIDE DEF q
<1>1. /\ q \in DOMAIN queries /\ s.connection = c
      /\ \/ /\ queries' = [queries EXCEPT ![q].query = "CancelWasSent"]
            /\ Sent(c, to_provider, provider_up, m0)
         \/ \E n \in 1 .. s.unsent : /\ queries' = [queries EXCEPT ![q].unsent = @ - n]
                                     /\ Sent(c, to_provider, provider_up, m1(n))
      /\ UNCHANGED <<links, known, text, failed, asker_callback, asked, heard, ended, providing, to_asker>>
  BY SendOfQuerySteps DEF q
<1>2. s \in Query /\ q \in DOMAIN asked
  BY <1>1 DEF Typed, QueriesTyped
<1>3. QueriesGoOn
  BY SendOfQueryKeepsTypes
<1>4. UNCHANGED <<text, failed, asked, heard, ended, given, responses, asker_up, to_asker>>
  BY <1>1 DEF providing, links
<1>5. PICK m \in ProviderMessages(DOMAIN asked) :
        /\ Sent(c, to_provider, provider_up, m)
        /\ m.query = q /\ m.id = s.service_id
        /\ m.kind \in {"q", "Q"} => s.unsent # 0
        /\ m.kind = "Q" => queries'[q].unsent = 0
        /\ queries'[q].answers = s.answers /\ queries'[q].response = s.response
        /\ queries'[q].service_id = s.service_id
        /\ \A x \in DOMAIN queries \ {q} : queries'[x] = queries[x]
  <2>1. CASE /\ queries' = [queries EXCEPT ![q].query = "CancelWasSent"]
             /\ Sent(c, to_provider, provider_up, m0)
    <3> DEFINE s1 == [s EXCEPT !.query = "CancelWasSent"]
    <3>1. queries'[q] = s1 /\ \A x \in DOMAIN queries \ {q} : queries'[x] = queries[x]
      BY <1>1, <2>1
    <3>2. s1.answers = s.answers /\ s1.response = s.response /\ s1.service_id = s.service_id
      BY <1>2 DEF Query
    <3>3. /\ m0 \in ProviderMessages(DOMAIN asked)
          /\ m0.query = q /\ m0.id = s.service_id /\ m0.kind = "C"
      BY <1>2 DEF ProviderMessages, Query
    <3> HIDE DEF s1, m0
    <3>4. QED
      BY <2>1, <3>1, <3>2, <3>3
  <2>2. ASSUME NEW n \in 1 .. s.unsent, queries' = [queries EXCEPT ![q].unsent = @ - n],
               Sent(c, to_provider, provider_up, m1(n))
        PROVE  \E m \in ProviderMessages(DOMAIN asked) :
                 /\ Sent(c, to_provider, provider_up, m)
                 /\ m.query = q /\ m.id = s.service_id
                 /\ m.kind \in {"q", "Q"} => s.unsent # 0
                 /\ m.kind = "Q" => queries'[q].unsent = 0
                 /\ queries'[q].answers = s.answers /\ queries'[q].response = s.response
                 /\ queries'[q].service_id = s.service_id
                 /\ \A x \in DOMAIN queries \ {q} : queries'[x] = queries[x]
    <3> DEFINE k == s.unsent - n
               s1 == [s EXCEPT !.unsent = k]
               m == m1(n)
    <3>1. queries'[q] = s1 /\ \A x \in DOMAIN queries \ {q} : queries'[x] = queries[x]
      BY <1>1, <2>2
    <3>2. /\ s1.answers = s.answers /\ s1.response = s.response /\ s1.service_id = s.service_id
          /\ s1.unsent = k
      BY <1>2 DEF Query
    <3>3. s.unsent \in Nat /\ n \in Nat /\ s.unsent # 0
      BY <1>2 DEF Query
    <3>4. /\ m \in ProviderMessages(DOMAIN asked)
          /\ m.query = q /\ m.id = s.service_id
      BY <1>2, <3>3 DEF ProviderMessages, Query
    <3>5. m.kind = "Q" => k = 0
      BY <3>3
    <3> HIDE DEF s1, m1, m
    <3>6. Sent(c, to_provider, provider_up, m)
      BY <2>2 DEF m
    <3> HIDE DEF k
    <3>7. QED
      BY <3>1, <3>2, <3>3, <3>4, <3>5, <3>6
  <2>3. QED
    BY <1>1, <2>1, <2>2
<1> HIDE DEF s
<1>6. ASSUME NEW x \in DOMAIN queries'
      PROVE  /\ x \in DOMAIN queries
             /\ queries'[x].service_id = queries[x].service_id
             /\ queries'[x].connection = queries[x].connection
             /\ queries'[x].answers = queries[x].answers
             /\ queries'[x].response = queries[x].response
  <2>1. x \in DOMAIN queries /\ queries'[x].connection = queries[x].connection
    BY <1>3 DEF QueriesGoOn, StaysQuery
  <2>2. QED
    BY <1>5, <2>1 DEF s
<1>7. Exact'
  BY <1>3, <1>4, <1>6, QueriesFail DEF Changes
<1>8. OneTrace'
  <2>1. PICK at : QueriesFollow(at) /\ ResponsesFollow(at) /\ MessagesFollow(at)
    BY DEF Traced, OneTrace
  <2>2. QueriesFollow(at)'
    BY <1>6, <2>1 DEF QueriesFollow
  <2>3. ResponsesFollow(at)'
    BY <1>4, <2>1 DEF ResponsesFollow
  <2>4. m \in ToProvider(at, c)
    BY <1>1, <1>5, <2>1 DEF ToProvider, QueriesFollow, s
  <2>5. \A d \in Connections : to_provider'[d] \in Seq(ToProvider(at, d)')
    BY <1>4, <1>5, <2>1, <2>4, ToProviderGrows
  <2>6. \A d \in Connections : to_asker'[d] \in Seq(ToAsker(at, d)')
    BY <1>4, <2>1, KindsStay DEF MessagesFollow
  <2>7. QED
    BY <2>2, <2>3, <2>5, <2>6 DEF OneTrace, MessagesFollow
<1>9. ASSUME NEW x
      PROVE  /\ IsPart(m, x) => ~AllSent(x)
             /\ IsLast(m, x) => AllSent(x)'
  BY <1>1, <1>5 DEF IsPart, IsLast, AllSent, s
<1>10. OnceBegun'
  <2> SUFFICES ASSUME NEW x \in DOMAIN asked, IsBegun(x)' PROVE AllSent(x)' /\ NoneComes(x)'
    BY <1>4 DEF OnceBegun
  <2>1. IsBegun(x)
    BY <1>4, BegunAsBefore
  <2>2. AllSent(x) /\ NoneComes(x)
    BY <2>1 DEF Traced, OnceBegun
  <2>3. QED
    BY <1>3, <1>5, <1>9, <2>2, AllSentStays, NoneComesMore
<1>11. LastParts'
  <2> SUFFICES ASSUME NEW d \in Connections, NEW x \in DOMAIN asked PROVE LastIsLast(d, x)'
    BY <1>4 DEF LastParts
  <2>1. LastIsLast(d, x)
    BY DEF Traced, LastParts
  <2>2. QED
    BY <1>3, <1>5, <1>9, <2>1, LastIsLastMore
<1>12. NoAnswerYet'
  BY <1>4 DEF Traced, NoAnswerYet
<1>13. QED
  BY <1>7, <1>8, <1>10, <1>11, <1>12 DEF Traced

\* What a query that was just sent has: of its answer nothing, and either it is
\* the asker's, over a connection that is up, or it has failed.
NewQuery(q) ==
  /\ q \notin DOMAIN asked
  /\ DOMAIN asked' = DOMAIN asked \cup {q}
  /\ \A x \in DOMAIN asked : asked'[x] = asked[x] /\ heard'[x] = heard[x] /\ given'[x] = given[x]
  /\ \A i \in 1 .. asked'[q].commands :
       heard'[q][i] = [status |-> "ROWS", rows |-> <<>>] /\ given'[q][i] = Unanswered
  /\ UNCHANGED <<asker_up, text, ended, responses, to_provider, to_asker>>
  /\ \/ /\ DOMAIN queries' = DOMAIN queries \cup {q}
        /\ \A x \in DOMAIN queries : queries'[x] = queries[x]
        /\ queries'[q].connection \in asker_up
        /\ \A i \in 1 .. asked'[q].commands : queries'[q].answers[i] = NoAnswer
        /\ failed' = failed
     \/ queries' = queries /\ failed' = failed \cup {q}

LEMMA SendQueryIsNew ==
  ASSUME Typed, NEW service \in Services, NEW shape \in Shapes, SendQuery(service, shape)
  PROVE  \E q : NewQuery(q)
<1> DEFINE q == Cardinality(DOMAIN asked) + 1
           a == [service |-> service, commands |-> shape.commands, parts |-> shape.parts]
           h == [i \in 1 .. shape.commands |-> [status |-> "ROWS", rows |-> <<>>]]
           g == [i \in 1 .. shape.commands |-> [status |-> "ROWS", rows |-> 0]]
<1>1. /\ q \in QueryIds /\ asked' = set(asked, q, a) /\ heard' = set(heard, q, h)
      /\ given' = set(given, q, g)
      /\ \/ \E c \in asker_up : /\ queries' = set(queries, q, new_query(c, service, shape))
                                /\ failed' = failed
         \/ failed' = failed \cup {q} /\ queries' = queries
      /\ UNCHANGED <<asker_up, text, ended, responses, to_provider, to_asker>>
  BY DEF SendQuery, links
<1>2. q \notin DOMAIN asked
  BY NumberIsNew
<1>3. /\ a.commands = shape.commands
      /\ \A i \in 1 .. shape.commands : /\ h[i] = [status |-> "ROWS", rows |-> <<>>]
                                        /\ g[i] = Unanswered
  BY DEF Unanswered
<1>4. \A c : /\ new_query(c, service, shape).connection = c
             /\ \A i \in 1 .. shape.commands : new_query(c, service, shape).answers[i] = NoAnswer
  BY DEF new_query
<1>5. DOMAIN heard = DOMAIN asked /\ DOMAIN given = DOMAIN asked /\ DOMAIN queries \subseteq DOMAIN asked
  BY DEF Typed, AskedTyped, QueriesTyped
<1> HIDE DEF q, a, h, g
<1>6. /\ DOMAIN asked' = DOMAIN asked \cup {q} /\ asked'[q] = a
      /\ heard'[q] = h /\ given'[q] = g
      /\ \A x \in DOMAIN asked : asked'[x] = asked[x] /\ heard'[x] = heard[x] /\ given'[x] = given[x]
  <2>1. asked' = set(asked, q, a) /\ heard' = set(heard, q, h) /\ given' = set(given, q, g)
    BY <1>1
  <2>2. /\ DOMAIN asked' = DOMAIN asked \cup {q} /\ asked'[q] = a
        /\ \A x \in DOMAIN asked : x # q => asked'[x] = asked[x]
    BY <2>1 DEF set
  <2>3. heard'[q] = h /\ \A x \in DOMAIN heard : x # q => heard'[x] = heard[x]
    BY <2>1 DEF set
  <2>4. given'[q] = g /\ \A x \in DOMAIN given : x # q => given'[x] = given[x]
    BY <2>1 DEF set
  <2>5. QED
    BY <1>2, <1>5, <2>2, <2>3, <2>4
<1>7. \/ /\ DOMAIN queries' = DOMAIN queries \cup {q}
         /\ \A x \in DOMAIN queries : queries'[x] = queries[x]
         /\ queries'[q].connection \in asker_up
         /\ \A i \in 1 .. shape.commands : queries'[q].answers[i] = NoAnswer
         /\ failed' = failed
      \/ queries' = queries /\ failed' = failed \cup {q}
  <2>1. ASSUME NEW c \in asker_up, queries' = set(queries, q, new_query(c, service, shape))
        PROVE  /\ DOMAIN queries' = DOMAIN queries \cup {q}
               /\ \A x \in DOMAIN queries : queries'[x] = queries[x]
               /\ queries'[q].connection \in asker_up
               /\ \A i \in 1 .. shape.commands : queries'[q].answers[i] = NoAnswer
    <3> DEFINE n == new_query(c, service, shape)
    <3>1. n.connection = c /\ \A i \in 1 .. shape.commands : n.answers[i] = NoAnswer
      BY <1>4
    <3> HIDE DEF n
    <3>2. /\ DOMAIN queries' = DOMAIN queries \cup {q} /\ queries'[q] = n
          /\ \A x \in DOMAIN queries : x # q => queries'[x] = queries[x]
      BY <2>1, SetMap DEF n
    <3>3. QED
      BY <1>2, <1>5, <3>1, <3>2
  <2>2. QED
    BY <1>1, <2>1
<1>8. NewQuery(q)
  BY <1>1, <1>2, <1>3, <1>6, <1>7 DEF NewQuery
<1>9. QED
  BY <1>8

\* Nothing of it is on its way.
LEMMA NothingOfNew ==
  ASSUME Typed, OneTrace, NEW q, q \notin DOMAIN asked, NEW c \in Connections
  PROVE  /\ \A n \in 1 .. Len(to_asker[c]) : ~IsOf(to_asker[c][n], q)
         /\ \A n \in 1 .. Len(to_provider[c]) : ~IsPart(to_provider[c][n], q)
<1>1. PICK at : MessagesFollow(at)
  BY DEF OneTrace
<1>2. ASSUME NEW n \in 1 .. Len(to_asker[c]) PROVE ~IsOf(to_asker[c][n], q)
  <2>1. to_asker[c][n] \in ToAsker(at, c)
    BY <1>1 DEF MessagesFollow
  <2>2. QED
    BY <2>1 DEF ToAsker, IsOf
<1>3. ASSUME NEW n \in 1 .. Len(to_provider[c]) PROVE ~IsPart(to_provider[c][n], q)
  <2>1. to_provider[c][n] \in ProviderMessages(DOMAIN asked)
    BY DEF Typed, ChannelsTyped
  <2>2. to_provider[c][n].query \in DOMAIN asked
    BY <2>1 DEF ProviderMessages
  <2>3. QED
    BY <2>2 DEF IsPart
<1>4. QED
  BY <1>2, <1>3

LEMMA SeqOfMore ==
  ASSUME NEW S, NEW T, S \subseteq T, NEW s \in Seq(S)
  PROVE  s \in Seq(T)
OBVIOUS

LEMMA NewIsTraced ==
  ASSUME Typed, Traced, NEW q, NewQuery(q), Typed'
  PROVE  Traced'
<1>1. PICK at : QueriesFollow(at) /\ ResponsesFollow(at) /\ MessagesFollow(at)
  BY DEF Traced, OneTrace
<1>2. PICK at1 : /\ \A x \in DOMAIN asked : at1[x] = at[x]
                 /\ at1[q] = <<queries'[q].connection, queries'[q].service_id>>
  <2> DEFINE at2 == [x \in DOMAIN asked \cup {q} |->
                      IF x = q THEN <<queries'[q].connection, queries'[q].service_id>> ELSE at[x]]
  <2>1. /\ \A x \in DOMAIN asked : at2[x] = at[x]
        /\ at2[q] = <<queries'[q].connection, queries'[q].service_id>>
    BY DEF NewQuery
  <2> HIDE DEF at2
  <2>2. QED
    BY <2>1
<1>3. at1[q] = <<queries'[q].connection, queries'[q].service_id>>
  BY <1>2
<1>4. DOMAIN queries \subseteq DOMAIN asked /\ DOMAIN responses \subseteq DOMAIN asked
  BY DEF Typed, QueriesTyped, ResponsesTyped
<1>5. QueriesFollow(at1)'
  <2> SUFFICES ASSUME NEW x \in DOMAIN queries'
               PROVE  at1[x] = <<queries'[x].connection, queries'[x].service_id>>
    BY DEF QueriesFollow
  <2>1. CASE x = q
    BY <1>3, <2>1
  <2>2. CASE x # q
    <3>1. x \in DOMAIN queries /\ queries'[x] = queries[x]
      BY <2>2 DEF NewQuery
    <3>2. QED
      BY <1>1, <1>2, <1>4, <3>1 DEF QueriesFollow
  <2>3. QED
    BY <2>1, <2>2
<1>6. ResponsesFollow(at1)'
  BY <1>1, <1>2, <1>4 DEF ResponsesFollow, NewQuery
<1>7. MessagesFollow(at1)'
  <2> SUFFICES ASSUME NEW c \in Connections
               PROVE  /\ to_provider'[c] \in Seq(ToProvider(at1, c)')
                      /\ to_asker'[c] \in Seq(ToAsker(at1, c)')
    BY DEF MessagesFollow
  <2>1. ToProvider(at, c) \subseteq ToProvider(at1, c)'
    <3>1. ASSUME NEW m \in ToProvider(at, c) PROVE m \in ToProvider(at1, c)'
      <4>1. m \in ProviderMessages(DOMAIN asked) /\ at[m.query] = <<c, m.id>>
        BY DEF ToProvider
      <4>2. m.query \in DOMAIN asked
        BY <4>1 DEF ProviderMessages
      <4>3. m \in ProviderMessages(DOMAIN asked')
        BY <4>1 DEF ProviderMessages, NewQuery
      <4>4. QED
        BY <1>2, <4>1, <4>2, <4>3 DEF ToProvider
    <3>2. QED
      BY <3>1
  <2>2. ToAsker(at, c) \subseteq ToAsker(at1, c)'
    BY <1>2 DEF ToAsker, NewQuery
  <2>3. to_provider[c] \in Seq(ToProvider(at, c)) /\ to_asker[c] \in Seq(ToAsker(at, c))
    BY <1>1 DEF MessagesFollow
  <2>4. to_provider[c] \in Seq(ToProvider(at1, c)') /\ to_asker[c] \in Seq(ToAsker(at1, c)')
    BY <2>1, <2>2, <2>3, SeqOfMore
  <2>5. QED
    BY <2>4 DEF NewQuery
<1>8. OneTrace'
  BY <1>5, <1>6, <1>7 DEF OneTrace
<1>9. ASSUME NEW x \in DOMAIN asked PROVE AllSent(x) => AllSent(x)'
  BY <1>4 DEF AllSent, NewQuery
<1>10. \A x : NoneComes(x) => NoneComes(x)'
  BY DEF NoneComes, NewQuery
<1>11. OnceBegun'
  <2> SUFFICES ASSUME NEW x \in DOMAIN asked', IsBegun(x)' PROVE AllSent(x)' /\ NoneComes(x)'
    BY DEF OnceBegun
  <2>1. x # q
    BY <1>4 DEF IsBegun, NewQuery, Commands
  <2>2. x \in DOMAIN asked /\ IsBegun(x)
    BY <2>1 DEF IsBegun, NewQuery, Commands
  <2>3. QED
    BY <1>9, <1>10, <2>2 DEF Traced, OnceBegun
<1>12. LastParts'
  <2> SUFFICES ASSUME NEW c \in Connections, NEW x \in DOMAIN asked' PROVE LastIsLast(c, x)'
    BY DEF LastParts
  <2>1. CASE x = q
    <3>1. \A n \in 1 .. Len(to_provider'[c]) : ~IsPart(to_provider'[c][n], q)
      BY NothingOfNew DEF Traced, NewQuery
    <3>2. QED
      BY <2>1, <3>1 DEF LastIsLast, IsLast, IsPart
  <2>2. CASE x # q
    <3>1. x \in DOMAIN asked /\ LastIsLast(c, x)
      BY <2>2 DEF Traced, LastParts, NewQuery
    <3>2. QED
      BY <1>9, <3>1 DEF LastIsLast, NewQuery
  <2>3. QED
    BY <2>1, <2>2
<1>13. NoAnswerYet'
  BY DEF Traced, NoAnswerYet, NewQuery
<1>14. QED
  BY <1>8, <1>11, <1>12, <1>13 DEF Traced

LEMMA NewIsExact ==
  ASSUME Typed, Traced, Exact, NEW q, NewQuery(q), Typed'
  PROVE  Exact'
<1> DEFINE none == [status |-> "ROWS", rows |-> <<>>]
<1>1. DOMAIN queries \subseteq DOMAIN asked /\ DOMAIN responses \subseteq DOMAIN asked
  BY DEF Typed, QueriesTyped, ResponsesTyped
<1>2. ASSUME NEW x \in DOMAIN asked
      PROVE  /\ x # q /\ Commands(x)' = Commands(x)
             /\ x \in DOMAIN queries' <=> x \in DOMAIN queries
             /\ x \in DOMAIN queries => queries'[x] = queries[x]
             /\ \A i : got(x, i)' = got(x, i)
             /\ heard'[x] = heard[x] /\ given'[x] = given[x]
  BY DEF NewQuery, Commands, got
<1>3. none.rows = <<>> /\ none.status = "ROWS" /\ none \in Outcome
  BY DEF Outcome, Statuses
<1>4. Unanswered \in Progress /\ Unanswered.status = "ROWS" /\ Unanswered.rows = 0
  BY DEF Progress, Unanswered, Statuses
<1>5. joined(none, NoAnswer) = none
  BY DEF joined, NoAnswer
<1> HIDE DEF none
<1>6. \A i \in Commands(q)' : got(q, i)' = none /\ given'[q][i] = Unanswered
  BY <1>1, <1>5 DEF got, NewQuery, Commands, none
<1>7. \A p : Told(none, Unanswered, p) /\ Given(none, Unanswered, p)
  BY <1>3, <1>4 DEF Told, Given, Increasing, Complete
<1>8. Running'
  <2> SUFFICES ASSUME NEW x \in DOMAIN queries', queries'[x].response = "Running"
               PROVE  queries'[x].connection \in asker_up' /\ \A i \in Commands(x)' : Tracked(x, i)'
    BY DEF Running
  <2>1. CASE x = q
    <3>1. queries'[q].connection \in asker_up /\ asker_up' = asker_up
      BY <1>1, <2>1 DEF NewQuery
    <3> DEFINE c == queries'[q].connection
    <3>2. c \in Connections
      BY <3>1 DEF Typed, LinksTyped
    <3>3. ASSUME NEW i \in Commands(q)' PROVE Tracked(q, i)'
      <4>1. Told(got(q, i)', Unanswered, text'[q])
        BY <1>6, <1>7
      <4>2. Comes(to_asker[c], q, i, Unanswered, Unanswered)
        <5>1. \A n \in 1 .. Len(to_asker[c]) : ~IsOf(to_asker[c][n], q)
          BY <3>2, NothingOfNew DEF Traced, NewQuery
        <5>2. to_asker[c] \in Seq(AskerMessages)
          BY <3>2 DEF Typed, ChannelsTyped
        <5>3. QED
          BY <1>4, <5>1, <5>2, NothingComes
      <4>3. Provided(q, i, Unanswered)'
        <5>1. q \notin DOMAIN responses'
          BY <1>1 DEF NewQuery
        <5>2. Within(Unanswered, Unanswered)
          BY <1>4 DEF Within
        <5>3. QED
          BY <1>6, <5>1, <5>2 DEF Provided
      <4>4. to_asker' = to_asker
        BY DEF NewQuery
      <4>5. QED
        BY <1>4, <4>1, <4>2, <4>3, <4>4 DEF Tracked
    <3>4. QED
      BY <2>1, <3>1, <3>3
  <2>2. CASE x # q
    <3>1. x \in DOMAIN queries
      BY <2>2 DEF NewQuery
    <3>2. x \in DOMAIN asked
      BY <1>1, <3>1
    <3>3. queries[x].connection \in asker_up /\ \A i \in Commands(x) : Tracked(x, i)
      BY <1>2, <3>1, <3>2 DEF Exact, Running
    <3>4. ASSUME NEW i \in Commands(x) PROVE Tracked(x, i)'
      <4>1. PICK t, u \in Progress :
              /\ Told(got(x, i), t, text[x])
              /\ Comes(to_asker[queries[x].connection], x, i, t, u)
              /\ Provided(x, i, u)
        BY <3>3 DEF Tracked
      <4>2. Provided(x, i, u)'
        BY <1>2, <3>2, <4>1 DEF Provided, NewQuery
      <4>3. text' = text /\ to_asker' = to_asker
        BY DEF NewQuery
      <4>4. QED
        BY <1>2, <3>1, <3>2, <4>1, <4>2, <4>3 DEF Tracked
    <3>5. QED
      BY <1>2, <3>1, <3>2, <3>3, <3>4 DEF NewQuery
  <2>3. QED
    BY <2>1, <2>2
<1>9. Sound'
  <2> SUFFICES ASSUME NEW x \in DOMAIN asked', NEW i \in Commands(x)'
               PROVE  Given(got(x, i)', given'[x][i], text'[x])
    BY DEF Sound
  <2>1. CASE x = q
    BY <1>6, <1>7, <2>1
  <2>2. CASE x # q
    <3>1. x \in DOMAIN asked /\ text' = text
      BY <2>2 DEF NewQuery
    <3>2. QED
      BY <1>2, <3>1 DEF Exact, Sound
  <2>3. QED
    BY <2>1, <2>2
<1>10. Read'
  <2> SUFFICES ASSUME NEW x \in DOMAIN queries', NEW i \in Commands(x)'
               PROVE  Reads(heard'[x][i], queries'[x].answers[i])
    BY DEF Read
  <2>1. CASE x = q
    <3>1. heard'[q][i] = none /\ queries'[q].answers[i] = NoAnswer
      BY <1>1, <2>1 DEF NewQuery, Commands, none
    <3>2. Reads(none, NoAnswer)
      BY <1>3 DEF Reads, NoAnswer
    <3>3. QED
      BY <2>1, <3>1, <3>2
  <2>2. CASE x # q
    <3>1. x \in DOMAIN queries
      BY <2>2 DEF NewQuery
    <3>2. x \in DOMAIN asked
      BY <1>1, <3>1
    <3>3. QED
      BY <1>2, <3>1, <3>2 DEF Exact, Read
  <2>3. QED
    BY <2>1, <2>2
<1>11. Ended'
  <2>1. ended \subseteq DOMAIN asked /\ failed \subseteq DOMAIN asked /\ q \notin DOMAIN asked
    BY DEF Typed, AskedTyped, NewQuery
  <2>2. \A x \in ended' : all_final(heard'[x])
    BY <1>2, <2>1 DEF Exact, Ended, NewQuery
  <2>3. failed' \cap ended' = {}
    BY <2>1 DEF Exact, Ended, NewQuery
  <2>4. failed' \cap DOMAIN queries' = {}
    BY <1>1, <2>1 DEF Exact, Ended, NewQuery
  <2>5. QED
    BY <2>2, <2>3, <2>4 DEF Ended
<1>12. QED
  BY <1>8, <1>9, <1>10, <1>11 DEF Exact

\* A query is sent.
LEMMA SendQueryExact ==
  ASSUME Typed, Traced, Exact, NEW service \in Services, NEW shape \in Shapes,
         SendQuery(service, shape)
  PROVE  Traced' /\ Exact'
BY SendQueryKeepsTypes, SendQueryIsNew, NewIsTraced, NewIsExact

\* A sequence is its first elements and the rest of it.
LEMMA PartAndRest ==
  ASSUME NEW S, NEW b \in Seq(S), NEW n \in 0 .. Len(b)
  PROVE  /\ SubSeq(b, 1, n) \in Seq(S) /\ SubSeq(b, n + 1, Len(b)) \in Seq(S)
         /\ SubSeq(b, 1, n) \o SubSeq(b, n + 1, Len(b)) = b
<1> DEFINE x == SubSeq(b, 1, n)
           y == SubSeq(b, n + 1, Len(b))
<1>1. Len(b) \in Nat /\ b \in [1 .. Len(b) -> S]
  OBVIOUS
<1>2. x \in Seq(S) /\ Len(x) = n /\ \A k \in 1 .. n : x[k] = b[k]
  BY <1>1
<1>3. y \in Seq(S) /\ Len(y) = Len(b) - n /\ \A k \in 1 .. Len(b) - n : y[k] = b[n + k]
  <2> DEFINE N == Len(b)
             m == n + 1
  <2>1. N \in Nat /\ n \in 0 .. N /\ m \in Int /\ m = n + 1 /\ \A k \in m .. N : b[k] \in S
    BY <1>1
  <2>2. y = SubSeq(b, m, N)
    OBVIOUS
  <2> HIDE DEF y, N, m
  <2>3. /\ y \in Seq(S)
        /\ Len(y) = IF m <= N THEN N - m + 1 ELSE 0
        /\ \A k \in 1 .. N - m + 1 : y[k] = b[m + k - 1]
    BY <2>1, <2>2, SubSeqProperties
  <2>4. N - m + 1 = N - n /\ Len(y) = N - n /\ \A k \in 1 .. N - n : m + k - 1 = n + k
    BY <2>1, <2>3
  <2>5. \A k \in 1 .. N - n : y[k] = b[n + k]
    BY <2>3, <2>4
  <2>6. QED
    BY <2>3, <2>4, <2>5 DEF N
<1> HIDE DEF x, y
<1>4. x \o y \in Seq(S) /\ Len(x \o y) = Len(x) + Len(y)
      /\ \A k \in 1 .. Len(x) + Len(y) : (x \o y)[k] = IF k <= Len(x) THEN x[k] ELSE y[k - Len(x)]
  BY <1>2, <1>3, ConcatProperties
<1>5. Len(x \o y) = Len(b)
  BY <1>1, <1>2, <1>3, <1>4
<1>6. ASSUME NEW k \in 1 .. Len(b) PROVE (x \o y)[k] = b[k]
  <2>1. (x \o y)[k] = IF k <= n THEN x[k] ELSE y[k - n]
    BY <1>1, <1>2, <1>3, <1>4
  <2>2. k <= n => k \in 1 .. n
    BY <1>1
  <2>3. ~(k <= n) => k - n \in 1 .. Len(b) - n /\ n + (k - n) = k
    BY <1>1
  <2>4. QED
    BY <1>2, <1>3, <2>1, <2>2, <2>3
<1>7. x \o y = b
  BY <1>4, <1>5, <1>6, SeqEqual
<1>8. QED
  BY <1>2, <1>3, <1>7 DEF x, y

\* A part of an answer is sent: it says what comes next, and the rest of the
\* answer what comes after it.
LEMMA PartOfAnswer ==
  ASSUME NEW p, NEW n0 \in Nat, ResponseOK(p, n0),
         IF p.answers = <<>> THEN p.buffer = <<>> ELSE p.completed,
         NEW r, r = fill_response_buffer(p), NEW n \in 0 .. Len(r.buffer), NEW begins \in BOOLEAN,
         r.buffer # <<>>,
         NEW r1, r1 = rest_of(r, n, begins)
  PROVE  /\ KeepsResponse(p, r1)
         /\ \A i \in 1 .. n0 : \A u, g \in Progress : Holds(p, i, u, g) =>
              \E v \in Progress :
                Goes(SubSeq(r.buffer, 1, n), i, u, v) /\ Within(v, g) /\ Holds(r1, i, v, g)
<1>1. /\ ResponseOK(r, n0) /\ r.connection = p.connection /\ r.service_id = p.service_id
      /\ r.completed = p.completed /\ r.was_cancelled = p.was_cancelled
  BY BufferFilled
<1>2. PICK h \in [0 .. Len(p.answers) -> Seq(Entry)] :
        /\ h[0] = p.buffer
        /\ r = [p EXCEPT !.buffer = h[Len(p.answers)], !.answers = read_all(p.answers)]
  BY FilledInSteps
<1>3. p \in Response /\ r \in Response /\ p.answers \in Seq(Answer) /\ r.buffer \in Seq(Entry)
  BY <1>1 DEF ResponseOK, Response
<1>4. r.buffer = h[Len(p.answers)] /\ r.answers = read_all(p.answers)
  BY <1>2, <1>3 DEF Response
<1>5. p.answers # <<>>
  <2> SUFFICES ASSUME p.answers = <<>> PROVE FALSE
    OBVIOUS
  <2>1. r.buffer = <<>>
    BY <1>2, <1>4
  <2>2. QED
    BY <2>1
<1>6. DOMAIN p.answers = 1 .. n0 /\ r.answers # <<>> /\ r.answers \in Seq(Answer) /\ Len(r.answers) = n0
  <2>1. Len(p.answers) = n0
    BY <1>5 DEF ResponseOK
  <2>2. Len(r.answers) = Len(p.answers) /\ r.answers \in Seq(Answer)
    BY <1>3, <1>4, AnswersRead
  <2>3. QED
    BY <1>3, <1>5, <2>1, <2>2
<1> DEFINE b == r.buffer
           x == SubSeq(b, 1, n)
           y == SubSeq(b, n + 1, Len(b))
<1>7. x \in Seq(Entry) /\ y \in Seq(Entry) /\ x \o y = b
  BY <1>3, PartAndRest
<1>8. r1 = [r EXCEPT !.buffer = y, !.begun = begins]
  BY DEF rest_of
<1> HIDE DEF x, y
<1>9. /\ r1.connection = r.connection /\ r1.service_id = r.service_id /\ r1.completed = r.completed
      /\ r1.was_cancelled = r.was_cancelled /\ r1.answers = r.answers /\ r1.buffer = y
  BY <1>3, <1>8 DEF Response
<1>10. KeepsResponse(p, r1)
  BY <1>1, <1>5, <1>6, <1>9 DEF KeepsResponse
<1>11. ASSUME NEW i \in 1 .. n0, NEW u \in Progress, NEW g \in Progress, Holds(p, i, u, g)
       PROVE  \E v \in Progress : Goes(x, i, u, v) /\ Within(v, g) /\ Holds(r1, i, v, g)
  <2>1. PICK v0 \in Progress : Goes(p.buffer, i, u, v0) /\ Rest(v0, p.answers[i], g, p.was_cancelled)
    BY <1>5, <1>11 DEF Holds
  <2>2. PICK w \in Progress : Goes(b, i, u, w) /\ Rest(w, r.answers[i], g, p.was_cancelled)
    BY <1>6, <2>1, FilledSaysTheSame
  <2>3. PICK v \in Progress : Goes(x, i, u, v) /\ Goes(y, i, v, w)
    BY <1>7, <2>2, LeadsInParts DEF Goes
  <2>4. Holds(r1, i, v, g)
    BY <1>1, <1>6, <1>9, <2>2, <2>3 DEF Holds
  <2>5. Within(v, g)
    <3>1. r.answers[i] \in Answer
      BY <1>6
    <3>2. Within(w, g)
      BY <2>2, <3>1, RestIsWithin
    <3>3. GoesOn(v, w)
      BY <1>7, <2>3, EntriesGoOn
    <3>4. QED
      BY <3>2, <3>3, WithinBefore
  <2>6. QED
    BY <2>3, <2>4, <2>5
<1>12. QED
  BY <1>10, <1>11 DEF x, b

\* An answer, or that there will be none, is sent by its response.
LEMMA AnswerIsSent ==
  ASSUME Typed, Traced, Exact, NEW c \in Connections, NEW q \in DOMAIN responses,
         responses[q].connection = c, NEW m \in AskerMessages, Sent(c, to_asker, asker_up, m),
         m.kind \in {"r", "R", "E"}, m.query = q, m.id = responses[q].service_id,
         UNCHANGED <<queries, heard, text, asked, failed, ended, given, asker_up, to_provider>>,
         DOMAIN responses' \subseteq DOMAIN responses, DOMAIN responses \ {q} \subseteq DOMAIN responses',
         \A x \in DOMAIN responses' \ {q} : responses'[x] = responses[x],
         q \in DOMAIN responses' => KeepsResponse(responses[q], responses'[q]),
         \A i \in Commands(q) : \A u \in Progress : Provided(q, i, u) =>
           \E v \in Progress : /\ IF IsOf(m, q) THEN Goes(m.entries, i, u, v) ELSE u = v
                               /\ Provided(q, i, v)'
  PROVE  Traced' /\ Exact'
<1>1. OfResponse(c, m)
  BY DEF OfResponse
<1>2. Traced'
  <2>1. \A x \in DOMAIN responses' : KeepsResponse(responses[x], responses'[x])
    <3>1. \A x \in DOMAIN responses : KeepsResponse(responses[x], responses[x])
      BY ResponsesAsTheyAre
    <3>2. QED
      BY <3>1
  <2>2. Shorter(to_provider, to_provider')
    BY DEF Shorter
  <2>3. QED
    BY <1>1, <2>1, <2>2, ProviderTraces
<1>3. ASSUME NEW x \in DOMAIN queries, queries[x].response = "Running",
             NEW i \in Commands(x), NEW t \in Progress, NEW u \in Progress,
             Comes(to_asker[queries[x].connection], x, i, t, u), Provided(x, i, u)
      PROVE  \E v \in Progress :
               Comes(to_asker'[queries[x].connection], x, i, t, v) /\ Provided(x, i, v)'
  <2> DEFINE d == queries[x].connection
  <2>1. d \in Connections /\ d \in asker_up /\ to_asker \in [Connections -> Seq(AskerMessages)]
    BY <1>3 DEF Typed, QueriesTyped, ChannelsTyped, Query, Exact, Running
  <2>2. CASE x # q
    <3>1. ~IsOf(m, x)
      BY <2>2 DEF IsOf
    <3>2. Comes(to_asker'[d], x, i, t, u)
      BY <1>3, <2>1, <3>1, OtherMessageComes
    <3>3. Provided(x, i, u)'
      BY <1>3, <2>2 DEF Provided
    <3>4. QED
      BY <3>2, <3>3
  <2>3. CASE x = q
    <3>1. d = c
      <4>1. PICK at : QueriesFollow(at) /\ ResponsesFollow(at)
        BY DEF Traced, OneTrace
      <4>2. at[q] = <<d, queries[q].service_id>> /\ at[q] = <<c, responses[q].service_id>>
        BY <2>3, <4>1 DEF QueriesFollow, ResponsesFollow
      <4>3. QED
        BY <4>2
    <3>2. to_asker'[d] = Append(to_asker[d], m)
      BY <2>1, <3>1 DEF Sent
    <3>3. PICK v \in Progress : /\ IF IsOf(m, q) THEN Goes(m.entries, i, u, v) ELSE u = v
                                /\ Provided(q, i, v)'
      BY <1>3, <2>3
    <3>4. Comes(Append(to_asker[d], m), q, i, t, v)
      BY <1>3, <2>1, <2>3, <3>3, ComesMore
    <3>5. QED
      BY <2>3, <3>2, <3>3, <3>4
  <2>4. QED
    BY <2>2, <2>3
<1>4. Exact'
  BY <1>3, AnswersMove
<1>5. QED
  BY <1>2, <1>4

LEMMA SendOfAnswerExact ==
  ASSUME Typed, Traced, Exact, NEW c \in Connections, SendOfAnswer(c)
  PROVE  Traced' /\ Exact'
<1>0. PICK q : q = Replier(c)
  OBVIOUS
<1> DEFINE p == responses[q]
           r == fill_response_buffer(p)
<1>a. r = fill_response_buffer(responses[q])
  OBVIOUS
<1> HIDE DEF r
<1>1. /\ q \in DOMAIN responses /\ p.connection = c
      /\ \/ /\ responses' = without(responses, {q})
            /\ Sent(c, to_asker, asker_up, [kind |-> "E", id |-> r.service_id, query |-> q])
         \/ \E n \in 0 .. Len(r.buffer), kind \in {"r", "R"}, begins \in BOOLEAN :
              /\ r.buffer # <<>>
              /\ \/ responses' = without(responses, {q})
                 \/ responses' = [responses EXCEPT ![q] = rest_of(r, n, begins)]
              /\ Sent(c, to_asker, asker_up, part_of(r, q, kind, n))
      /\ UNCHANGED <<queries, heard, text, asked, failed, ended, given, asker_up, to_provider>>
  <2>1. UNCHANGED <<links, asking, my_services, unheard, told, provider_callback, given, changes,
                    to_provider>>
    BY DEF SendOfAnswer
  <2>2. UNCHANGED <<queries, heard, text, asked, failed, ended, given, asker_up, to_provider>>
    BY <2>1 DEF links, asking
  <2>3. q \in DOMAIN responses /\ p.connection = c
    BY <1>0, <1>a, SendOfAnswerSteps
  <2>4. \/ /\ responses' = without(responses, {q})
           /\ Sent(c, to_asker, asker_up, [kind |-> "E", id |-> r.service_id, query |-> q])
        \/ \E n \in 0 .. Len(r.buffer), kind \in {"r", "R"}, begins \in BOOLEAN :
             /\ r.buffer # <<>>
             /\ \/ responses' = without(responses, {q})
                \/ responses' = [responses EXCEPT ![q] = rest_of(r, n, begins)]
             /\ Sent(c, to_asker, asker_up, part_of(r, q, kind, n))
    <3> DEFINE Sends(x, y) ==
          \/ /\ responses' = without(responses, {x})
             /\ Sent(c, to_asker, asker_up, [kind |-> "E", id |-> y.service_id, query |-> x])
          \/ \E n \in 0 .. Len(y.buffer), kind \in {"r", "R"}, begins \in BOOLEAN :
               /\ y.buffer # <<>>
               /\ \/ responses' = without(responses, {x})
                  \/ responses' = [responses EXCEPT ![x] = rest_of(y, n, begins)]
               /\ Sent(c, to_asker, asker_up, part_of(y, x, kind, n))
    <3>1. Sends(Replier(c), fill_response_buffer(responses[Replier(c)]))
      BY SendOfAnswerSteps
    <3> HIDE DEF Sends
    <3>2. Sends(q, r)
      BY <1>0, <1>a, <3>1
    <3>3. QED
      BY <3>2 DEF Sends
  <2>5. QED
    BY <2>2, <2>3, <2>4
<1>2. q \in DOMAIN asked /\ q \in QueryIds /\ ResponseOK(p, asked[q].commands)
  BY <1>1 DEF Typed, ResponsesTyped, AskedTyped
<1>3. asked[q].commands \in Nat
  BY <1>2 DEF Typed, AskedTyped
<1>4. /\ r.service_id = p.service_id /\ p.service_id \in ServiceIds
      /\ r.buffer \in Seq(Entry) /\ r.begun \in BOOLEAN
  <2>1. ResponseOK(r, asked[q].commands) /\ r.service_id = p.service_id
    BY <1>2, <1>a, BufferFilled
  <2>2. r \in Response /\ p \in Response
    BY <1>2, <2>1 DEF ResponseOK
  <2>3. QED
    BY <2>1, <2>2 DEF Response
<1>5. IF p.answers = <<>> THEN p.buffer = <<>> ELSE p.completed
  BY <1>1 DEF Traced, NoAnswerYet
<1>6. \A i \in Commands(q) : given[q][i] \in Progress
  BY <1>2, CommandTypes
<1>7. \A i : \A u : Provided(q, i, u) <=> Holds(p, i, u, given[q][i])
  BY <1>1 DEF Provided
<1>8. given' = given
  BY <1>1
<1>9. CASE /\ responses' = without(responses, {q})
           /\ Sent(c, to_asker, asker_up, [kind |-> "E", id |-> r.service_id, query |-> q])
  <2> DEFINE m == [kind |-> "E", id |-> r.service_id, query |-> q]
  <2>1. /\ m \in AskerMessages /\ m.kind = "E" /\ m.query = q /\ m.id = p.service_id
        /\ ~IsOf(m, q)
    BY <1>2, <1>4 DEF AskerMessages, IsOf
  <2>2. /\ DOMAIN responses' = DOMAIN responses \ {q}
        /\ \A x \in DOMAIN responses' : responses'[x] = responses[x]
    BY <1>9 DEF without
  <2>3. ASSUME NEW i \in Commands(q), NEW u \in Progress, Provided(q, i, u) PROVE Provided(q, i, u)'
    <3>1. Within(u, given[q][i])
      BY <1>2, <2>3, ProvidedIsWithin
    <3>2. QED
      BY <1>8, <2>2, <3>1 DEF Provided
  <2>4. Sent(c, to_asker, asker_up, m)
    BY <1>9
  <2> HIDE DEF m, p
  <2>5. QED
    BY <1>1, <2>1, <2>2, <2>3, <2>4, AnswerIsSent DEF p
<1>10. ASSUME NEW n \in 0 .. Len(r.buffer), NEW kind \in {"r", "R"}, NEW begins \in BOOLEAN,
              r.buffer # <<>>,
              \/ responses' = without(responses, {q})
              \/ responses' = [responses EXCEPT ![q] = rest_of(r, n, begins)],
              Sent(c, to_asker, asker_up, part_of(r, q, kind, n))
       PROVE  Traced' /\ Exact'
  <2> DEFINE part == SubSeq(r.buffer, 1, n)
             m == [kind |-> kind, id |-> r.service_id, query |-> q, inside |-> r.begun,
                   entries |-> part]
             r1 == rest_of(r, n, begins)
  <2>1. part \in Seq(Entry)
    BY <1>4, PartAndRest
  <2> HIDE DEF part
  <2>2. /\ m \in AskerMessages /\ m.kind \in {"r", "R", "E"} /\ m.query = q /\ m.id = p.service_id
        /\ m.entries = part
    BY <1>2, <1>4, <2>1 DEF AskerMessages
  <2>3. Sent(c, to_asker, asker_up, m)
    BY <1>10 DEF part, part_of
  <2>4. IsOf(m, q)
    BY DEF IsOf
  <2>5. /\ KeepsResponse(p, r1)
        /\ \A i \in Commands(q) : \A u, g \in Progress : Holds(p, i, u, g) =>
             \E v \in Progress : Goes(part, i, u, v) /\ Within(v, g) /\ Holds(r1, i, v, g)
    BY <1>2, <1>3, <1>5, <1>10, PartOfAnswer DEF r, part, Commands
  <2>6. \/ responses' = without(responses, {q})
        \/ responses' = [responses EXCEPT ![q] = r1]
    BY <1>10
  <2> HIDE DEF m, r1, p
  <2>7. /\ DOMAIN responses' \subseteq DOMAIN responses
        /\ DOMAIN responses \ {q} \subseteq DOMAIN responses'
        /\ \A x \in DOMAIN responses' \ {q} : responses'[x] = responses[x]
        /\ q \in DOMAIN responses' => responses'[q] = r1
    <3>1. CASE responses' = without(responses, {q})
      BY <3>1 DEF without
    <3>2. CASE responses' = [responses EXCEPT ![q] = r1]
      BY <3>2
    <3>3. QED
      BY <2>6, <3>1, <3>2
  <2>8. ASSUME NEW i \in Commands(q), NEW u \in Progress, Provided(q, i, u)
        PROVE  \E v \in Progress : Goes(m.entries, i, u, v) /\ Provided(q, i, v)'
    <3>1. Holds(p, i, u, given[q][i])
      BY <1>7, <2>8
    <3>2. PICK v \in Progress :
            Goes(part, i, u, v) /\ Within(v, given[q][i]) /\ Holds(r1, i, v, given[q][i])
      BY <1>6, <2>5, <3>1
    <3>3. Provided(q, i, v)'
      BY <1>8, <2>7, <3>2 DEF Provided
    <3>4. QED
      BY <2>2, <3>2, <3>3
  <2>9. p.connection = c /\ q \in DOMAIN responses /\ p = responses[q]
    BY <1>1 DEF p
  <2>10. QED
    BY <1>1, <2>2, <2>3, <2>4, <2>5, <2>7, <2>8, <2>9, AnswerIsSent
<1>11. QED
  BY <1>1, <1>9, <1>10

\* Of an answer of which more is missing less is said.
LEMMA LessIsTold ==
  ASSUME NEW o, NEW t, NEW p, NEW p1, p1 # "torn" => p # "torn", p1 = "exact" => p = "exact"
  PROVE  /\ Told(o, t, p) => Told(o, t, p1)
         /\ Given(o, t, p) => Given(o, t, p1)
BY DEF Told, Given

\* A query that is answered.
LEMMA QueryIsAnswered ==
  ASSUME NEW q \in Query, NEW m \in AskerMessages, NEW reading
  PROVE  /\ m.kind = "E" =>
              /\ receive_response(q, m, reading).answers = failing(q.answers)
              /\ receive_response(q, m, reading).response = "Aborted"
              /\ receive_response(q, m, reading).service_id = q.service_id
         /\ m.kind \in {"r", "R"} =>
              /\ receive_response(q, m, reading).service_id = q.service_id
              /\ \/ /\ m.kind = "r"
                    /\ receive_response(q, m, reading).answers = added(q.answers, reading.entries)
                 \/ /\ receive_response(q, m, reading).answers =
                         failing(added(q.answers, reading.entries))
                    /\ receive_response(q, m, reading).response \in {"Completed", "Aborted"}
<1> DEFINE a == added(q.answers, reading.entries)
           f == failing(q.answers)
           fa == failing(a)
           e == aborted(q)
           d == [q EXCEPT !.answers = a]
           ed == aborted(d)
           r == receive_response(q, m, reading)
<1>1. e = [q EXCEPT !.response = "Aborted", !.answers = f]
  BY DEF aborted
<1>2. d.answers = a
  BY DEF Query
<1>3. ed = [d EXCEPT !.response = "Aborted", !.answers = fa]
  BY <1>2 DEF aborted
<1>4. /\ m.kind = "E" => r = [e EXCEPT !.query = "Aborted"]
      /\ m.kind \in {"r", "R"} =>
           \/ r = [ed EXCEPT !.query = "NeedSendCancel"]
           \/ m.kind = "r" /\ r = d
           \/ r = [d EXCEPT !.response = "Completed", !.answers = fa]
  <2>1. m.kind = "E" => r = [e EXCEPT !.query = "Aborted"]
    BY DEF receive_response
  <2>2. m.kind \in {"r", "R"} /\ ~reading.parses => r = overdue(d)
    BY DEF receive_response
  <2>3. overdue(d) = [ed EXCEPT !.query = "NeedSendCancel"]
    BY DEF overdue
  <2>4. m.kind = "r" /\ reading.parses => r = d
    BY DEF receive_response
  <2>5. m.kind = "R" /\ reading.parses =>
          r = [d EXCEPT !.response = "Completed", !.answers = failing(d.answers)]
    BY DEF receive_response
  <2> HIDE DEF a, d, ed, e, r
  <2>6. QED
    BY <1>2, <2>1, <2>2, <2>3, <2>4, <2>5
<1> HIDE DEF a, f, fa, e, r, ed
<1>5. m.kind = "E" => r.answers = f /\ r.response = "Aborted" /\ r.service_id = q.service_id
  BY <1>1, <1>4 DEF Query
<1>6. /\ d.service_id = q.service_id /\ d.answers = a
      /\ [d EXCEPT !.response = "Completed", !.answers = fa].answers = fa
      /\ [d EXCEPT !.response = "Completed", !.answers = fa].response = "Completed"
      /\ [d EXCEPT !.response = "Completed", !.answers = fa].service_id = q.service_id
  BY DEF Query
<1>7. /\ [ed EXCEPT !.query = "NeedSendCancel"].answers = fa
      /\ [ed EXCEPT !.query = "NeedSendCancel"].response = "Aborted"
      /\ [ed EXCEPT !.query = "NeedSendCancel"].service_id = q.service_id
  BY <1>3 DEF Query
<1> HIDE DEF d
<1>8. m.kind \in {"r", "R"} =>
        /\ r.service_id = q.service_id
        /\ \/ m.kind = "r" /\ r.answers = a
           \/ r.answers = fa /\ r.response \in {"Completed", "Aborted"}
  BY <1>4, <1>6, <1>7
<1>9. QED
  BY <1>5, <1>8 DEF a, f, fa, r

LEMMA PartIsAnswered ==
  ASSUME NEW q \in Query, NEW m \in AskerMessages, NEW reading, m.kind \in {"r", "R"}
  PROVE  \/ /\ m.kind = "r"
            /\ receive_response(q, m, reading).answers = added(q.answers, reading.entries)
         \/ /\ receive_response(q, m, reading).answers = failing(added(q.answers, reading.entries))
            /\ receive_response(q, m, reading).response \in {"Completed", "Aborted"}
  BY QueryIsAnswered, Zenon

\* What the next part of an answer that is waited for brings, unless an entry is
\* torn, and what is told if it is dropped.
LEMMA PartComes ==
  ASSUME Typed, Exact, NEW c \in Connections, to_asker[c] # <<>>, NEW m, m = Head(to_asker[c]),
         NEW q \in DOMAIN queries, IsOf(m, q), queries[q].connection = c,
         queries[q].response = "Running", NEW i \in Commands(q), NEW a,
         a = added(queries[q].answers, m.entries)
  PROVE  \E v, u \in Progress :
           /\ Comes(Tail(to_asker[c]), q, i, v, u)
           /\ Provided(q, i, u)
           /\ text[q] # "torn" =>
                /\ Told(joined(heard[q][i], a[i]), v, text[q])
                /\ Given(joined(heard[q][i], a[i]), given[q][i], text[q])
                /\ Told(got(q, i), v, "hole")
<1> DEFINE h == heard[q][i]
           g == given[q][i]
           b == queries[q].answers
           form == text[q]
           s == to_asker[c]
<1>1. q \in DOMAIN asked
  BY DEF Typed, QueriesTyped
<1>2. /\ h \in Outcome /\ g \in Progress /\ b \in Seq(Answer) /\ i \in DOMAIN b
      /\ b[i] \in Answer
  BY <1>1, CommandTypes
<1>3. s \in Seq(AskerMessages) /\ s # <<>>
  BY DEF Typed, ChannelsTyped
<1>4. m \in AskerMessages /\ Tail(s) \in Seq(AskerMessages)
  BY <1>3, Taken
<1>5. m.entries \in Seq(Entry)
  BY <1>4, PartHasEntries
<1>6. got(q, i) = joined(h, b[i]) /\ got(q, i) \in Outcome
  BY <1>1, CommandTypes DEF got
<1>7. Reads(h, b[i])
  BY DEF Exact, Read
<1>8. PICK t, u \in Progress : Told(got(q, i), t, form) /\ Comes(s, q, i, t, u) /\ Provided(q, i, u)
  BY DEF Exact, Running, Tracked
<1>9. PICK v \in Progress : Goes(m.entries, i, t, v) /\ Comes(Tail(s), q, i, v, u)
  BY <1>3, <1>8, ComesFromNext
<1>10. a \in Seq(Answer) /\ i \in DOMAIN a /\ a[i] \in Answer
  BY <1>2, <1>5, AnswersAdded
<1> HIDE DEF h, g, b, form, s
<1>11. ASSUME form # "torn"
       PROVE  /\ Told(joined(h, a[i]), v, form)
              /\ Given(joined(h, a[i]), g, form)
              /\ Told(got(q, i), v, "hole")
  <2>1. Told(joined(h, a[i]), v, form)
    BY <1>2, <1>5, <1>6, <1>7, <1>8, <1>9, <1>11, AddedIsTold DEF b
  <2>2. Told(got(q, i), v, "hole")
    BY <1>5, <1>6, <1>8, <1>9, <1>11, EntriesGoOn, ToldBefore
  <2>3. joined(h, a[i]) \in Outcome
    BY <1>2, <1>10 DEF joined, Outcome, Answer
  <2>4. Within(u, g)
    BY <1>1, <1>8, ProvidedIsWithin DEF g
  <2>5. GoesOn(v, u)
    BY <1>4, <1>9, MessagesGoOn
  <2>6. Within(v, g)
    BY <1>2, <2>4, <2>5, WithinBefore
  <2>7. Given(joined(h, a[i]), g, form)
    BY <1>2, <2>1, <2>3, <2>6, ToldIsGiven
  <2>8. QED
    BY <2>1, <2>2, <2>7
<1>12. QED
  BY <1>8, <1>9, <1>11 DEF h, g, form, s

\* Torn is torn: the parser is never given more than it was.
LEMMA TextGetsWorse ==
  ASSUME NEW t, NEW m
  PROVE  /\ text_with(t, m) # "torn" => t # "torn"
         /\ text_with(t, m) = "exact" => t = "exact"
         /\ text_without(t, m) # "torn" => t # "torn"
         /\ text_without(t, m) # "torn" => text_without(t, m) = "hole"
         /\ text_without(t, m) # "exact"
  BY DEF text_with, text_without

LEMMA ToldTorn ==
  ASSUME NEW o, NEW t
  PROVE  Told(o, t, "torn") /\ Given(o, t, "torn")
  BY DEF Told, Given

\* The asker receives a message.
LEMMA AskerReceivesExact ==
  ASSUME Typed, Traced, Exact, NEW c \in Connections, AskerReceives(c)
  PROVE  Traced' /\ Exact'
<1>1. PICK m : m = Head(to_asker[c])
  OBVIOUS
<1>2. PICK heeded, reading : IF heeded THEN Takes(c, m, reading) ELSE Leaves(c, m)
  <2>1. Leaves(c, m) \/ \E reading : Takes(c, m, reading)
    BY <1>1, TakesOrLeaves
  <2>2. CASE Leaves(c, m)
    <3>1. IF FALSE THEN Takes(c, m, 0) ELSE Leaves(c, m)
      BY <2>2
    <3>2. QED
      BY <3>1, Zenon
  <2>3. ASSUME NEW reading, Takes(c, m, reading)
        PROVE  \E heeded, r : IF heeded THEN Takes(c, m, r) ELSE Leaves(c, m)
    <3>1. IF TRUE THEN Takes(c, m, reading) ELSE Leaves(c, m)
      BY <2>3
    <3>2. QED
      BY <3>1, Zenon
  <2>4. QED
    BY <2>1, <2>2, <2>3
<1>3. /\ to_asker[c] # <<>>
      /\ to_asker' = [to_asker EXCEPT ![c] = Tail(to_asker[c])]
      /\ UNCHANGED <<asker_up, failed, asked, heard, ended, given, responses, to_provider>>
  BY <1>1, AskerReceivesSteps DEF Typed, RestTyped, links, providing
<1>4. heeded => /\ m.query \in DOMAIN queries /\ m.kind \in {"r", "R", "E"}
                /\ queries[m.query].connection = c /\ queries[m.query].response = "Running"
  BY <1>2 DEF Takes, is_awaited
<1>5. to_asker \in [Connections -> Seq(AskerMessages)] /\ m \in AskerMessages
  <2>1. to_asker \in [Connections -> Seq(AskerMessages)]
    BY DEF Typed, ChannelsTyped
  <2>2. QED
    BY <1>1, <1>3, <2>1, Taken
<1>6. QueriesGoOn
  BY AskerReceivesKeepsTypes
<1>7. /\ DOMAIN queries' = DOMAIN queries
      /\ \A q \in DOMAIN queries :
           queries'[q] = IF heeded /\ q = m.query THEN receive_response(queries[q], m, reading)
                         ELSE queries[q]
  BY <1>2, <1>4 DEF Takes, Leaves
<1>8. /\ \A q \in DOMAIN queries : queries[q] \in Query /\ q \in DOMAIN asked
      /\ text \in [QueryIds -> Texts] /\ DOMAIN asked \subseteq QueryIds
  BY DEF Typed, QueriesTyped, RestTyped, AskedTyped
<1>9. \A q : Commands(q)' = Commands(q)
  BY <1>3, KindsStay
<1>10. Traced'
  <2>1. ASSUME NEW q \in DOMAIN queries' PROVE queries'[q].service_id = queries[q].service_id
    BY <1>4, <1>5, <1>7, <1>8, QueryIsAnswered
  <2>2. Shorter(to_asker, to_asker')
    BY <1>3 DEF Shorter
  <2>3. QED
    BY <1>3, <1>6, <2>1, <2>2, AskerTraces
<1>11. ASSUME NEW q \in DOMAIN asked
       PROVE  /\ text'[q] # "torn" => text[q] # "torn"
              /\ text'[q] = "exact" => text[q] = "exact"
  <2>1. q \in DOMAIN text
    BY <1>8
  <2>2. text'[q] \in {text[q], text_with(text[q], m), text_without(text[q], m)}
    BY <1>2, <2>1 DEF Takes, Leaves
  <2>3. QED
    BY <2>2, TextGetsWorse
<1>12. ASSUME NEW q \in DOMAIN queries, queries[q].response = "Running", queries[q].connection = c,
              IsOf(m, q)
       PROVE  heeded \/ text'[q] = text_without(text[q], m)
  <2>1. PICK at : QueriesFollow(at) /\ MessagesFollow(at)
    BY DEF Traced, OneTrace
  <2>2. m \in ToAsker(at, c)
    <3>1. to_asker[c] \in Seq(ToAsker(at, c))
      BY <2>1 DEF MessagesFollow
    <3>2. QED
      BY <1>1, <1>3, <3>1, Taken
  <2>3. at[q] = <<c, m.id>> /\ at[q] = <<c, queries[q].service_id>>
    BY <1>12, <2>1, <2>2 DEF ToAsker, QueriesFollow, IsOf
  <2>4. is_awaited(c, m)
    BY <1>12, <2>3 DEF is_awaited, IsOf
  <2>5. q \in DOMAIN text /\ m.query = q
    BY <1>8, <1>12 DEF IsOf
  <2>6. QED
    BY <1>2, <2>4, <2>5 DEF Leaves
<1>13. ASSUME NEW q \in DOMAIN queries, NEW i \in Commands(q)
       PROVE  /\ Given(got(q, i)', given[q][i], text'[q])
              /\ Reads(heard[q][i], queries'[q].answers[i])
              /\ queries'[q].response = "Running" => queries[q].response = "Running" /\ Tracked(q, i)'
  <2> DEFINE h == heard[q][i]
             g == given[q][i]
             b == queries[q].answers
             d == queries[q].connection
             a == added(b, m.entries)
  <2>1. /\ h \in Outcome /\ g \in Progress /\ b \in Seq(Answer) /\ i \in DOMAIN b
        /\ b[i] \in Answer /\ d \in Connections
    BY <1>8, CommandTypes
  <2>2. /\ Reads(h, b[i]) /\ Given(joined(h, b[i]), g, text[q])
        /\ got(q, i) = joined(h, b[i])
    BY <1>8 DEF Exact, Read, Sound, got
  <2>3. got(q, i)' = joined(h, queries'[q].answers[i]) /\ given' = given
    BY <1>3, <1>7 DEF got
  <2>4. \A u : Provided(q, i, u) => Provided(q, i, u)'
    BY <1>3 DEF Provided
  <2>5. queries'[q].connection = d
    BY <1>6, <1>7 DEF QueriesGoOn, StaysQuery
  <2>p. q \in DOMAIN asked /\ queries[q] \in Query
    BY <1>8
  <2>6. CASE heeded /\ q = m.query /\ m.kind \in {"r", "R"}
    <3> DEFINE k == added(b, reading.entries)
    <3>1. IsOf(m, q) /\ d = c /\ queries[q].response = "Running"
      BY <1>4, <2>6 DEF IsOf
    <3>2. /\ reading \in Reading
          /\ text'[q] # "torn" => reading.entries = m.entries
      <4>1. reading \in readings(text'[q], queries[q], m)
        BY <1>2, <2>6 DEF Takes
      <4>2. QED
        BY <1>5, <2>6, <2>p, <4>1, ReadingsAreTyped
    <3>3. k \in Seq(Answer) /\ i \in DOMAIN k /\ k[i] \in Answer /\ Reads(h, k[i])
      <4>1. reading.entries \in Seq(Entry)
        BY <3>2 DEF Reading
      <4> HIDE DEF h, b
      <4>2. Reads(h, k[i])
        BY <2>1, <2>2, <4>1, AddedIsRead
      <4>3. k \in Seq(Answer) /\ i \in DOMAIN k /\ k[i] \in Answer
        BY <2>1, <4>1, AnswersAdded
      <4>4. QED
        BY <4>2, <4>3
    <3>4. PICK v, u \in Progress :
            /\ Comes(Tail(to_asker[c]), q, i, v, u) /\ Provided(q, i, u)
            /\ text[q] # "torn" => /\ Told(joined(h, a[i]), v, text[q])
                                   /\ Given(joined(h, a[i]), g, text[q])
      BY <1>1, <1>3, <3>1, PartComes
    <3>5. Told(joined(h, k[i]), v, text'[q]) /\ Given(joined(h, k[i]), g, text'[q])
      <4>1. CASE text'[q] = "torn"
        BY <4>1, ToldTorn
      <4>2. CASE text'[q] # "torn"
        <5>1. k = a /\ text[q] # "torn"
          BY <1>11, <2>p, <3>2, <4>2
        <5> HIDE DEF a, k, h, g
        <5>2. QED
          BY <1>11, <2>p, <3>4, <5>1, LessIsTold
      <4>3. QED
        BY <4>1, <4>2
    <3>6. queries'[q] = receive_response(queries[q], m, reading)
      BY <1>7, <2>6
    <3>7. \/ m.kind = "r" /\ queries'[q].answers = k
          \/ queries'[q].answers = failing(k) /\ queries'[q].response \in {"Completed", "Aborted"}
      <4> DEFINE x == queries[q]
                 y == receive_response(x, m, reading)
                 n == added(x.answers, reading.entries)
      <4>1. \/ m.kind = "r" /\ y.answers = n
            \/ y.answers = failing(n) /\ y.response \in {"Completed", "Aborted"}
        <5>1. x \in Query /\ m.kind \in {"r", "R"}
          BY <2>6, <2>p
        <5> HIDE DEF x
        <5>2. QED
          BY <1>5, <5>1, PartIsAnswered
      <4>2. queries'[q] = y /\ k = n
        BY <3>6
      <4> HIDE DEF y, n, k
      <4>3. QED
        BY <4>1, <4>2
    <3> HIDE DEF a, k
    <3>8. CASE m.kind = "r" /\ queries'[q].answers = k
      <4>1. to_asker'[queries'[q].connection] = Tail(to_asker[c])
        BY <1>3, <1>5, <2>5, <3>1
      <4>2. Tracked(q, i)'
        BY <2>3, <2>4, <3>4, <3>5, <3>8, <4>1 DEF Tracked
      <4>3. QED
        BY <2>3, <3>1, <3>3, <3>5, <3>8, <4>2
    <3>9. CASE queries'[q].answers = failing(k) /\ queries'[q].response \in {"Completed", "Aborted"}
      <4>1. queries'[q].answers[i] = failed_answer(k[i])
        BY <3>3, <3>9, FailingFails
      <4>2. /\ Reads(h, failed_answer(k[i]))
            /\ Given(joined(h, failed_answer(k[i])), g, text'[q])
        BY <2>1, <3>3, <3>5, FailedIsGiven
      <4>3. QED
        BY <2>3, <3>9, <4>1, <4>2
    <3>10. QED
      BY <3>7, <3>8, <3>9
  <2>7. CASE heeded /\ q = m.query /\ m.kind = "E"
    <3>1. queries'[q].answers = failing(b) /\ queries'[q].response = "Aborted"
      BY <1>5, <1>7, <1>8, <2>7, QueryIsAnswered
    <3>2. queries'[q].answers[i] = failed_answer(b[i])
      BY <2>1, <3>1, FailingFails
    <3>3. Given(joined(h, b[i]), g, text'[q])
      BY <1>11, <2>2, <2>p, LessIsTold
    <3>4. Reads(h, failed_answer(b[i])) /\ Given(joined(h, failed_answer(b[i])), g, text'[q])
      BY <2>1, <2>2, <3>3, FailedIsGiven
    <3>5. QED
      BY <2>3, <3>1, <3>2, <3>4
  <2>8. CASE ~(heeded /\ q = m.query)
    <3>1. queries'[q] = queries[q] /\ got(q, i)' = got(q, i)
      BY <1>7, <2>2, <2>3, <2>8
    <3>2. Given(got(q, i)', g, text'[q])
      BY <1>11, <2>2, <2>p, <3>1, LessIsTold
    <3>3. ASSUME queries[q].response = "Running" PROVE Tracked(q, i)'
      <4>1. PICK t, u \in Progress : /\ Told(got(q, i), t, text[q])
                                     /\ Comes(to_asker[d], q, i, t, u) /\ Provided(q, i, u)
        BY <3>3 DEF Exact, Running, Tracked
      <4>2. Told(got(q, i), t, text'[q])
        BY <1>11, <2>p, <4>1, LessIsTold
      <4>3. CASE d # c
        <5>1. to_asker'[d] = to_asker[d]
          BY <1>3, <1>5, <4>3
        <5>2. QED
          BY <2>4, <2>5, <3>1, <4>1, <4>2, <5>1 DEF Tracked
      <4>4. CASE d = c /\ IsOf(m, q)
        <5>1. PICK v, w \in Progress : /\ text[q] # "torn" => Told(got(q, i), v, "hole")
                                       /\ Comes(Tail(to_asker[c]), q, i, v, w) /\ Provided(q, i, w)
          BY <1>1, <1>3, <3>3, <4>4, PartComes
        <5>2. text'[q] = text_without(text[q], m)
          BY <1>12, <2>8, <3>3, <4>4 DEF IsOf
        <5>3. to_asker'[d] = Tail(to_asker[c])
          BY <1>3, <1>5, <4>4
        <5>4. Told(got(q, i), v, text'[q])
          <6>1. CASE text'[q] = "torn"
            BY <6>1, ToldTorn
          <6>2. CASE text'[q] # "torn"
            BY <5>1, <5>2, <6>2, TextGetsWorse
          <6>3. QED
            BY <6>1, <6>2
        <5>5. QED
          BY <2>4, <2>5, <3>1, <5>1, <5>3, <5>4 DEF Tracked
      <4>5. CASE d = c /\ ~IsOf(m, q)
        <5>1. Comes(Tail(to_asker[c]), q, i, t, u)
          BY <1>1, <1>3, <1>5, <4>1, <4>5, ComesFromNext
        <5>2. to_asker'[d] = Tail(to_asker[c])
          BY <1>3, <1>5, <4>5
        <5>3. QED
          BY <2>4, <2>5, <3>1, <4>1, <4>2, <5>1, <5>2 DEF Tracked
      <4>6. QED
        BY <4>3, <4>4, <4>5
    <3>4. QED
      BY <2>2, <3>1, <3>2, <3>3
  <2>9. QED
    BY <1>4, <2>6, <2>7, <2>8
<1>14. Running'
  <2> SUFFICES ASSUME NEW q \in DOMAIN queries, queries'[q].response = "Running"
               PROVE  queries'[q].connection \in asker_up' /\ \A i \in Commands(q) : Tracked(q, i)'
    BY <1>7, <1>9 DEF Running
  <2>1. queries'[q].connection = queries[q].connection
    BY <1>6, <1>7 DEF QueriesGoOn, StaysQuery
  <2>2. queries[q].response = "Running"
    BY <1>4, <1>7
  <2>3. queries[q].connection \in asker_up
    BY <2>2 DEF Exact, Running
  <2>4. QED
    BY <1>3, <1>13, <2>1, <2>3
<1>15. Sound'
  <2> SUFFICES ASSUME NEW q \in DOMAIN asked, NEW i \in Commands(q)
               PROVE  Given(got(q, i)', given'[q][i], text'[q])
    BY <1>3, <1>9 DEF Sound
  <2>1. CASE q \in DOMAIN queries
    BY <1>3, <1>13, <2>1
  <2>2. CASE q \notin DOMAIN queries
    <3>1. got(q, i)' = got(q, i)
      BY <1>3, <1>7, <2>2 DEF got
    <3>2. Given(got(q, i), given[q][i], text[q])
      BY DEF Exact, Sound
    <3>3. QED
      BY <1>3, <1>11, <3>1, <3>2, LessIsTold
  <2>3. QED
    BY <2>1, <2>2
<1>16. Read'
  BY <1>3, <1>7, <1>9, <1>13 DEF Read
<1>17. Ended'
  BY <1>3, <1>7 DEF Exact, Ended
<1>18. QED
  BY <1>10, <1>14, <1>15, <1>16, <1>17 DEF Exact

\* What is read of an answer is told, and nothing is left of it to read.
LEMMA ReadIsTold ==
  ASSUME NEW h \in Outcome, NEW a \in Answer, Reads(h, a), has_news(a)
  PROVE  /\ joined(joined(h, a), read_one(a)) = joined(h, a)
         /\ Reads(joined(h, a), read_one(a))
         /\ h.status = "ROWS"
<1> DEFINE b == read_one(a)
           o == joined(h, a)
<1>1. b.status = a.status /\ b.rows = <<>> /\ b.was_read = TRUE
  BY DEF read_one, Answer
<1>2. o.status = a.status /\ o.rows = h.rows \o a.rows /\ o.rows \in Seq(Nat)
  BY DEF joined, Outcome, Answer
<1>3. o.rows \o <<>> = o.rows
  BY <1>2
<1> HIDE DEF b
<1>4. joined(o, b) = o
  BY <1>1, <1>2, <1>3 DEF joined
<1> HIDE DEF o
<1>5. Reads(o, b)
  BY <1>1, <1>2 DEF Reads
<1>6. h.status = "ROWS"
  BY DEF Reads, has_news
<1>7. QED
  BY <1>4, <1>5, <1>6 DEF b, o

\* The asker's user is told what is new.
LEMMA GetResponsesExact ==
  ASSUME Typed, Traced, Exact, GetReceivedResponses
  PROVE  Traced' /\ Exact'
<1> DEFINE hears(q, i) ==
             IF q \in failed THEN [heard[q][i] EXCEPT !.status = "ERROR"]
             ELSE IF q \in told_now /\ i \in news(q)
             THEN [status |-> queries[q].answers[i].status,
                   rows |-> heard[q][i].rows \o queries[q].answers[i].rows]
             ELSE heard[q][i]
<1>1. /\ heard' = [q \in DOMAIN heard |-> [i \in DOMAIN heard[q] |-> hears(q, i)]]
      /\ ended' = ended \cup failed \cup ended_now
      /\ failed' = {}
      /\ queries' = remaining([q \in DOMAIN queries |-> read_of(q)], Connections)
      /\ UNCHANGED <<asker_up, text, asked, responses, given, to_provider, to_asker>>
  BY DEF GetReceivedResponses, links, providing
<1>2. QueriesGoOn
  BY GetResponsesKeepsTypes
<1>3. \A q \in DOMAIN queries' : q \in DOMAIN queries /\ queries'[q] = read_of(q)
  BY <1>1 DEF remaining, without
<1>4. /\ DOMAIN heard = DOMAIN asked /\ DOMAIN queries \subseteq DOMAIN asked
      /\ \A q \in DOMAIN queries : queries[q] \in Query
  BY DEF Typed, AskedTyped, QueriesTyped
<1>5. ASSUME NEW q \in DOMAIN asked
      PROVE  /\ DOMAIN heard'[q] = Commands(q)
             /\ \A i \in Commands(q) : heard'[q][i] = hears(q, i)
  <2>1. DOMAIN heard[q] = Commands(q)
    BY <1>4 DEF Typed, AskedTyped, Commands
  <2> HIDE DEF hears
  <2>2. QED
    BY <1>1, <1>4, <2>1
<1>6. failed \cap ended = {} /\ failed \cap DOMAIN queries = {}
  BY DEF Exact, Ended
<1>7. ASSUME NEW q \in DOMAIN queries
      PROVE  /\ read_of(q).connection = queries[q].connection
             /\ read_of(q).service_id = queries[q].service_id
             /\ read_of(q).response = queries[q].response
             /\ read_of(q).answers = IF queries[q].response = "Cancelled" THEN queries[q].answers
                                     ELSE read_all(queries[q].answers)
  <2> DEFINE s == queries[q]
             f == read_all(s.answers)
  <2>1. s \in Query
    BY <1>4
  <2>2. query_read(s) = [s EXCEPT !.answers = f]
    BY DEF query_read, read_all
  <2>3. read_of(q) = IF s.response = "Cancelled" THEN s ELSE query_read(s)
    BY DEF read_of
  <2> HIDE DEF s, f
  <2>4. [s EXCEPT !.answers = f].connection = s.connection /\ [s EXCEPT !.answers = f].answers = f
        /\ [s EXCEPT !.answers = f].service_id = s.service_id
        /\ [s EXCEPT !.answers = f].response = s.response
    BY <2>1 DEF Query
  <2>5. QED
    BY <2>2, <2>3, <2>4 DEF s, f
<1>8. ASSUME NEW q \in DOMAIN queries, NEW i \in Commands(q)
      PROVE  /\ joined(heard'[q][i], read_of(q).answers[i]) = got(q, i)
             /\ Reads(heard'[q][i], read_of(q).answers[i])
             /\ heard[q][i].status # "ROWS" => heard'[q][i] = heard[q][i]
             /\ heard'[q][i] \in Outcome /\ read_of(q).answers[i] \in Answer
  <2> DEFINE h == heard[q][i]
             a == queries[q].answers[i]
  <2>1. /\ q \in DOMAIN asked /\ h \in Outcome /\ a \in Answer /\ queries[q].answers \in Seq(Answer)
        /\ DOMAIN queries[q].answers = Commands(q)
    BY <1>4, CommandTypes
  <2>2. Reads(h, a) /\ got(q, i) = joined(h, a)
    BY DEF Exact, Read, got
  <2>3. i \in news(q) <=> has_news(a)
    BY <2>1 DEF news
  <2>4. q \in told_now <=> queries[q].response # "Cancelled" /\ news(q) # {}
    BY DEF told_now
  <2>5. heard'[q][i] = IF queries[q].response # "Cancelled" /\ has_news(a) THEN joined(h, a) ELSE h
    BY <1>5, <1>6, <2>1, <2>3, <2>4 DEF joined
  <2>6. read_of(q).answers[i] = IF queries[q].response # "Cancelled" THEN read_one(a) ELSE a
    BY <1>7, <2>1, ReadAllIsReadOne
  <2>7. read_one(a) \in Answer /\ (~has_news(a) => read_one(a) = a) /\ joined(h, a) \in Outcome
    <3>1. joined(h, a) \in Outcome
      BY <2>1 DEF joined, Outcome, Answer
    <3>2. ~has_news(a) => read_one(a) = a
      BY DEF read_one
    <3>3. QED
      BY <2>1, <3>1, <3>2, ReadOneIsTyped
  <2> HIDE DEF h, a
  <2>8. CASE queries[q].response # "Cancelled" /\ has_news(a)
    BY <2>1, <2>2, <2>5, <2>6, <2>7, <2>8, ReadIsTold DEF h
  <2>9. CASE ~(queries[q].response # "Cancelled" /\ has_news(a))
    BY <2>1, <2>2, <2>5, <2>6, <2>7, <2>9 DEF h
  <2>10. QED
    BY <2>8, <2>9
<1> HIDE DEF hears
<1>9. \A q : Commands(q)' = Commands(q)
  BY <1>1, KindsStay
<1>10. ASSUME NEW q \in DOMAIN queries', NEW i \in Commands(q)
       PROVE  got(q, i)' = got(q, i) /\ Reads(heard'[q][i], queries'[q].answers[i])
  BY <1>3, <1>8 DEF got
<1>11. Running'
  <2> SUFFICES ASSUME NEW q \in DOMAIN queries', queries'[q].response = "Running"
               PROVE  queries'[q].connection \in asker_up' /\ \A i \in Commands(q) : Tracked(q, i)'
    BY <1>9 DEF Running
  <2>1. /\ q \in DOMAIN queries /\ queries[q].response = "Running"
        /\ queries'[q].connection = queries[q].connection
    BY <1>3, <1>7
  <2>2. queries[q].connection \in asker_up /\ \A i \in Commands(q) : Tracked(q, i)
    BY <2>1 DEF Exact, Running
  <2>3. ASSUME NEW i \in Commands(q) PROVE Tracked(q, i)'
    <3>1. PICK t, u \in Progress : /\ Told(got(q, i), t, text[q])
                                   /\ Comes(to_asker[queries[q].connection], q, i, t, u)
                                   /\ Provided(q, i, u)
      BY <2>2 DEF Tracked
    <3>2. Provided(q, i, u)'
      BY <1>1, <3>1 DEF Provided
    <3>3. to_asker' = to_asker /\ text' = text
      BY <1>1
    <3>4. QED
      BY <1>10, <2>1, <3>1, <3>2, <3>3 DEF Tracked
  <2>4. QED
    BY <1>1, <2>1, <2>2, <2>3
<1>12. Sound'
  <2> SUFFICES ASSUME NEW q \in DOMAIN asked, NEW i \in Commands(q)
               PROVE  Given(got(q, i)', given[q][i], text[q])
    BY <1>1, <1>9 DEF Sound
  <2>1. Given(got(q, i), given[q][i], text[q])
    BY DEF Exact, Sound
  <2>2. CASE q \in DOMAIN queries'
    BY <1>10, <2>1, <2>2
  <2>3. CASE q \notin DOMAIN queries' /\ q \in DOMAIN queries
    <3>1. Given(joined(heard'[q][i], read_of(q).answers[i]), given[q][i], text[q])
      BY <1>8, <2>1, <2>3
    <3>2. given[q][i] \in Progress
      BY CommandTypes
    <3>3. Given(heard'[q][i], given[q][i], text[q])
      BY <1>8, <2>3, <3>1, <3>2, HeardIsGiven
    <3>4. QED
      BY <2>3, <3>3 DEF got
  <2>4. CASE q \notin DOMAIN queries
    <3>1. got(q, i) = heard[q][i] /\ got(q, i)' = heard'[q][i]
      BY <1>3, <2>4 DEF got
    <3>2. heard'[q][i] = IF q \in failed THEN [heard[q][i] EXCEPT !.status = "ERROR"] ELSE heard[q][i]
      BY <1>5, <2>4 DEF hears, told_now
    <3>3. heard[q][i] \in Outcome
      BY CommandTypes
    <3>4. /\ heard'[q][i].rows = heard[q][i].rows
          /\ heard'[q][i].status \in {"ERROR", heard[q][i].status}
      BY <3>2, <3>3 DEF Outcome
    <3>5. QED
      BY <2>1, <3>1, <3>4 DEF Given
  <2>5. QED
    BY <2>2, <2>3, <2>4
<1>13. Read'
  BY <1>9, <1>10 DEF Read
<1>14. Ended'
  <2> SUFFICES ASSUME NEW q \in ended' PROVE all_final(heard'[q])
    BY <1>1 DEF Ended
  <2>1. q \in DOMAIN asked
    BY <1>1, <1>4 DEF Typed, AskedTyped, ended_now, told_now
  <2>2. ASSUME NEW i \in Commands(q) PROVE heard'[q][i].status # "ROWS"
    <3>1. CASE q \in ended
      <4>1. heard[q][i].status # "ROWS"
        BY <1>4, <2>1, <3>1, CommandTypes DEF Exact, Ended, all_final
      <4>2. heard'[q][i] = heard[q][i]
        <5>1. CASE q \in DOMAIN queries
          BY <1>8, <4>1, <5>1
        <5>2. CASE q \notin DOMAIN queries
          BY <1>5, <1>6, <2>1, <3>1, <5>2 DEF hears, told_now
        <5>3. QED
          BY <5>1, <5>2
      <4>3. QED
        BY <4>1, <4>2
    <3>2. CASE q \in failed
      <4>1. heard[q][i] \in Outcome
        BY <2>1, CommandTypes
      <4>2. heard'[q][i] = [heard[q][i] EXCEPT !.status = "ERROR"]
        BY <1>5, <2>1, <3>2 DEF hears
      <4>3. QED
        BY <4>1, <4>2 DEF Outcome
    <3>3. CASE q \in ended_now
      <4>1. /\ q \in DOMAIN queries /\ queries[q].response # "Cancelled"
            /\ is_query_completed(query_read(queries[q]).answers)
        BY <3>3 DEF ended_now, told_now
      <4>2. query_read(queries[q]) = read_of(q)
        BY <4>1 DEF read_of
      <4>3. DOMAIN read_of(q).answers = Commands(q)
        BY <1>7, <2>1, <4>1, CommandTypes DEF read_all
      <4>4. read_of(q).answers[i].status # "ROWS" /\ read_of(q).answers[i].was_read
        BY <4>1, <4>2, <4>3 DEF is_query_completed, all_final
      <4>5. QED
        BY <1>8, <4>1, <4>4 DEF Reads
    <3>4. QED
      BY <1>1, <3>1, <3>2, <3>3
  <2>3. QED
    BY <1>5, <2>1, <2>2 DEF all_final
<1>15. Traced'
  <2>1. \A q \in DOMAIN queries' : queries'[q].service_id = queries[q].service_id
    BY <1>3, <1>7
  <2>2. Shorter(to_asker, to_asker')
    BY <1>1 DEF Shorter
  <2>3. QED
    BY <1>1, <1>2, <2>1, <2>2, AskerTraces
<1>16. QED
  BY <1>11, <1>12, <1>13, <1>14, <1>15 DEF Exact

\* A part of a query comes to a response that is not whole.
LEMMA QueryIsReceived ==
  ASSUME NEW p \in Response, NEW m, p.service_id = m.id, ~p.completed,
         p.answers = <<>>, p.buffer = <<>>, m.kind \in {"q", "Q"}, NEW of_string, NEW r,
         r = receive_query(p, m, of_string)
  PROVE  /\ r.connection = p.connection /\ r.service_id = p.service_id /\ r.buffer = <<>>
         /\ r.completed => m.kind = "Q"
         /\ \/ r.answers = <<>>
            \/ r.completed /\ \A i \in Commands(m.query) : r.answers[i] = NoAnswer
<1> DEFINE k == p.parts + m.parts
           n == [i \in 1 .. asked[m.query].commands |-> NoAnswer]
<1>0. \A i \in Commands(m.query) : n[i] = NoAnswer
  BY DEF Commands
<1>1. r \in {p, [p EXCEPT !.parts = k],
             [p EXCEPT !.parts = k, !.completed = TRUE, !.answers = n],
             [p EXCEPT !.parts = k, !.completed = TRUE, !.failed = TRUE]}
      /\ (m.kind # "Q" => r \in {p, [p EXCEPT !.parts = k]})
  BY DEF receive_query
<1> HIDE DEF k, n
<1>2. CASE r = p \/ r = [p EXCEPT !.parts = k]
  BY <1>2 DEF Response
<1>3. CASE r = [p EXCEPT !.parts = k, !.completed = TRUE, !.answers = n] /\ m.kind = "Q"
  BY <1>0, <1>3 DEF Response
<1>4. CASE r = [p EXCEPT !.parts = k, !.completed = TRUE, !.failed = TRUE] /\ m.kind = "Q"
  BY <1>4 DEF Response
<1>5. QED
  BY <1>1, <1>2, <1>3, <1>4

\* What was sent after the provider's user had nothing more to say is nothing:
\* a query that is whole now, of which nothing was answered.
LEMMA NothingIsHeld ==
  ASSUME NEW r, NEW i, NEW u \in Progress, Within(u, Unanswered), r.buffer = <<>>,
         r.answers = <<>> \/ r.answers[i] = NoAnswer
  PROVE  Holds(r, i, u, Unanswered)
<1>1. Unanswered.status = "ROWS" /\ Unanswered.rows = 0
  BY DEF Unanswered
<1>2. u.status = "ROWS" /\ u.rows = 0
  BY <1>1 DEF Within, Progress
<1>3. CASE r.answers = <<>>
  BY <1>3 DEF Holds
<1>4. CASE r.answers # <<>>
  <2>1. Goes(r.buffer, i, u, u)
    BY NothingGoes
  <2> DEFINE x == NoAnswer
  <2>2. x.status = "ROWS" /\ x.rows = <<>> /\ x.was_read = FALSE
    BY DEF NoAnswer
  <2>3. Len(x.rows) = 0 /\ DOMAIN x.rows = {}
    BY <2>2
  <2> HIDE DEF x
  <2> DEFINE w == [status |-> x.status, rows |-> u.rows + Len(x.rows)]
  <2>4. w.status = "ROWS" /\ w.rows = 0
    BY <1>2, <2>2, <2>3
  <2>5. Within(w, Unanswered)
    BY <1>1, <2>4 DEF Within
  <2> HIDE DEF w
  <2>6. \A gone : Rest(u, x, Unanswered, gone)
    BY <1>1, <1>2, <2>2, <2>3, <2>5 DEF Rest, w
  <2>7. QED
    BY <1>4, <2>1, <2>6 DEF Holds, x
<1>5. QED
  BY <1>3, <1>4

\* The last part of a query makes an end of it.
LEMMA LastComes ==
  ASSUME Typed, Traced, NEW c \in Connections, to_provider[c] # <<>>, NEW m,
         m = Head(to_provider[c]), NEW q, IsLast(m, q), q \in DOMAIN asked,
         to_provider' = [to_provider EXCEPT ![c] = Tail(to_provider[c])]
  PROVE  AllSent(q) /\ NoneComes(q)'
<1> DEFINE s == to_provider[c]
<1>1. /\ to_provider \in [Connections -> Seq(ProviderMessages(DOMAIN asked))]
      /\ s \in Seq(ProviderMessages(DOMAIN asked)) /\ s # <<>>
  BY DEF Typed, ChannelsTyped
<1>2. /\ Len(s) \in Nat \ {0} /\ Head(s) = s[1] /\ Len(Tail(s)) = Len(s) - 1
      /\ \A k \in 1 .. Len(s) - 1 : Tail(s)[k] = s[k + 1]
  BY <1>1, Taken
<1>3. AllSent(q) /\ \A j \in 2 .. Len(s) : ~IsPart(s[j], q)
  <2>1. LastIsLast(c, q)
    BY DEF Traced, LastParts
  <2>2. 1 \in 1 .. Len(s) /\ IsLast(s[1], q)
    BY <1>2
  <2>3. 1 + 1 = 2
    OBVIOUS
  <2> HIDE DEF s
  <2>4. QED
    BY <2>1, <2>2, <2>3 DEF LastIsLast, s
<1>4. PICK at : MessagesFollow(at)
  BY DEF Traced, OneTrace
<1>5. ASSUME NEW d \in Connections, NEW k \in 1 .. Len(to_provider'[d])
      PROVE  ~IsPart(to_provider'[d][k], q)
  <2>1. CASE d = c
    <3>1. to_provider'[d] = Tail(s)
      BY <1>1, <2>1
    <3> HIDE DEF s
    <3>2. k \in 1 .. Len(s) - 1
      BY <1>2, <1>5, <3>1
    <3>3. k + 1 \in 2 .. Len(s) /\ Tail(s)[k] = s[k + 1]
      BY <1>2, <3>2
    <3>4. QED
      BY <1>3, <3>1, <3>3
  <2>2. CASE d # c
    <3>1. to_provider'[d] = to_provider[d]
      BY <1>1, <2>2
    <3>2. to_provider[d] \in Seq(ToProvider(at, d)) /\ s \in Seq(ToProvider(at, c))
      BY <1>4 DEF MessagesFollow
    <3> DEFINE x == to_provider[d][k]
    <3>3. x \in ToProvider(at, d)
      BY <1>5, <3>1, <3>2
    <3>4. m \in ToProvider(at, c)
      BY <1>1, <3>2, Taken
    <3>5. at[x.query] = <<d, x.id>> /\ at[m.query] = <<c, m.id>> /\ m.query = q
      BY <3>3, <3>4 DEF ToProvider, IsLast
    <3> HIDE DEF x
    <3>6. x.query # q
      BY <2>2, <3>5
    <3>7. QED
      BY <3>1, <3>6 DEF IsPart, x
  <2>3. QED
    BY <2>1, <2>2
<1>6. QED
  BY <1>3, <1>5 DEF NoneComes

\* A part of a query comes to its provider.
LEMMA PartIsReceived ==
  ASSUME Typed, Traced, Exact, NEW c \in Connections, to_provider[c] # <<>>,
         NEW m, m = Head(to_provider[c]), m.kind \in {"q", "Q"}, m.id \in ids(told[c]),
         to_provider' = [to_provider EXCEPT ![c] = Tail(to_provider[c])],
         NEW of_string, responses' = set(responses, m.query, receive_query(Response0(c, m), m, of_string)),
         UNCHANGED <<queries, heard, text, asked, failed, ended, given, asker_up, to_asker>>
  PROVE  Traced' /\ Exact'
<1>1. PICK q : q = m.query
  OBVIOUS
<1>2. PICK at : QueriesFollow(at) /\ ResponsesFollow(at) /\ MessagesFollow(at)
  BY DEF Traced, OneTrace
<1>3. /\ q \in DOMAIN asked /\ m.id \in ServiceIds /\ at[q] = <<c, m.id>>
      /\ m \in ProviderMessages(DOMAIN asked)
  <2>1. to_provider[c] \in Seq(ToProvider(at, c))
    BY <1>2 DEF MessagesFollow
  <2>2. m \in ToProvider(at, c)
    BY <2>1, Taken
  <2>3. QED
    BY <1>1, <2>2 DEF ToProvider, ProviderMessages
<1>4. IsPart(m, q) /\ m \in {to_provider[c][k] : k \in 1 .. Len(to_provider[c])}
  <2>1. to_provider[c] \in Seq(ProviderMessages(DOMAIN asked))
    BY DEF Typed, ChannelsTyped
  <2>2. Len(to_provider[c]) \in Nat \ {0} /\ m = to_provider[c][1]
    BY <2>1, Taken
  <2>3. QED
    BY <1>1, <2>2 DEF IsPart
<1>5. /\ \A i \in Commands(q) : given[q][i] = Unanswered
      /\ q \in DOMAIN responses => ~responses[q].completed
  BY <1>3, <1>4 DEF Traced, OnceBegun, NoneComes, IsBegun
<1>a. PICK p : p = Response0(c, m)
  OBVIOUS
<1>b. PICK r : r = receive_query(p, m, of_string)
  OBVIOUS
<1>6. /\ p \in Response /\ p.connection = c /\ p.service_id = m.id /\ ~p.completed
      /\ p.answers = <<>> /\ p.buffer = <<>>
  <2>1. CASE q \in DOMAIN responses
    <3>1. responses[q].connection = c /\ responses[q].service_id = m.id
      BY <1>2, <1>3, <2>1 DEF ResponsesFollow
    <3>2. p = responses[q]
      BY <1>1, <1>a, <2>1, <3>1 DEF Response0
    <3>3. responses[q] \in Response
      BY <2>1 DEF Typed, ResponsesTyped, ResponseOK
    <3>4. responses[q].answers = <<>> /\ responses[q].buffer = <<>>
      BY <1>5, <2>1 DEF Traced, NoAnswerYet
    <3>5. QED
      BY <1>5, <2>1, <3>1, <3>2, <3>3, <3>4 DEF Response
  <2>2. CASE q \notin DOMAIN responses
    <3> DEFINE service == named(told[c], m.id)
               n == NewResponse(c, m, service)
    <3>1. p = n
      BY <1>1, <1>a, <2>2 DEF Response0
    <3>2. service \in Services
      <4>1. told[c] \in Tables
        BY DEF Typed, ServicesTyped
      <4>2. QED
        BY <4>1, IdsOfTable
    <3>3. /\ n.connection = c /\ n.service_id = m.id /\ ~n.completed
          /\ n.answers = <<>> /\ n.buffer = <<>>
      BY DEF NewResponse
    <3> HIDE DEF service
    <3>4. n \in Response
      BY <1>3, <3>2, NewResponseIsTyped DEF ResponseOK
    <3> HIDE DEF n
    <3>5. QED
      BY <3>1, <3>3, <3>4
  <2>3. QED
    BY <2>1, <2>2
<1>7. /\ r.connection = c /\ r.service_id = m.id /\ r.buffer = <<>>
      /\ r.completed => m.kind = "Q"
      /\ \/ r.answers = <<>>
         \/ r.completed /\ \A i \in Commands(q) : r.answers[i] = NoAnswer
  <2>1. /\ r.connection = p.connection /\ r.service_id = p.service_id /\ r.buffer = <<>>
        /\ r.completed => m.kind = "Q"
        /\ \/ r.answers = <<>>
           \/ r.completed /\ \A i \in Commands(m.query) : r.answers[i] = NoAnswer
    <3>1. /\ p \in Response /\ p.service_id = m.id /\ ~p.completed /\ p.answers = <<>>
          /\ p.buffer = <<>> /\ m.kind \in {"q", "Q"} /\ r = receive_query(p, m, of_string)
      BY <1>6, <1>b
    <3>2. QED
      BY <3>1, QueryIsReceived
  <2>2. QED
    BY <1>1, <1>6, <2>1
<1>8. /\ DOMAIN responses' = DOMAIN responses \cup {q} /\ responses'[q] = r
      /\ \A x \in DOMAIN responses : x # q => responses'[x] = responses[x]
  <2>1. responses' = set(responses, q, r)
    BY <1>1, <1>a, <1>b
  <2>2. QED
    BY <2>1 DEF set
<1>9. Shorter(to_provider, to_provider')
  BY DEF Shorter
<1>10. QueriesGoOn
  BY QueriesUntouched
<1>11. OneTrace'
  <2>1. QueriesFollow(at)'
    BY <1>2 DEF QueriesFollow
  <2>2. ResponsesFollow(at)'
    BY <1>2, <1>3, <1>7, <1>8 DEF ResponsesFollow
  <2>3. \A d \in Connections : to_provider'[d] \in Seq(ToProvider(at, d)')
    BY <1>2, <1>9, ToProviderStays
  <2>4. \A d \in Connections : to_asker'[d] \in Seq(ToAsker(at, d)')
    BY <1>2, KindsStay DEF MessagesFollow
  <2>5. QED
    BY <2>1, <2>2, <2>3, <2>4 DEF OneTrace, MessagesFollow
<1>12. OnceBegun'
  <2> SUFFICES ASSUME NEW x \in DOMAIN asked, IsBegun(x)' PROVE AllSent(x)' /\ NoneComes(x)'
    BY DEF OnceBegun
  <2>1. CASE x = q
    <3>1. r.completed
      BY <1>5, <1>8, <2>1 DEF IsBegun, Commands
    <3>2. IsLast(m, q)
      BY <1>1, <1>7, <3>1 DEF IsLast
    <3>3. AllSent(q) /\ NoneComes(q)'
      BY <1>3, <3>2, LastComes
    <3>4. QED
      BY <1>10, <2>1, <3>3, AllSentStays
  <2>2. CASE x # q
    <3>1. IsBegun(x)
      BY <1>8, <2>2 DEF IsBegun, Commands
    <3>2. AllSent(x) /\ NoneComes(x)
      BY <3>1 DEF Traced, OnceBegun
    <3>3. QED
      BY <1>9, <1>10, <3>2, AllSentStays, NoneComesStill
  <2>3. QED
    BY <2>1, <2>2
<1>13. LastParts'
  <2> SUFFICES ASSUME NEW d \in Connections, NEW x \in DOMAIN asked PROVE LastIsLast(d, x)'
    BY DEF LastParts
  <2>1. LastIsLast(d, x)
    BY DEF Traced, LastParts
  <2>2. QED
    BY <1>9, <1>10, <2>1, LastIsLastStill
<1>14. NoAnswerYet'
  <2> SUFFICES ASSUME NEW x \in DOMAIN responses'
               PROVE  IF responses'[x].answers = <<>> THEN responses'[x].buffer = <<>>
                      ELSE responses'[x].completed
    BY DEF NoAnswerYet
  <2>1. CASE x = q
    BY <1>7, <1>8, <2>1
  <2>2. CASE x # q
    BY <1>8, <2>2 DEF Traced, NoAnswerYet
  <2>3. QED
    BY <2>1, <2>2
<1>15. ASSUME NEW x \in DOMAIN queries, NEW i \in Commands(x), NEW u \in Progress, Provided(x, i, u)
       PROVE  Provided(x, i, u)'
  <2>1. CASE x = q
    <3>1. Within(u, Unanswered)
      BY <1>3, <1>5, <1>15, <2>1, ProvidedIsWithin
    <3>2. r.answers = <<>> \/ r.answers[i] = NoAnswer
      BY <1>7, <2>1 DEF Commands
    <3>3. Holds(r, i, u, Unanswered)
      BY <1>7, <3>1, <3>2, NothingIsHeld
    <3>4. QED
      BY <1>5, <1>8, <2>1, <3>3 DEF Provided
  <2>2. CASE x # q
    BY <1>8, <1>15, <2>2 DEF Provided
  <2>3. QED
    BY <2>1, <2>2
<1>16. Exact'
  BY <1>15, AnswersMove
<1>17. QED
  BY <1>11, <1>12, <1>13, <1>14, <1>16 DEF Traced

\* A provider receives a message.
LEMMA ProviderReceivesExact ==
  ASSUME Typed, Traced, Exact, NEW c \in Connections, ProviderReceives(c)
  PROVE  Traced' /\ Exact'
<1>1. PICK m : m = Head(to_provider[c])
  OBVIOUS
<1>2. UNCHANGED <<queries, heard, text, asked, failed, ended, given, asker_up, to_asker>>
  BY DEF ProviderReceives, links, asking
<1>3. /\ to_provider[c] # <<>>
      /\ to_provider' = [to_provider EXCEPT ![c] = Tail(to_provider[c])]
      /\ \/ responses' = responses
         \/ /\ m.id \in ids(told[c]) /\ m.kind \in {"q", "Q"}
            /\ \E of_string \in BOOLEAN :
                 responses' = set(responses, m.query, receive_query(Response0(c, m), m, of_string))
         \/ /\ m.query \in DOMAIN responses
            /\ responses' = [responses EXCEPT ![m.query] = receive_cancel(responses[m.query], m)]
  BY <1>1, ProviderReceivesSteps
<1>4. Shorter(to_provider, to_provider')
  BY <1>3 DEF Shorter
<1>5. ASSUME DOMAIN responses' \subseteq DOMAIN responses,
             \A q \in DOMAIN responses' :
               \/ responses'[q] = responses[q]
               \/ responses'[q] = [responses[q] EXCEPT !.was_cancelled = TRUE]
      PROVE  Traced' /\ Exact'
  <2>1. ASSUME NEW q \in DOMAIN responses'
        PROVE  /\ responses'[q].connection = responses[q].connection
               /\ responses'[q].service_id = responses[q].service_id
               /\ responses'[q].completed = responses[q].completed
               /\ responses'[q].answers = responses[q].answers
               /\ responses'[q].buffer = responses[q].buffer
               /\ \/ responses'[q].was_cancelled = responses[q].was_cancelled
                  \/ responses'[q].was_cancelled = TRUE
    <3>1. responses[q] \in Response
      BY <1>5 DEF Typed, ResponsesTyped, ResponseOK
    <3>2. QED
      BY <1>5, <3>1 DEF Response
  <2>2. \A q \in DOMAIN responses' : KeepsResponse(responses[q], responses'[q])
    BY <1>5, <2>1, ResponsesAsTheyAre
  <2>3. Traced'
    BY <1>2, <1>4, <1>5, <2>2, ProviderTraces
  <2>4. Exact'
    BY <1>2, <1>5, <2>1, ResponsesMarked
  <2>5. QED
    BY <2>3, <2>4
<1>6. CASE responses' = responses
  BY <1>5, <1>6
<1>7. CASE /\ m.query \in DOMAIN responses
           /\ responses' = [responses EXCEPT ![m.query] = receive_cancel(responses[m.query], m)]
  <2>1. \A r : receive_cancel(r, m) = r \/ receive_cancel(r, m) = [r EXCEPT !.was_cancelled = TRUE]
    BY DEF receive_cancel
  <2>2. /\ DOMAIN responses' = DOMAIN responses
        /\ \A q \in DOMAIN responses : q # m.query => responses'[q] = responses[q]
        /\ responses'[m.query] = receive_cancel(responses[m.query], m)
    BY <1>7
  <2>3. QED
    BY <1>5, <2>1, <2>2
<1>8. ASSUME m.id \in ids(told[c]), m.kind \in {"q", "Q"}, NEW of_string \in BOOLEAN,
             responses' = set(responses, m.query, receive_query(Response0(c, m), m, of_string))
      PROVE  Traced' /\ Exact'
  BY <1>1, <1>2, <1>3, <1>8, PartIsReceived
<1>9. QED
  BY <1>3, <1>6, <1>7, <1>8

\* The answer x is added to, as its user gives more.
LEMMA RestAddedTo ==
  ASSUME NEW v \in Progress, NEW x \in Answer, NEW g \in Progress, g.status = "ROWS",
         Rest(v, x, g, FALSE), NEW status \in Statuses, NEW n \in 0 .. 1, status # "ROWS" \/ n > 0
  PROVE  Rest(v, add_to_query_state(x, status, [j \in 1 .. n |-> g.rows + j]),
              [status |-> status, rows |-> g.rows + n], FALSE)
<1> DEFINE m == g.rows
           rows == [j \in 1 .. n |-> m + j]
           more == x.rows \o rows
           y == add_to_query_state(x, status, rows)
           g1 == [status |-> status, rows |-> m + n]
           L == Len(x.rows)
<1>1. x.status = "ROWS" /\ m = v.rows + L /\ v.status = "ROWS"
  BY DEF Rest
<1>2. m \in Nat /\ v.rows \in Nat /\ n \in Nat /\ x.rows \in Seq(Nat) /\ L \in Nat
  BY DEF Progress, Answer
<1>3. rows \in Seq(Nat) /\ Len(rows) = n /\ (\A j \in 1 .. n : rows[j] = m + j)
  <2> DEFINE row(j) == m + j
  <2>1. \A j \in 1 .. n : row(j) \in Nat
    BY <1>2
  <2> HIDE DEF row
  <2>2. [j \in 1 .. n |-> row(j)] \in [1 .. n -> Nat]
    BY <2>1
  <2>3. [j \in 1 .. n |-> row(j)] \in Seq(Nat)
    BY <1>2, <2>2, IsSeq
  <2> DEFINE f == [j \in 1 .. n |-> row(j)]
  <2>4. DOMAIN f = 1 .. n /\ f \in Seq(Nat)
    BY <2>3
  <2> HIDE DEF f
  <2>5. Len(f) = n
    BY <1>2, <2>4
  <2>6. f = rows
    BY DEF f, row
  <2>7. \A j \in 1 .. n : f[j] = m + j
    BY DEF f, row
  <2>8. QED
    BY <2>4, <2>5, <2>6, <2>7
<1>4. y.status = status /\ y.rows = more /\ ~y.was_read
  <2> DEFINE w == x.was_read /\ status = "ROWS" /\ rows = <<>>
  <2>1. ~w
    <3>1. status = "ROWS" => Len(rows) # 0
      BY <1>2, <1>3
    <3> HIDE DEF rows
    <3>2. rows = <<>> => Len(rows) = 0
      OBVIOUS
    <3>3. QED
      BY <3>1, <3>2
  <2>2. y = [status |-> status, rows |-> more, was_read |-> w]
    BY <1>1 DEF add_to_query_state
  <2> HIDE DEF w, more, y
  <2>3. QED
    BY <2>1, <2>2
<1>5. g1.status = status /\ g1.rows = m + n
  OBVIOUS
<1> HIDE DEF rows, y, g1, m
<1>6. /\ DOMAIN more = 1 .. L + n /\ Len(more) = L + n
      /\ \A j \in 1 .. L : more[j] = x.rows[j]
      /\ \A j \in L + 1 .. L + n : more[j] = rows[j - L]
  BY <1>2, <1>3
<1> HIDE DEF more
<1>7. \A j \in DOMAIN more : more[j] = v.rows + j
  <2> SUFFICES ASSUME NEW j \in 1 .. L + n PROVE more[j] = v.rows + j
    BY <1>6
  <2>1. CASE j \in 1 .. L
    <3>1. x.rows[j] = v.rows + j
      BY <1>2, <2>1 DEF Rest
    <3>2. QED
      BY <1>6, <2>1, <3>1
  <2>2. CASE j \notin 1 .. L
    <3>1. j \in L + 1 .. L + n /\ j - L \in 1 .. n
      BY <1>2, <2>2
    <3>2. more[j] = m + (j - L)
      BY <1>3, <1>6, <3>1
    <3>3. QED
      BY <1>1, <1>2, <3>2
  <2>3. QED
    BY <2>1, <2>2
<1>8. g1.rows = v.rows + Len(more)
  BY <1>1, <1>2, <1>5, <1>6
<1>9. Within([status |-> y.status, rows |-> v.rows + Len(more)], g1)
  <2>1. v.rows + Len(more) \in Nat
    BY <1>2, <1>6
  <2>2. QED
    BY <1>4, <1>5, <1>8, <2>1 DEF Within
<1>10. Rest(v, y, g1, FALSE)
  BY <1>1, <1>4, <1>5, <1>7, <1>8, <1>9 DEF Rest
<1>11. QED
  BY <1>10 DEF y, rows, g1, m

\* The user gives more, and the response that was cancelled does not take it.
LEMMA RestOfCancelled ==
  ASSUME NEW v \in Progress, NEW x \in Answer, NEW g \in Progress, g.status = "ROWS",
         Rest(v, x, g, TRUE), NEW status, NEW n \in Nat
  PROVE  Rest(v, x, [status |-> status, rows |-> g.rows + n], TRUE)
<1> DEFINE z == [status |-> x.status, rows |-> v.rows + Len(x.rows)]
           g1 == [status |-> status, rows |-> g.rows + n]
<1>1. z \in Progress
  <2>1. Len(x.rows) \in Nat /\ v.rows \in Nat /\ x.status \in Statuses
    BY DEF Answer, Progress
  <2>2. QED
    BY <2>1 DEF Progress
<1>2. Within(z, g)
  BY DEF Rest
<1> HIDE DEF z
<1>3. Within(z, g1)
  BY <1>1, <1>2, WithinMore
<1> HIDE DEF g1
<1>4. Within([status |-> x.status, rows |-> v.rows + Len(x.rows)], g1)
  BY <1>3 DEF z
<1>5. Rest(v, x, g1, TRUE)
  BY <1>4 DEF Rest
<1>6. QED
  BY <1>5 DEF g1

\* Rest knows of the cancel only whether there was one.
LEMMA RestBoolean ==
  ASSUME NEW v, NEW x, NEW g, NEW gone
  PROVE  /\ gone => (Rest(v, x, g, gone) <=> Rest(v, x, g, TRUE))
         /\ ~gone => (Rest(v, x, g, gone) <=> Rest(v, x, g, FALSE))
  BY DEF Rest

\* The response to a query goes on with what its user gives.
LEMMA HoldsAnswered ==
  ASSUME NEW r, NEW k \in Nat, ResponseOK(r, k), NEW i \in 1 .. k, NEW u \in Progress,
         NEW g \in Progress, g.status = "ROWS", Holds(r, i, u, g),
         NEW status \in Statuses, NEW n \in 0 .. 1, status # "ROWS" \/ n > 0,
         NEW r1,
         IF r.was_cancelled \/ all_final(r.answers) THEN r1 = r
         ELSE /\ r1.was_cancelled = r.was_cancelled /\ r1.buffer = r.buffer
              /\ r1.answers = [r.answers EXCEPT ![i] =
                   add_to_query_state(@, status, [j \in 1 .. n |-> g.rows + j])]
  PROVE  Holds(r1, i, u, [status |-> status, rows |-> g.rows + n])
<1> DEFINE g1 == [status |-> status, rows |-> g.rows + n]
           more(x) == add_to_query_state(x, status, [j \in 1 .. n |-> g.rows + j])
<1>0. n \in Nat
  OBVIOUS
<1>1. CASE r.answers = <<>>
  <2>1. all_final(r.answers)
    BY <1>1 DEF all_final
  <2>2. r1 = r
    BY <2>1
  <2>3. Within(u, g)
    BY <1>1 DEF Holds
  <2>4. Within(u, g1)
    BY <1>0, <2>3, WithinMore
  <2>5. QED
    BY <1>1, <2>2, <2>4 DEF Holds
<1>2. CASE r.answers # <<>>
  <2>1. PICK v \in Progress : Goes(r.buffer, i, u, v) /\ Rest(v, r.answers[i], g, r.was_cancelled)
    BY <1>2 DEF Holds
  <2>2. r.answers \in Seq(Answer) /\ Len(r.answers) = k /\ i \in DOMAIN r.answers
    BY <1>2 DEF ResponseOK, Response
  <2>3. r.answers[i] \in Answer
    BY <2>2
  <2>4. CASE r.was_cancelled
    <3>1. Rest(v, r.answers[i], g, TRUE)
      BY <2>1, <2>4, RestBoolean
    <3>2. Rest(v, r.answers[i], g1, TRUE)
      BY <1>0, <2>3, <3>1, RestOfCancelled
    <3> HIDE DEF g1
    <3>3. Rest(v, r.answers[i], g1, r.was_cancelled)
      BY <2>4, <3>2, RestBoolean
    <3>4. r1 = r
      BY <2>4
    <3>5. Holds(r1, i, u, g1)
      BY <1>2, <2>1, <3>3, <3>4 DEF Holds
    <3>6. QED
      BY <3>5 DEF g1
  <2>5. CASE ~r.was_cancelled
    <3>1. Rest(v, r.answers[i], g, FALSE)
      BY <2>1, <2>5 DEF Rest
    <3>2. r.answers[i].status = "ROWS"
      BY <3>1 DEF Rest
    <3>3. ~all_final(r.answers)
      BY <2>2, <3>2 DEF all_final
    <3>4. Rest(v, more(r.answers[i]), g1, FALSE)
      BY <2>3, <3>1, RestAddedTo
    <3>5. /\ r1.was_cancelled = r.was_cancelled /\ r1.buffer = r.buffer
          /\ r1.answers = [r.answers EXCEPT ![i] = more(@)]
      BY <2>5, <3>3
    <3> HIDE DEF g1, more
    <3>6. r1.answers[i] = more(r.answers[i])
      BY <2>2, <3>5
    <3>7. r1.answers # <<>>
      BY <2>2, <3>5
    <3>8. Rest(v, r1.answers[i], g1, r1.was_cancelled)
      BY <2>5, <3>4, <3>5, <3>6, RestBoolean
    <3>9. Holds(r1, i, u, g1)
      BY <2>1, <3>5, <3>7, <3>8 DEF Holds
    <3>10. QED
      BY <3>9 DEF g1
  <2>6. QED
    BY <2>4, <2>5
<1>3. QED
  BY <1>1, <1>2

\* The same of the other commands.
LEMMA HoldsBesides ==
  ASSUME NEW r, NEW a \in Seq(Answer), r.answers = a, NEW r1, NEW i, NEW k, k # i, NEW x,
         \/ r1 = r
         \/ /\ r1.was_cancelled = r.was_cancelled /\ r1.buffer = r.buffer
            /\ r1.answers = [a EXCEPT ![i] = x],
         NEW u, NEW g, k \in DOMAIN a, Holds(r, k, u, g)
  PROVE  Holds(r1, k, u, g)
<1>1. CASE r1 = r
  BY <1>1
<1>2. CASE /\ r1.was_cancelled = r.was_cancelled /\ r1.buffer = r.buffer
           /\ r1.answers = [a EXCEPT ![i] = x]
  <2>1. r1.answers[k] = r.answers[k] /\ DOMAIN r1.answers = DOMAIN a
    BY <1>2
  <2>2. r.answers # <<>> /\ r1.answers # <<>>
    BY <2>1
  <2>3. PICK v \in Progress : Goes(r.buffer, k, u, v) /\ Rest(v, r.answers[k], g, r.was_cancelled)
    BY <2>2 DEF Holds
  <2>4. QED
    BY <1>2, <2>1, <2>2, <2>3 DEF Holds
<1>3. QED
  BY <1>1, <1>2

\* What an answer of the user does to the response.
LEMMA AnsweredIs ==
  ASSUME Typed, NEW q, NEW i, NEW status \in Statuses, NEW n \in 0 .. 1, SendResponse(q, i, status, n)
  PROVE  /\ q \in DOMAIN responses /\ q \in DOMAIN asked /\ i \in Commands(q)
         /\ responses[q].completed
         /\ given[q][i].status = "ROWS"
         /\ status # "ROWS" \/ n > 0
         /\ given'[q][i] = [status |-> status, rows |-> given[q][i].rows + n]
         /\ \A x \in DOMAIN asked : \A k \in Commands(x) : x # q \/ k # i => given'[x][k] = given[x][k]
         /\ DOMAIN responses' = DOMAIN responses
         /\ \A x \in DOMAIN responses : x # q => responses'[x] = responses[x]
         /\ responses'[q].connection = responses[q].connection
         /\ responses'[q].service_id = responses[q].service_id
         /\ responses'[q].completed = responses[q].completed
         /\ IF responses[q].was_cancelled \/ all_final(responses[q].answers)
            THEN responses'[q] = responses[q]
            ELSE /\ responses'[q].was_cancelled = responses[q].was_cancelled
                 /\ responses'[q].buffer = responses[q].buffer
                 /\ responses'[q].answers = [responses[q].answers EXCEPT ![i] =
                      add_to_query_state(@, status, [j \in 1 .. n |-> given[q][i].rows + j])]
         /\ UNCHANGED <<queries, heard, text, asked, failed, ended, asker_up, to_asker, to_provider>>
<1> DEFINE r == responses[q]
           g == given[q][i]
           g1 == [status |-> status, rows |-> g.rows + n]
           rows == [j \in 1 .. n |-> g.rows + j]
           more(x) == add_to_query_state(x, status, rows)
<1>1. /\ q \in DOMAIN responses /\ r.was_read /\ i \in DOMAIN given[q] /\ g.status = "ROWS"
      /\ status # "ROWS" \/ n > 0
      /\ given' = [given EXCEPT ![q][i] = g1]
      /\ responses' = IF r.was_cancelled \/ all_final(r.answers) THEN responses
                      ELSE [responses EXCEPT ![q].answers[i] = more(@)]
      /\ UNCHANGED <<queries, heard, text, asked, failed, ended, asker_up, to_asker, to_provider>>
  BY DEF SendResponse, links, asking
<1> HIDE DEF g1, more
<1>2. q \in DOMAIN asked /\ ResponseOK(r, asked[q].commands)
  BY <1>1 DEF Typed, ResponsesTyped
<1>3. /\ r \in Response /\ r.completed
  BY <1>1, <1>2 DEF ResponseOK
<1>4. /\ given[q] \in [Commands(q) -> [status : Statuses, rows : Nat]]
      /\ DOMAIN given = DOMAIN asked
  BY <1>2 DEF Typed, AskedTyped, Commands
<1>5. i \in Commands(q)
  BY <1>1, <1>4
<1>6. given'[q][i] = g1
  BY <1>1, <1>2, <1>4
<1>7. \A x \in DOMAIN asked : \A k \in Commands(x) : x # q \/ k # i => given'[x][k] = given[x][k]
  <2> SUFFICES ASSUME NEW x \in DOMAIN asked, NEW k \in Commands(x), x # q \/ k # i PROVE given'[x][k] = given[x][k]
    OBVIOUS
  <2>1. CASE x # q
    BY <1>1, <1>4, <2>1
  <2>2. CASE x = q
    <3>1. given'[q] = [given[q] EXCEPT ![i] = g1]
      BY <1>1, <1>2, <1>4
    <3>2. k # i
      BY <2>2
    <3> DEFINE f == given[q]
    <3>3. given'[q][k] = [f EXCEPT ![i] = g1][k]
      BY <3>1
    <3>4. k \in DOMAIN f
      BY <1>4, <2>2
    <3> HIDE DEF f
    <3>5. given'[q][k] = f[k]
      BY <3>2, <3>3, <3>4
    <3>6. QED
      BY <2>2, <3>5 DEF f
  <2>3. QED
    BY <2>1, <2>2
<1>8. CASE r.was_cancelled \/ all_final(r.answers)
  <2>1. responses' = responses
    BY <1>1, <1>8
  <2>2. QED
    BY <1>1, <1>2, <1>3, <1>5, <1>6, <1>7, <1>8, <2>1 DEF g1
<1>9. CASE ~(r.was_cancelled \/ all_final(r.answers))
  <2> DEFINE r1 == [r EXCEPT !.answers = [r.answers EXCEPT ![i] = more(@)]]
  <2>1. responses' = [responses EXCEPT ![q] = r1]
    BY <1>1, <1>9
  <2>2. /\ r1.connection = r.connection /\ r1.service_id = r.service_id
        /\ r1.completed = r.completed /\ r1.was_cancelled = r.was_cancelled
        /\ r1.buffer = r.buffer
        /\ r1.answers = [r.answers EXCEPT ![i] = more(@)]
    BY <1>3 DEF Response
  <2> HIDE DEF r1
  <2>3. /\ responses'[q] = r1 /\ DOMAIN responses' = DOMAIN responses
        /\ \A x \in DOMAIN responses : x # q => responses'[x] = responses[x]
    BY <1>1, <2>1
  <2>4. QED
    BY <1>1, <1>2, <1>3, <1>5, <1>6, <1>7, <1>9, <2>2, <2>3 DEF g1, more
<1>10. QED
  BY <1>8, <1>9

\* A provider's user answers.
LEMMA SendResponseExact ==
  ASSUME Typed, Traced, Exact, NEW q, NEW i, NEW status \in Statuses, NEW n \in 0 .. 1,
         SendResponse(q, i, status, n)
  PROVE  Traced' /\ Exact'
<1>1. /\ q \in DOMAIN responses /\ q \in DOMAIN asked /\ i \in Commands(q)
      /\ responses[q].completed
      /\ given[q][i].status = "ROWS"
      /\ status # "ROWS" \/ n > 0
      /\ given'[q][i] = [status |-> status, rows |-> given[q][i].rows + n]
      /\ \A x \in DOMAIN asked : \A k \in Commands(x) : x # q \/ k # i => given'[x][k] = given[x][k]
      /\ DOMAIN responses' = DOMAIN responses
      /\ \A x \in DOMAIN responses : x # q => responses'[x] = responses[x]
      /\ responses'[q].connection = responses[q].connection
      /\ responses'[q].service_id = responses[q].service_id
      /\ responses'[q].completed = responses[q].completed
      /\ IF responses[q].was_cancelled \/ all_final(responses[q].answers)
         THEN responses'[q] = responses[q]
         ELSE /\ responses'[q].was_cancelled = responses[q].was_cancelled
              /\ responses'[q].buffer = responses[q].buffer
              /\ responses'[q].answers = [responses[q].answers EXCEPT ![i] =
                   add_to_query_state(@, status, [j \in 1 .. n |-> given[q][i].rows + j])]
      /\ UNCHANGED <<queries, heard, text, asked, failed, ended, asker_up, to_asker, to_provider>>
  BY AnsweredIs
<1>2. Typed' /\ ResponsesGoOn
  BY SendResponseKeepsTypes
<1>3. \A x \in DOMAIN asked : IsBegun(x)' => IsBegun(x)
  <2> SUFFICES ASSUME NEW x \in DOMAIN asked, IsBegun(x)', x # q PROVE IsBegun(x)
    BY <1>1 DEF IsBegun
  <2>1. \A k \in Commands(x) : given'[x][k] = given[x][k]
    BY <1>1
  <2>2. Commands(x)' = Commands(x)
    BY <1>1 DEF Commands
  <2>3. x \in DOMAIN responses' => x \in DOMAIN responses /\ responses'[x] = responses[x]
    BY <1>1
  <2>4. QED
    BY <2>1, <2>2, <2>3 DEF IsBegun
<1>4. \A x \in DOMAIN responses' : KeepsResponse(responses[x], responses'[x])
  <2>1. ASSUME NEW x \in DOMAIN responses, x # q PROVE KeepsResponse(responses[x], responses'[x])
    BY <1>1, <2>1, ResponsesAsTheyAre
  <2>2. CASE responses'[q] = responses[q]
    BY <1>1, <2>1, <2>2, ResponsesAsTheyAre
  <2>3. CASE responses'[q] # responses[q]
    <3> DEFINE a == responses[q].answers
               a1 == responses'[q].answers
    <3>1. a1 = [a EXCEPT ![i] = add_to_query_state(@, status, [j \in 1 .. n |-> given[q][i].rows + j])]
          /\ ~all_final(a)
      BY <1>1, <2>3
    <3>2. DOMAIN a1 = DOMAIN a
      BY <3>1
    <3>3. DOMAIN a # {}
      BY <3>1 DEF all_final
    <3>4. a1 # <<>>
      BY <3>2, <3>3
    <3>5. KeepsResponse(responses[q], responses'[q])
      BY <1>1, <3>4 DEF KeepsResponse
    <3>6. QED
      BY <1>1, <2>1, <3>5
  <2>4. QED
    BY <2>2, <2>3
<1>5. Traced'
  <2>1. Shorter(to_provider, to_provider') /\ Shorter(to_asker, to_asker')
    BY <1>1 DEF Shorter
  <2>2. QueriesGoOn
    BY <1>1, QueriesUntouched
  <2>3. QED
    BY <1>1, <1>3, <1>4, <2>1, <2>2, TracesStay
<1>6. ASSUME NEW x \in DOMAIN asked, NEW k \in Commands(x), NEW u \in Progress, Provided(x, k, u)
      PROVE  Provided(x, k, u)'
  <2>1. CASE x = q /\ k = i
    <3> DEFINE r == responses[q]
               r1 == responses'[q]
               g == given[q][i]
               m == asked[q].commands
    <3>1. m \in Nat /\ i \in 1 .. m /\ g \in Progress /\ g.status = "ROWS"
      BY <1>1, CommandTypes DEF Commands
    <3>2. ResponseOK(r, m)
      BY <1>1 DEF Typed, ResponsesTyped
    <3>3. Holds(r, i, u, g)
      BY <1>1, <1>6, <2>1 DEF Provided
    <3>4. IF r.was_cancelled \/ all_final(r.answers) THEN r1 = r
          ELSE /\ r1.was_cancelled = r.was_cancelled /\ r1.buffer = r.buffer
               /\ r1.answers = [r.answers EXCEPT ![i] =
                    add_to_query_state(@, status, [j \in 1 .. n |-> g.rows + j])]
      BY <1>1
    <3>5. status # "ROWS" \/ n > 0
      BY <1>1
    <3> HIDE DEF r, r1, g, m
    <3>6. Holds(r1, i, u, [status |-> status, rows |-> g.rows + n])
      BY <3>1, <3>2, <3>3, <3>4, <3>5, HoldsAnswered
    <3>7. given'[q][i] = [status |-> status, rows |-> g.rows + n]
      BY <1>1 DEF g
    <3>8. Holds(r1, i, u, given'[q][i])
      BY <3>6, <3>7
    <3>9. QED
      BY <1>1, <2>1, <3>8 DEF Provided, r1
  <2>2. CASE x # q
    <3>1. given'[x][k] = given[x][k]
      BY <1>1, <2>2
    <3>2. x \in DOMAIN responses' <=> x \in DOMAIN responses
      BY <1>1
    <3>3. x \in DOMAIN responses => responses'[x] = responses[x]
      BY <1>1, <2>2
    <3>4. QED
      BY <1>6, <3>1, <3>2, <3>3 DEF Provided
  <2>3. CASE x = q /\ k # i
    <3> DEFINE r == responses[q]
               r1 == responses'[q]
               g == given[q][k]
               a == responses[q].answers
               y == add_to_query_state(a[i], status, [j \in 1 .. n |-> given[q][i].rows + j])
    <3>1. given'[q][k] = g
      BY <1>1, <2>3
    <3>2. Holds(r, k, u, g)
      BY <1>1, <1>6, <2>3 DEF Provided
    <3>3. ResponseOK(r, asked[q].commands)
      BY <1>1 DEF Typed, ResponsesTyped
    <3>4. a \in Seq(Answer) /\ r.answers = a /\ (a = <<>> \/ Len(a) = asked[q].commands)
      BY <3>3 DEF ResponseOK, Response
    <3>5. \/ r1 = r
          \/ /\ r1.was_cancelled = r.was_cancelled /\ r1.buffer = r.buffer
             /\ r1.answers = [a EXCEPT ![i] = y]
      BY <1>1
    <3> HIDE DEF r, r1, g, a, y
    <3>6. CASE a = <<>>
      <4>1. all_final(a)
        BY <3>6 DEF all_final
      <4>2. r1 = r
        BY <1>1, <4>1 DEF r, r1, a
      <4>3. QED
        BY <1>1, <2>3, <3>1, <3>2, <4>2 DEF Provided, r1
    <3>7. CASE a # <<>>
      <4>1. k \in 1 .. asked[q].commands
        BY <2>3 DEF Commands
      <4>2. k \in DOMAIN a
        BY <3>4, <3>7, <4>1
      <4>3. Holds(r1, k, u, g)
        BY <2>3, <3>2, <3>4, <3>5, <4>2, HoldsBesides
      <4>4. QED
        BY <1>1, <2>3, <3>1, <4>3 DEF Provided, r1
    <3>8. QED
      BY <3>6, <3>7
  <2>4. QED
    BY <2>1, <2>2, <2>3
<1>7. Exact'
  <2>1. ASSUME NEW x \in DOMAIN queries, NEW k \in Commands(x), NEW t \in Progress, NEW u \in Progress,
               Comes(to_asker[queries[x].connection], x, k, t, u), Provided(x, k, u)
        PROVE  Comes(to_asker'[queries[x].connection], x, k, t, u) /\ Provided(x, k, u)'
    <3>1. x \in DOMAIN asked
      BY DEF Typed, QueriesTyped
    <3>2. Provided(x, k, u)'
      BY <1>6, <2>1, <3>1
    <3>3. QED
      BY <1>1, <2>1, <3>2
  <2>2. n \in Nat
    OBVIOUS
  <2>3. ASSUME NEW x \in DOMAIN asked, NEW k \in Commands(x)
        PROVE  \/ given'[x][k] = given[x][k]
               \/ /\ given[x][k].status = "ROWS"
                  /\ \E s : \E j \in Nat : given'[x][k] = [status |-> s, rows |-> given[x][k].rows + j]
    <3>1. CASE x = q /\ k = i
      BY <1>1, <2>2, <3>1
    <3>2. CASE x # q \/ k # i
      BY <1>1, <3>2
    <3>3. QED
      BY <3>1, <3>2
  <2>4. QED
    BY <1>1, <2>1, <2>3, AnswersMove
<1>8. QED
  BY <1>5, <1>7

LEMMA StepsKeepExact ==
  ASSUME Typed, Traced, Exact, [Next]_vars
  PROVE  Traced' /\ Exact'
<1>1. CASE UNCHANGED vars
  BY <1>1, UntouchedExact
<1>2. ASSUME NEW service \in Services, NEW shape \in Shapes, SendQuery(service, shape)
      PROVE  Traced' /\ Exact'
  BY <1>2, SendQueryExact
<1>3. ASSUME NEW q, NEW cb \in BOOLEAN, CancelQuery(q, cb) PROVE Traced' /\ Exact'
  BY <1>3, CancelExact
<1>4. ASSUME NEW q, TimeOut(q) PROVE Traced' /\ Exact'
  BY <1>4, TimeOutExact
<1>5. ASSUME NEW c \in Connections, SendOfQuery(c) \/ AskerReceives(c) PROVE Traced' /\ Exact'
  BY <1>5, SendOfQueryExact, AskerReceivesExact
<1>6. CASE GetReceivedResponses
  BY <1>6, GetResponsesExact
<1>7. ASSUME NEW p, NEW services, SetAcceptedServices(p, services) PROVE Traced' /\ Exact'
  BY <1>7, ServicesExact
<1>8. ASSUME NEW c \in Connections, Announce(c) \/ SendOfAnswer(c) \/ ProviderReceives(c)
      PROVE  Traced' /\ Exact'
  BY <1>8, AnnounceExact, SendOfAnswerExact, ProviderReceivesExact
<1>9. ASSUME NEW p, GetReceivedQueries(p) PROVE Traced' /\ Exact'
  BY <1>9, GetQueriesExact
<1>10. ASSUME NEW q, NEW i, NEW status \in Statuses, NEW n \in 0 .. 1, SendResponse(q, i, status, n)
       PROVE  Traced' /\ Exact'
  BY <1>10, SendResponseExact
<1>11. ASSUME NEW c \in Connections, AskerLoses(c) \/ ProviderLoses(c) \/ Connect(c)
       PROVE  Traced' /\ Exact'
  BY <1>11, AskerLosesExact, ProviderLosesExact, ConnectExact
<1>12. QED
  BY <1>1, <1>2, <1>3, <1>4, <1>5, <1>6, <1>7, <1>8, <1>9, <1>10, <1>11, StepsAre

\* AnswersAreExact in every behaviour, for any connections, services, bounds and
\* schedules of MyQueryList and MyResponseList: what get_received_responses tells
\* the user of a command is what DbSendResponse was given for it by the user of
\* the provider, row after row, each once and in order; that they are all is told
\* only when he has said so and all were told, and the end of a query only when
\* every command has its last status and nothing is left to tell.  Wherever the
\* messages end, inside an entry too.  Where a part of the answer was dropped, rows
\* may be missing between those that are told, but none comes twice or out of
\* order, unless the parser was given pieces of entries (text is "torn"): of the
\* rows told then nothing is said.
THEOREM AnswersAreAlwaysExact == Spec => []AnswersAreExact
<1>1. Typed /\ Traced /\ Exact /\ [Next]_vars => (Typed /\ Traced /\ Exact)'
  BY StepsKeepTypes, StepsKeepExact
<1>2. Init => Typed /\ Traced /\ Exact
  BY InitTyped, InitExact
<1>3. Typed /\ Traced /\ Exact => AnswersAreExact
  BY ExactIsExact
<1>4. QED
  BY <1>1, <1>2, <1>3, PTL DEF Spec

=============================================================================
