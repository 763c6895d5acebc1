--------------------------------- MODULE Db ---------------------------------
(***************************************************************************)
(* Queries and their answers: CmDbState, MyQueryList and MyResponseList of *)
(* a process that asks and of the processes that provide services, with    *)
(* the callbacks and the waking of CmCore around them.                     *)
(*                                                                         *)
(* A connection c is one CmDbPartner on either side and a FIFO in each     *)
(* direction (what the transport promises, see UdpLink).  The text of a    *)
(* query is a number of parts, of which a message takes some; an answer is *)
(* a sequence of entries, and a message ends between two of them or inside *)
(* one, which is in two messages then.  A row is its number among the rows *)
(* of its command, 0 one that nobody gave.  Time is only whether           *)
(* check_timeout finds a query overdue.  Left out: forwarded queries, the  *)
(* timer service, and the services a process provides to itself.           *)
(***************************************************************************)
EXTENDS Integers, Sequences, FiniteSets

CONSTANTS
  Providers, Services,
  Connections,     \* connections in the order of their numbers
  ProviderOf,      \* whom a connection leads to
  ServiceIds,      \* (256 numbers)
  Budgets,         \* bounds, each a record of what may happen in one behaviour: services,
                   \* ids, queries, shapes ([commands, parts]), rows, changes, losses
  MaxInFlight      \* bound of the messages in a channel

ASSUME DbAssumption ==
  /\ Connections \subseteq Int
  /\ ProviderOf \in [Connections -> Providers]
  /\ MaxInFlight \in Nat
  /\ \A b \in Budgets : b.queries \in Nat /\ b.shapes \subseteq [commands : Nat, parts : Nat]

QueryIds == UNION {1 .. b.queries : b \in Budgets}
Shapes == UNION {b.shapes : b \in Budgets}

VARIABLES
  my_services,     \* provider -> services its user provides
  told,            \* connection -> service -> id: the provider's my_accepted_services
  known,           \* connection -> service -> id: the asker's partners_accepted_services
  asker_up, provider_up,    \* connections with a partner that is not is_disconnected
  met,             \* connections there were
  to_provider, to_asker,    \* connection -> messages on their way
  queries,         \* query id -> MyQueryState, while the asker has one
  text,            \* query -> what its parser was given of the answer:
                   \*   "exact" all that came, "hole" not the last that came,
                   \*   "sound" whole entries, not all, "torn" pieces of entries
  unheard,         \* history: queries of which a part, or the cancel, was dropped
  responses,       \* query id -> MyResponseState, while the provider has one
  failed,          \* responses_from_nonexistant_services, by query
  asker_callback, provider_callback,   \* a callback was generated and has not run
  asked,           \* queries the user has sent: what he sent
  heard,           \* query -> what the user was told of each command
  ended,           \* queries whose end the user was told
  given,           \* query -> what the provider's user answered to each command
  changes, losses  \* counters for the bounds

vars == <<my_services, told, known, asker_up, provider_up, met, to_provider, to_asker, queries,
          text, unheard, responses, failed, asker_callback, provider_callback, asked, heard, ended,
          given, changes, losses>>

links == <<asker_up, provider_up, met, losses>>
asking == <<known, queries, text, failed, asker_callback, asked, heard, ended>>
providing == <<my_services, told, responses, unheard, provider_callback, given, changes>>

Empty == [x \in {} |-> 0]
set(f, k, v) == [x \in DOMAIN f \cup {k} |-> IF x = k THEN v ELSE f[x]]
without(f, S) == [x \in DOMAIN f \ S |-> f[x]]
ids(services) == {services[s] : s \in DOMAIN services}
named(services, id) == CHOOSE s \in DOMAIN services : services[s] = id
first(S) == CHOOSE q \in S : \A r \in S : q <= r

-----------------------------------------------------------------------------
Answers == {"ROWS", "DONE", "ERROR"}

\* MyReceivedResponse: one command's answer so far.
NoAnswer == [status |-> "ROWS", rows |-> <<>>, was_read |-> FALSE]

has_news(r) == ~r.was_read /\ (r.status # "ROWS" \/ r.rows # <<>>)

\* add_to_query_state, of one command.
add_to_query_state(r, status, rows) ==
  IF r.status # "ROWS" THEN r
  ELSE [status |-> status, rows |-> r.rows \o rows,
        was_read |-> r.was_read /\ status = "ROWS" /\ rows = <<>>]

\* set_each_command_response_to_error.
failing(answers) == [i \in DOMAIN answers |->
  IF answers[i].status = "ROWS" THEN [answers[i] EXCEPT !.status = "ERROR", !.was_read = FALSE]
  ELSE answers[i]]

\* is_query_completed, is_last_chunk.
all_final(answers) == \A i \in DOMAIN answers : answers[i].status # "ROWS"

\* Mutated form: one command that has ended is enough.
is_query_completed_one(answers) == \E i \in DOMAIN answers : answers[i].status # "ROWS" /\ answers[i].was_read

is_query_completed(answers) == all_final(answers) /\ \A i \in DOMAIN answers : answers[i].was_read

can_query_be_erased(q) ==
  /\ q.response # "Running"
  /\ q.query # "NeedSendCancel"
  /\ q.response = "Cancelled" \/ \A i \in DOMAIN q.answers : q.answers[i].was_read

\* remove_finished_queries, of the lists of some connections.
remaining(qs, C) == without(qs, {q \in DOMAIN qs : qs[q].connection \in C /\ can_query_be_erased(qs[q])})

aborted(q) == [q EXCEPT !.response = "Aborted", !.answers = failing(q.answers)]

\* Mutated form: the user is told of a query that comes or goes only.
wakes_user_for_another(before, after) == DOMAIN before # DOMAIN after

\* Does what has changed generate a callback?
wakes_user(before, after) == before # after

\* (bounds)
Affordable ==
  \E b \in Budgets :
    /\ Cardinality(DOMAIN asked) <= b.queries /\ changes <= b.changes /\ losses <= b.losses
    /\ \A q \in DOMAIN asked :
         /\ [commands |-> asked[q].commands, parts |-> asked[q].parts] \in b.shapes
         /\ \A i \in DOMAIN given[q] : given[q][i].rows <= b.rows
    /\ \A p \in Providers : my_services[p] \subseteq b.services
    /\ \A c \in Connections : ids(told[c]) \subseteq b.ids

Init ==
  /\ my_services = [p \in Providers |-> {}]
  /\ told = [c \in Connections |-> Empty]
  /\ known = [c \in Connections |-> Empty]
  /\ asker_up = {c \in Connections : \A d \in Connections : ProviderOf[d] = ProviderOf[c] => c <= d}
  /\ provider_up = asker_up /\ met = asker_up
  /\ to_provider = [c \in Connections |-> <<>>]
  /\ to_asker = [c \in Connections |-> <<>>]
  /\ queries = Empty /\ text = [q \in QueryIds |-> "exact"] /\ unheard = {} /\ responses = Empty /\ failed = {}
  /\ asker_callback = FALSE
  /\ provider_callback = [p \in Providers |-> FALSE]
  /\ asked = Empty /\ heard = Empty /\ ended = {} /\ given = Empty
  /\ changes = 0 /\ losses = 0

-----------------------------------------------------------------------------
\* The services.

\* DbSetAcceptedServices, DbAcceptService.
SetAcceptedServices(p, services) ==
  /\ changes' = changes + 1
  /\ my_services[p] # services
  /\ my_services' = [my_services EXCEPT ![p] = services]
  /\ provider_callback' = [provider_callback EXCEPT ![p] = TRUE]
  /\ UNCHANGED <<links, asking, told, unheard, responses, given, to_provider, to_asker>>
  /\ Affordable'

unannounced(c) == my_services[ProviderOf[c]] \ DOMAIN told[c]
withdrawn(c) == DOMAIN told[c] \ my_services[ProviderOf[c]]

\* What is sent to a partner who has gone is lost.
Sent(c, channel, up, m) ==
  /\ Len(channel[c]) < MaxInFlight
  /\ channel' = IF c \in up THEN [channel EXCEPT ![c] = Append(@, m)] ELSE channel

\* generate_accepted_services_to_send: one service to a message, with any id
\* that is not used.
Announce(c) ==
  /\ c \in provider_up
  /\ \/ \E s \in unannounced(c), id \in ServiceIds \ ids(told[c]) :
          /\ told' = [told EXCEPT ![c] = set(@, s, id)]
          /\ Sent(c, to_asker, asker_up, [kind |-> "a", service |-> s, id |-> id])
     \/ /\ unannounced(c) = {}
        /\ \E s \in withdrawn(c) :
             /\ told' = [told EXCEPT ![c] = without(@, {s})]
             /\ Sent(c, to_asker, asker_up, [kind |-> "A", id |-> told[c][s]])
  /\ UNCHANGED <<links, asking, my_services, unheard, responses, provider_callback, given, changes,
                 to_provider>>
  /\ Affordable'

\* Mutated form: a rejected service is kept.
receive_service_kept(services, m) ==
  IF m.kind = "a" /\ m.service \notin DOMAIN services /\ m.id \notin ids(services)
  THEN set(services, m.service, m.id) ELSE services

\* receive_msg_accept, receive_msg_reject: the services known after a message.
receive_service(services, m) ==
  CASE m.kind = "a" /\ m.service \notin DOMAIN services /\ m.id \notin ids(services) ->
         set(services, m.service, m.id)
    [] m.kind = "A" /\ m.id \in ids(services) -> without(services, {named(services, m.id)})
    [] OTHER -> services

-----------------------------------------------------------------------------
\* The asker.

\* MyQueryList::add_new_query, with the id of the service at this moment.
new_query(c, service, shape) ==
  [connection |-> c, service_id |-> known[c][service], query |-> "Prepared", unsent |-> shape.parts,
   response |-> "Running", answers |-> [i \in 1 .. shape.commands |-> NoAnswer]]

\* DbSendQuery: to any partner who accepts the service; when nobody does, the
\* answer to every command is an error.
SendQuery(service, shape) ==
  LET q == Cardinality(DOMAIN asked) + 1
      able == {c \in asker_up : service \in DOMAIN known[c]}
  IN /\ q \in QueryIds
     /\ asked' = set(asked, q, [service |-> service, commands |-> shape.commands,
                                parts |-> shape.parts])
     /\ heard' = set(heard, q, [i \in 1 .. shape.commands |-> [status |-> "ROWS", rows |-> <<>>]])
     /\ given' = set(given, q, [i \in 1 .. shape.commands |-> [status |-> "ROWS", rows |-> 0]])
     /\ \/ \E c \in able : /\ queries' = set(queries, q, new_query(c, service, shape))
                           /\ UNCHANGED failed
        \/ able = {} /\ failed' = failed \cup {q} /\ UNCHANGED queries
     /\ asker_callback' = TRUE
     /\ UNCHANGED <<links, known, text, ended, my_services, unheard, told, responses,
                    provider_callback, changes, to_provider, to_asker>>
     /\ Affordable'

\* DbCancelQuery: the query is answered with an error or not at all.  A call for
\* one that was cancelled, timed out or aborted already does nothing.
cancelled(q, gen_callback) ==
  IF gen_callback THEN [aborted(q) EXCEPT !.query = "NeedSendCancel"]
  ELSE [q EXCEPT !.query = "NeedSendCancel", !.response = "Cancelled"]

CancelQuery(q, gen_callback) ==
  /\ q \in DOMAIN queries
  /\ queries[q].query = "Prepared"
  /\ queries' = remaining([queries EXCEPT ![q] = cancelled(@, gen_callback)], {queries[q].connection})
  /\ asker_callback' = TRUE
  /\ UNCHANGED <<links, known, text, failed, asked, heard, ended, providing, to_provider, to_asker>>

\* Mutated form: the commands get no answer.
overdue_silently(q) == [q EXCEPT !.response = "Aborted", !.query = "NeedSendCancel"]

\* EvalDb, check_timeout: a query that is overdue.
overdue(q) == [aborted(q) EXCEPT !.query = "NeedSendCancel"]

TimeOut(q) ==
  /\ q \in DOMAIN queries
  /\ queries[q].response = "Running"
  /\ queries' = [queries EXCEPT ![q] = overdue(@)]
  /\ asker_callback' = TRUE
  /\ UNCHANGED <<links, known, text, failed, asked, heard, ended, providing, to_provider, to_asker>>

\* MyQueryList::generate_data_to_send: the first query that has something.
has_to_send(q) == q.query = "NeedSendCancel" \/ (q.query = "Prepared" /\ q.unsent > 0)

SendOfQuery(c) ==
  LET sending == {q \in DOMAIN queries : queries[q].connection = c /\ has_to_send(queries[q])}
      q == first(sending)
      id == queries[q].service_id
  IN /\ c \in asker_up
     /\ sending # {}
     /\ \/ /\ queries[q].query = "NeedSendCancel"
           /\ queries' = [queries EXCEPT ![q].query = "CancelWasSent"]
           /\ Sent(c, to_provider, provider_up, [kind |-> "C", id |-> id, query |-> q])
        \/ /\ queries[q].query = "Prepared"
           /\ \E n \in 1 .. queries[q].unsent :
                /\ queries' = [queries EXCEPT ![q].unsent = @ - n]
                /\ Sent(c, to_provider, provider_up,
                        [kind |-> IF n = queries[q].unsent THEN "Q" ELSE "q", id |-> id,
                         query |-> q, parts |-> n])
     /\ UNCHANGED <<links, known, text, failed, asker_callback, asked, heard, ended, providing, to_asker>>

\* MyQueryList::receive_data, and parse_received_data of what came.
added(answers, entries) ==
  LET after[n \in 0 .. Len(entries)] ==
        IF n = 0 THEN answers
        ELSE LET e == entries[n]
             IN  [after[n - 1] EXCEPT ![e.command] = add_to_query_state(@, e.status, e.rows)]
  IN  after[Len(entries)]

\* m is a part of an answer, and begins inside an entry.
begins_inside(m) == m.kind # "E" /\ m.inside

\* What a parser was given, t, is after the part m was dropped,
text_without(t, m) ==
  IF t = "torn" \/ (t # "hole" /\ begins_inside(m)) THEN "torn" ELSE "hole"

\* and after it came.
text_with(t, m) ==
  IF t = "hole" THEN (IF begins_inside(m) THEN "torn" ELSE "sound") ELSE t

\* process_received_response: the parser reads the entries that end in m, even if
\* they began in the message before; of torn text it may make an entry that
\* nobody sent, miss some, or throw after some.
mangled(q) == [command : DOMAIN q.answers, status : Answers, rows : {<<>>, <<0>>}]

readings(t, q, m) ==
  IF m.kind = "E" THEN {[entries |-> <<>>, parses |-> TRUE]}
  ELSE IF t # "torn" THEN {[entries |-> m.entries, parses |-> TRUE]}
  ELSE {[entries |-> odd \o SubSeq(m.entries, k, Len(m.entries)), parses |-> ok] :
          odd \in {<<>>} \cup {<<e>> : e \in mangled(q)}, k \in 1 .. Len(m.entries) + 1, ok \in BOOLEAN}

receive_response(q, m, reading) ==
  LET read == [q EXCEPT !.answers = added(@, reading.entries)]
  IN  CASE m.kind = "E" -> [aborted(q) EXCEPT !.query = "Aborted"]
        [] m.kind # "E" /\ ~reading.parses -> overdue(read)
        [] m.kind = "r" /\ reading.parses -> read
        [] m.kind = "R" /\ reading.parses ->
             [read EXCEPT !.response = "Completed", !.answers = failing(@)]

\* Is it an answer that is waited for?
is_awaited(c, m) ==
  /\ m.kind \in {"r", "R", "E"}
  /\ m.query \in DOMAIN queries
  /\ queries[m.query].connection = c
  /\ queries[m.query].service_id = m.id
  /\ queries[m.query].response = "Running"

\* ReceivedTextData at the asker: receive_partner_data, receive_msg_full.  What
\* names a service he does not know is dropped: the provider withdrew it while
\* he answers.  What is taken generates a callback, whatever it brings.
AskerReceives(c) ==
  LET m == Head(to_asker[c])
      heeded == is_awaited(c, m) /\ m.id \in ids(known[c])
  IN /\ to_asker[c] # <<>>
     /\ to_asker' = [to_asker EXCEPT ![c] = Tail(@)]
     /\ known' = [known EXCEPT ![c] = receive_service(@, m)]
     /\ IF heeded
          THEN /\ text' = [text EXCEPT ![m.query] = text_with(@, m)]
               /\ \E reading \in readings(text'[m.query], queries[m.query], m) :
                    queries' = [queries EXCEPT ![m.query] = receive_response(@, m, reading)]
          ELSE /\ text' = IF is_awaited(c, m) THEN [text EXCEPT ![m.query] = text_without(@, m)]
                          ELSE text
               /\ UNCHANGED queries
     /\ asker_callback' = (asker_callback \/ known' # known \/ heeded)
     /\ UNCHANGED <<links, failed, asked, heard, ended, providing, to_provider>>

\* get_received_responses, in the user's callback: what is new of each query,
\* and whether that was all.
news(q) == {i \in DOMAIN queries[q].answers : has_news(queries[q].answers[i])}

\* get_new_responses: what is left of a query after it was read.
query_read(q) == [q EXCEPT !.answers = [i \in DOMAIN q.answers |->
  IF has_news(q.answers[i]) THEN [q.answers[i] EXCEPT !.was_read = TRUE, !.rows = <<>>]
  ELSE q.answers[i]]]

read_of(q) == IF queries[q].response = "Cancelled" THEN queries[q] ELSE query_read(queries[q])
told_now == {q \in DOMAIN queries : queries[q].response # "Cancelled" /\ news(q) # {}}
ended_now == {q \in told_now : is_query_completed(query_read(queries[q]).answers)}

GetReceivedResponses ==
  /\ asker_callback
  /\ asker_callback' = FALSE
  /\ heard' = [q \in DOMAIN heard |-> [i \in DOMAIN heard[q] |->
       IF q \in failed THEN [heard[q][i] EXCEPT !.status = "ERROR"]
       ELSE IF q \in told_now /\ i \in news(q)
       THEN [status |-> queries[q].answers[i].status, rows |-> heard[q][i].rows \o queries[q].answers[i].rows]
       ELSE heard[q][i]]]
  /\ ended' = ended \cup failed \cup ended_now
  /\ failed' = {}
  /\ queries' = remaining([q \in DOMAIN queries |-> read_of(q)], Connections)
  /\ UNCHANGED <<links, known, text, asked, providing, to_provider, to_asker>>

-----------------------------------------------------------------------------
\* A provider.

\* create_new_query.
NewResponse(c, m, service) ==
  [connection |-> c, service_id |-> m.id, service |-> service, parts |-> 0, completed |-> FALSE,
   was_read |-> FALSE, was_cancelled |-> FALSE, failed |-> FALSE, answers |-> <<>>, buffer |-> <<>>,
   begun |-> FALSE]

\* MyResponseList::receive_data: once the last part is there the text is parsed.
\* If a part is missing that fails, unless it was one of a string.
receive_query(r, m, of_string) ==
  IF r.service_id # m.id \/ r.completed \/ r.was_cancelled THEN r
  ELSE IF m.kind = "q" THEN [r EXCEPT !.parts = @ + m.parts]
  ELSE IF of_string \/ r.parts + m.parts = asked[m.query].parts
  THEN [r EXCEPT !.parts = @ + m.parts, !.completed = TRUE,
                 !.answers = [i \in 1 .. asked[m.query].commands |-> NoAnswer]]
  ELSE [r EXCEPT !.parts = @ + m.parts, !.completed = TRUE, !.failed = TRUE]

\* Mutated form: a query of which parts are missing is not cancelled.
receive_cancel_of_whole(r, m) ==
  IF r.service_id # m.id \/ ~r.completed THEN r ELSE [r EXCEPT !.was_cancelled = TRUE]

\* MyResponseList::receive_cancel.
receive_cancel(r, m) == IF r.service_id # m.id THEN r ELSE [r EXCEPT !.was_cancelled = TRUE]

\* ReceivedTextData at a provider.  What names a service that is not provided
\* is dropped: it was withdrawn, and the asker did not know of it yet.
ProviderReceives(c) ==
  LET m == Head(to_provider[c])
      p == ProviderOf[c]
      service == named(told[c], m.id)
      heeded == m.id \in ids(told[c]) /\ service \in my_services[p]
      mine == m.query \in DOMAIN responses /\ responses[m.query].connection = c
      r == IF mine THEN responses[m.query] ELSE NewResponse(c, m, service)
  IN /\ to_provider[c] # <<>>
     /\ to_provider' = [to_provider EXCEPT ![c] = Tail(@)]
     /\ \E of_string \in BOOLEAN : responses' =
          IF ~heeded THEN responses
          ELSE IF m.kind \in {"q", "Q"} THEN set(responses, m.query, receive_query(r, m, of_string))
          ELSE IF mine THEN [responses EXCEPT ![m.query] = receive_cancel(@, m)]
          ELSE responses
     /\ unheard' = IF heeded THEN unheard ELSE unheard \cup {m.query}
     /\ provider_callback' = [provider_callback EXCEPT ![p] = @ \/ wakes_user(responses, responses')]
     /\ UNCHANGED <<links, asking, my_services, told, given, changes, to_asker>>

\* MyResponseList::get_new_queries.
is_for_user(r) == r.completed /\ ~r.failed /\ ~r.was_read

\* get_received_queries and get_cancelled_queries, in the user's callback: he
\* gets the queries that are whole, and what was cancelled is forgotten.
GetReceivedQueries(p) ==
  LET own == {q \in DOMAIN responses : ProviderOf[responses[q].connection] = p}
      gone == {q \in own : responses[q].was_cancelled}
  IN /\ provider_callback[p]
     /\ provider_callback' = [provider_callback EXCEPT ![p] = FALSE]
     /\ responses' = without([q \in DOMAIN responses |->
          IF q \in own /\ is_for_user(responses[q]) THEN [responses[q] EXCEPT !.was_read = TRUE] ELSE responses[q]], gone)
     /\ UNCHANGED <<links, asking, my_services, unheard, told, given, changes, to_provider, to_asker>>

\* DbSendResponse: the user answers a command of a query he was given, with or
\* without a row, finally or not.
SendResponse(q, i, status, n) ==
  LET r == responses[q]
      rows == [j \in 1 .. n |-> given[q][i].rows + j]
  IN /\ q \in DOMAIN responses /\ r.was_read
     /\ i \in DOMAIN given[q] /\ given[q][i].status = "ROWS"
     /\ status # "ROWS" \/ n > 0
     /\ status = "ERROR" => n = 0
     /\ given' = [given EXCEPT ![q][i] = [status |-> status, rows |-> @.rows + n]]
     /\ responses' = IF r.was_cancelled \/ all_final(r.answers) THEN responses
                     ELSE [responses EXCEPT ![q].answers[i] = add_to_query_state(@, status, rows)]
     /\ provider_callback' = [provider_callback EXCEPT ![ProviderOf[r.connection]] = TRUE]
     /\ UNCHANGED <<links, asking, my_services, unheard, told, changes, to_provider, to_asker>>
     /\ Affordable'

\* fill_response_buffer_if_possible: an error drops the rows before it, the last
\* row takes the status along.
entries_of(i, r) ==
  IF ~has_news(r) THEN <<>>
  ELSE IF r.status = "ERROR" \/ r.rows = <<>>
  THEN <<[command |-> i, status |-> r.status, rows |-> <<>>]>>
  ELSE [k \in 1 .. Len(r.rows) |->
    [command |-> i, status |-> IF k = Len(r.rows) THEN r.status ELSE "ROWS", rows |-> <<r.rows[k]>>]]

fill_response_buffer(r) ==
  LET filled[i \in 0 .. Len(r.answers)] ==
        IF i = 0 THEN r.buffer ELSE filled[i - 1] \o entries_of(i, r.answers[i])
  IN
  [r EXCEPT !.buffer = filled[Len(r.answers)],
            !.answers = [i \in DOMAIN r.answers |->
              IF has_news(r.answers[i]) THEN [r.answers[i] EXCEPT !.was_read = TRUE, !.rows = <<>>]
              ELSE r.answers[i]]]

has_answer_to_send(r) ==
  /\ ~r.was_cancelled
  /\ r.failed \/ (r.completed /\ fill_response_buffer(r).buffer # <<>>)

\* MyResponseList::generate_data_to_send, when there are no services to tell of:
\* a part of the first answer that has something, n whole entries, or the rest of
\* one and some, and maybe the beginning of another; forgotten after its last.
SendOfAnswer(c) ==
  LET sending == {q \in DOMAIN responses : responses[q].connection = c /\ has_answer_to_send(responses[q])}
      q == first(sending)
      r == fill_response_buffer(responses[q])
  IN /\ c \in provider_up
     /\ unannounced(c) = {} /\ withdrawn(c) = {}
     /\ sending # {}
     /\ \/ /\ r.failed
           /\ responses' = without(responses, {q})
           /\ Sent(c, to_asker, asker_up, [kind |-> "E", id |-> r.service_id, query |-> q])
        \/ /\ ~r.failed
           /\ \E n \in 0 .. Len(r.buffer), begins \in BOOLEAN :
                LET whole == n = Len(r.buffer) /\ all_final(r.answers)
                IN /\ begins => n < Len(r.buffer)
                   /\ n = 0 => begins /\ ~r.begun
                   /\ responses' = IF whole THEN without(responses, {q})
                                   ELSE [responses EXCEPT ![q] =
                                           [r EXCEPT !.buffer = SubSeq(@, n + 1, Len(@)), !.begun = begins]]
                   /\ Sent(c, to_asker, asker_up,
                           [kind |-> IF whole THEN "R" ELSE "r", id |-> r.service_id, query |-> q,
                            inside |-> r.begun, entries |-> SubSeq(r.buffer, 1, n)])
     /\ UNCHANGED <<links, asking, my_services, unheard, told, provider_callback, given, changes,
                    to_provider>>

-----------------------------------------------------------------------------
\* Connections that are lost, and others after them.

\* OnPartnerDisconnected, disconnect_partner at the asker.
AskerLoses(c) ==
  /\ c \in asker_up
  /\ losses' = IF c \in provider_up THEN losses + 1 ELSE losses
  /\ asker_up' = asker_up \ {c}
  /\ to_asker' = [to_asker EXCEPT ![c] = <<>>]
  /\ queries' = [q \in DOMAIN queries |->
       IF queries[q].connection # c THEN queries[q]
       ELSE IF queries[q].response = "Running" THEN [aborted(queries[q]) EXCEPT !.query = "Aborted"]
       ELSE [queries[q] EXCEPT !.query = "Aborted"]]
  /\ asker_callback' = TRUE
  /\ UNCHANGED <<provider_up, met, known, text, failed, asked, heard, ended, providing, to_provider>>
  /\ Affordable'

\* disconnect_partner at the provider.
ProviderLoses(c) ==
  /\ c \in provider_up
  /\ losses' = IF c \in asker_up THEN losses + 1 ELSE losses
  /\ provider_up' = provider_up \ {c}
  /\ to_provider' = [to_provider EXCEPT ![c] = <<>>]
  /\ responses' = [q \in DOMAIN responses |->
       IF responses[q].connection = c THEN [responses[q] EXCEPT !.was_cancelled = TRUE]
       ELSE responses[q]]
  /\ provider_callback' = [provider_callback EXCEPT ![ProviderOf[c]] = TRUE]
  /\ UNCHANGED <<asker_up, met, asking, my_services, unheard, told, given, changes, to_asker>>
  /\ Affordable'

\* connect_partner, after the handshake.  A connection may get the number of the
\* one before it; as long as that one's partner is still in the list
\* (erase_finished_partners), the new connection gets none.
left_of(lists, c) == {q \in DOMAIN lists : lists[q].connection < c /\ ProviderOf[lists[q].connection] = ProviderOf[c]}

Connect(c) ==
  /\ c \notin met
  /\ \A d \in Connections : ProviderOf[d] = ProviderOf[c] /\ d < c =>
       d \in met /\ d \notin asker_up \cup provider_up
  /\ met' = met \cup {c}
  /\ \E reused \in BOOLEAN :
       /\ asker_up' = IF reused /\ left_of(queries, c) # {} THEN asker_up ELSE asker_up \cup {c}
       /\ provider_up' = IF reused /\ left_of(responses, c) # {} THEN provider_up
                         ELSE provider_up \cup {c}
  /\ UNCHANGED <<losses, asking, providing, to_asker, to_provider>>

-----------------------------------------------------------------------------
AskerStep ==
  \/ \E s \in Services, shape \in Shapes : SendQuery(s, shape)
  \/ \E q \in QueryIds, cb \in BOOLEAN : CancelQuery(q, cb)
  \/ \E q \in QueryIds : TimeOut(q)
  \/ \E c \in Connections : SendOfQuery(c) \/ AskerReceives(c)
  \/ GetReceivedResponses

ProviderStep ==
  \/ \E p \in Providers, services \in SUBSET Services : SetAcceptedServices(p, services)
  \/ \E c \in Connections : Announce(c) \/ SendOfAnswer(c) \/ ProviderReceives(c)
  \/ \E p \in Providers : GetReceivedQueries(p)
  \/ \E q \in DOMAIN given : \E i \in DOMAIN given[q], status \in {"ROWS", "DONE", "ERROR"}, n \in 0 .. 1 :
       SendResponse(q, i, status, n)

Next ==
  \/ AskerStep \/ ProviderStep
  \/ \E c \in Connections : AskerLoses(c) \/ ProviderLoses(c) \/ Connect(c)

Spec == Init /\ [][Next]_vars

\* What the threads of CmCore do by themselves: send what can be sent, receive
\* what has come, run a callback that was generated, find a query overdue,
\* notice that the other side has gone.  Nothing is assumed of the users: a
\* query may never be answered.
Tasks ==
  \/ GetReceivedResponses
  \/ \E q \in QueryIds : TimeOut(q)
  \/ \E p \in Providers : GetReceivedQueries(p)
  \/ \E c \in Connections :
       \/ SendOfQuery(c) \/ AskerReceives(c) \/ Announce(c) \/ SendOfAnswer(c) \/ ProviderReceives(c)
       \/ (c \notin asker_up /\ ProviderLoses(c))

\* Less than the threads' own fairness, and enough, because every task runs out
\* of work.
FairSpec == Spec /\ WF_vars(Tasks)

-----------------------------------------------------------------------------

\* The state has its type, and a query that was parsed is complete.
TypeOK ==
  /\ my_services \in [Providers -> SUBSET Services]
  /\ \A c \in Connections : /\ DOMAIN told[c] \cup DOMAIN known[c] \subseteq Services
                             /\ ids(told[c]) \cup ids(known[c]) \subseteq ServiceIds
                             /\ Len(to_asker[c]) <= MaxInFlight /\ Len(to_provider[c]) <= MaxInFlight
  /\ asker_up \cup provider_up \subseteq met /\ met \subseteq Connections
  /\ \A q \in DOMAIN queries :
       /\ queries[q].query \in {"Prepared", "NeedSendCancel", "CancelWasSent", "Aborted"}
       /\ queries[q].response \in {"Running", "Completed", "Aborted", "Cancelled"}
       /\ queries[q].unsent \in 0 .. asked[q].parts
       /\ \A i \in DOMAIN queries[q].answers : queries[q].answers[i].status \in Answers
  /\ \A q \in DOMAIN responses : /\ responses[q].parts \in 0 .. asked[q].parts
                                 /\ responses[q].was_read => responses[q].completed
  /\ DOMAIN asked \subseteq QueryIds /\ failed \cup ended \subseteq DOMAIN asked
  /\ DOMAIN heard = DOMAIN asked /\ DOMAIN given = DOMAIN asked

\* The announcements on their way make the asker know exactly what he was told:
\* no service is withdrawn by an id that names another, none is lost because
\* its id is still in use (receive_msg_accept, receive_msg_reject).
ServicesAgree ==
  LET understood(c) ==
        LET after[n \in 0 .. Len(to_asker[c])] ==
              IF n = 0 THEN known[c] ELSE receive_service(after[n - 1], to_asker[c][n])
        IN  after[Len(to_asker[c])]
  IN  \A c \in asker_up \cap provider_up : understood(c) = told[c]

\* Types, and both sides know the same services.
ServicesAreKnown == TypeOK /\ ServicesAgree

\* What the user hears of a command are rows the provider's user gave, in order
\* and none twice, and that they are all only after he has given the last, as
\* long as no entry was torn by a part that was dropped.  If none was dropped they
\* are all up to some row, and all there are if he hears that they are all,
\* wherever the messages end.
AnswersAreGiven ==
  \A q \in DOMAIN heard : \A i \in DOMAIN heard[q] :
    LET rows == heard[q][i].rows
    IN /\ text[q] # "torn" =>
            /\ \A j \in DOMAIN rows : rows[j] <= given[q][i].rows /\ (j > 1 => rows[j - 1] < rows[j])
            /\ heard[q][i].status = "DONE" => given[q][i].status = "DONE"
       /\ text[q] = "exact" =>
            /\ \A j \in DOMAIN rows : rows[j] = j
            /\ heard[q][i].status = "DONE" => Len(rows) = given[q][i].rows

\* The end of a query is told when every command has its last status, and
\* nothing is left to be told of it.
EndIsTheLast ==
  \A q \in ended :
    /\ all_final(heard[q])
    /\ q \notin failed
    /\ q \in DOMAIN queries => queries[q].response = "Cancelled" \/ news(q) = {}

\* What is told of a query is what was answered, and ends with its end.
AnswersAreExact == AnswersAreGiven /\ EndIsTheLast

\* Whatever there is to tell a user, a callback is about to tell it.
NewsAreTold ==
  /\ told_now # {} \/ failed # {} => asker_callback
  /\ \A q \in DOMAIN responses :
       responses[q].was_cancelled \/ is_for_user(responses[q])
       => provider_callback[ProviderOf[responses[q].connection]]

\* Every query ends for its user, unless he cancelled it and wants no callback:
\* also one whose service was withdrawn, whose connection was lost or which
\* nobody answers.
QueryEnds ==
  \A q \in QueryIds :
    <>(q \in DOMAIN asked) =>
      <>(q \in ended \/ (q \in DOMAIN queries /\ queries[q].response = "Cancelled"))

\* A provider does not keep a query for ever, even if its user never answers:
\* the asker's time-out and his cancel, or the loss of the connection, make an
\* end of it, unless the service was withdrawn and the provider did not heed them.
ResponseIsReleased ==
  \A q \in QueryIds :
    q \in DOMAIN responses ~> q \notin DOMAIN responses \/ q \in unheard

=============================================================================
