----------------------------- MODULE UdpSession -----------------------------
(***************************************************************************)
(* How connections of the UDP transport begin and end: the handshake, the  *)
(* sessions a server has accepted, partners that time out or are           *)
(* disconnected, restarts of either process, and what the users are told   *)
(* (lib/LibCM/cm_ip_udp.cc, cm_ip_udp_partner_list.cc).  Inside a          *)
(* connection the partners work as in UdpPartner.                          *)
(*                                                                         *)
(* Whatever a process does under its mutex in one step below it may do in  *)
(* an iteration of recv_main with nothing else due; only the user's        *)
(* get_new_event takes no part in that mutex.                              *)
(*                                                                         *)
(* The k-th message a side's users send has the body k.                    *)
(***************************************************************************)
EXTENDS UdpPartner, EventsState, FiniteSets
LOCAL INSTANCE SequencesExt

CONSTANTS
  BootEnd,         \* boot ids are counted modulo 0xff
  BootStarts,      \* from a random number
  SessionEnd,      \* session ids are counted modulo 0xffff
  SessionStarts,   \* from a random number
  AcceptedMax,     \* 1000: accepted sessions before the unused are erased
  InitialIds,      \* the random initial message ids
  MaxRequests,     \* bounds of the model: connections the client asks for,
  MaxSessions,     \* sessions one boot of the server accepts,
  Budgets          \* and what may happen in one behaviour:
                   \*   sends     \in [Peers -> Nat]: messages each side's users send,
                   \*   restarts  \in [Peers -> Nat]: restarts of each process,
                   \*   premature \in [Peers -> Nat]: partners it times out that are still there,
                   \*   leaves    \in [Peers -> Nat]: connections its user disconnects,
                   \*   again     \in Nat: connections the server makes again of a session it gave up

Peers == {"client", "server"}

Other(p) == IF p = "client" THEN "server" ELSE "client"

ASSUME SessionAssumption ==
  /\ BootEnd \in Nat \ {0}
  /\ BootStarts \subseteq 0 .. BootEnd - 1
  /\ SessionEnd \in Nat \ {0}
  /\ AcceptedMax \in Nat \ {0}
  /\ InitialIds \subseteq 0 .. msg_id_end - 1
  /\ SessionStarts \subseteq 0 .. SessionEnd - 1
  /\ {MaxRequests, MaxSessions} \subseteq Nat
  /\ Budgets \subseteq [sends : [Peers -> Nat], restarts : [Peers -> Nat],
                        premature : [Peers -> Nat], leaves : [Peers -> Nat], again : Nat]

VARIABLES
  server_boot_id,     \* kept by the server in a file
  accepted_sessions,  \* of the server: whom it sent an 'a'
  session_id_counter, \* of the server
  my_conn_request,    \* of the client: a set, empty or with its request
  partners,           \* connection id -> partner, of each process
  conn_counter,       \* the next connection id, of each process
  events,             \* what each process has to tell its user
  net,                \* datagrams on their way; one may arrive any number of times
  requests,           \* how many requests the client has made
  restarts,           \* how often each process has restarted
  premature,          \* how many partners it gave up that still existed
  left,               \* connection ids the user has disconnected
  session_of,         \* history: <<boot id, session id>> of each connection
  seen,               \* history: what the user was told of each connection
  origin,             \* history: over which connection each message was sent
  numbered,           \* history: the bodies each side numbered in each session, in order
  delivered           \* history: bodies handed over to any user of the process

server == <<server_boot_id, accepted_sessions, session_id_counter>>
client == <<my_conn_request, requests>>
history == <<origin, numbered, delivered>>

vars == <<server, client, partners, conn_counter, events, net, restarts,
          premature, left, session_of, seen, history>>

BootsAndSessions == (0 .. BootEnd - 1) \X (0 .. SessionEnd - 1)

NotSeen == [connects |-> 0, disconnects |-> 0, messages |-> << >>]

Init ==
  /\ server_boot_id \in BootStarts
  /\ accepted_sessions = {}
  /\ session_id_counter \in SessionStarts
  /\ my_conn_request = {}
  /\ partners = [p \in Peers |-> EmptyMap]
  /\ conn_counter = [p \in Peers |-> 1]
  /\ events = [p \in Peers |-> NoEvents]
  /\ net = {}
  /\ requests = 0
  /\ restarts = [p \in Peers |-> 0]
  /\ premature = [p \in Peers |-> 0]
  /\ left = [p \in Peers |-> {}]
  /\ session_of = [p \in Peers |-> << >>]
  /\ seen = [p \in Peers |-> << >>]
  /\ origin = [p \in Peers |-> << >>]
  /\ numbered = [p \in Peers |-> [x \in BootsAndSessions |-> << >>]]
  /\ delivered = [p \in Peers |-> {}]

\* How often the server has made a connection of a session that had one.
connections_again ==
  Len(session_of["server"]) - Cardinality(Range(session_of["server"]))

\* What has happened is within one of the budgets.
Affordable ==
  \E b \in Budgets :
    /\ connections_again <= b.again
    /\ \A p \in Peers :
         /\ Len(origin[p]) <= b.sends[p]
         /\ restarts[p] <= b.restarts[p]
         /\ premature[p] <= b.premature[p]
         /\ Cardinality(left[p]) <= b.leaves[p]

-----------------------------------------------------------------------------
(* Sessions and partners *)

\* alloc_fresh_session_id: the counter runs on to an id that is not accepted, and
\* on and on when there is none.
fresh_counters(accepted) ==
  LET free(n) == \A s \in accepted : s.session_id # n % SessionEnd
  IN  {n \in session_id_counter .. session_id_counter + SessionEnd - 1 :
         free(n) /\ \A k \in session_id_counter .. n - 1 : ~free(k)}

\* At the limit only the sessions that have a partner are kept.
erase_old_session_ids(accepted) ==
  IF Cardinality(accepted) >= AcceptedMax
    THEN {s \in accepted :
            \E c \in DOMAIN partners["server"] :
              partners["server"][c].session_id = s.session_id}
    ELSE accepted

\* One hash gets one session: a repeated request repeats the answer.
get_or_create_session_id(hash, his_initial, my_initial) ==
  LET known == {s \in accepted_sessions : s.hash = hash}
      kept  == erase_old_session_ids(accepted_sessions)
      fresh(n) == [hash |-> hash, session_id |-> n % SessionEnd,
                   his_initial_msg_id |-> his_initial, my_initial_msg_id |-> my_initial]
  IN  IF known # {}
        THEN {[session |-> s, accepted |-> accepted_sessions, counter |-> session_id_counter] :
                s \in known}
        ELSE {[session |-> fresh(n), accepted |-> kept \cup {fresh(n)}, counter |-> n + 1] :
                n \in fresh_counters(kept)}

new_link(mine, his) == NewPartner(mine + 1, his + 1)

\* What a new connection adds to the history.
Connected(p, boot, session) ==
  /\ conn_counter' = [conn_counter EXCEPT ![p] = @ + 1]
  /\ session_of' = [session_of EXCEPT ![p] = Append(@, <<boot, session>>)]
  /\ seen' = [seen EXCEPT ![p] = Append(@, NotSeen)]

erase_partner(p, c) == [partners EXCEPT ![p] = forget(@, c)]

find_by_session_id(p, session) == {c \in DOMAIN partners[p] : partners[p][c].session_id = session}

\* A datagram of the connection c of p.
Addressed(p, c, d) ==
  [msg_kind |-> d.msg_kind, to |-> Other(p), server_boot_id |-> partners[p][c].server_boot_id,
   session_id |-> partners[p][c].session_id, link |-> Wire(d)]

-----------------------------------------------------------------------------
(* The handshake *)

\* The client asks, or asks again, while it has no partner.
SendInit ==
  /\ DOMAIN partners["client"] = {}
  /\ \/ /\ my_conn_request = {}
        /\ requests < MaxRequests
        /\ requests' = requests + 1
        /\ \E my_initial \in InitialIds :
             my_conn_request' = {[hash |-> requests', sender_msg_id |-> my_initial]}
     \/ my_conn_request # {} /\ UNCHANGED client
  /\ \E r \in my_conn_request' :
       net' = net \cup {[msg_kind |-> "i", to |-> "server", sender_msg_id |-> r.sender_msg_id,
                         data |-> r.hash]}
  /\ UNCHANGED <<server, partners, conn_counter, events, restarts, premature, left,
                 session_of, seen, history>>

ReceiveInit(d) ==
  /\ d.msg_kind = "i"
  /\ \E my_initial \in InitialIds :
     \E r \in get_or_create_session_id(d.data, d.sender_msg_id, my_initial) :
       /\ r.counter <= MaxSessions
       /\ accepted_sessions' = r.accepted
       /\ session_id_counter' = r.counter
       /\ net' = net \cup {[msg_kind |-> "a", to |-> "client", server_boot_id |-> server_boot_id,
                            session_id |-> r.session.session_id,
                            sender_msg_id |-> r.session.my_initial_msg_id, data |-> d.data]}
  /\ UNCHANGED <<server_boot_id, client, partners, conn_counter, events, restarts, premature,
                 left, session_of, seen, history>>

\* Mutated form: the request stays.
request_after_kept(r) == {r}

request_after(r) == {}

\* Mutated form: any answer will do.
is_answer_any(r, d) == TRUE

is_answer(r, d) == r.hash = d.data

ReceiveAccept(d) ==
  /\ d.msg_kind = "a"
  /\ \E r \in my_conn_request :
       /\ is_answer(r, d)
       /\ my_conn_request' = request_after(r)
       /\ partners' = [partners EXCEPT !["client"] =
            insert(@, conn_counter["client"],
                   [server_boot_id |-> d.server_boot_id, session_id |-> d.session_id,
                    link |-> new_link(r.sender_msg_id, d.sender_msg_id)])]
  /\ events' = [events EXCEPT !["client"] = connect(@, conn_counter["client"])]
  /\ Connected("client", d.server_boot_id, d.session_id)
  /\ UNCHANGED <<server, net, requests, restarts, premature, left, history>>

-----------------------------------------------------------------------------
(* An established connection *)

\* handle_valid_message for the partner c of p, which now is `link`.
Handle(p, c, link, known_events, d) ==
  \E survive \in 0 .. HistoryMax - 1 :
  \E result \in {handle_valid_message(link, d.link, survive)} :
    /\ partners' = [partners EXCEPT ![p] =
         store(@, c, [server_boot_id |-> d.server_boot_id, session_id |-> d.session_id,
                      link |-> result.partner])]
    /\ events' = [events EXCEPT ![p] = add_messages(known_events, c, result.messages)]
    /\ delivered' = [delivered EXCEPT ![p] = @ \cup Range(result.messages)]

\* Mutated form: datagrams for an earlier boot of the server are taken.
is_same_boot_any(id, other) == TRUE

is_same_boot(id, other) == id = other

\* A 'p' or an 'm' for a partner p has.
ReceiveFromPartner(p, d) ==
  /\ d.msg_kind \in {"p", "m"}
  /\ \E c \in find_by_session_id(p, d.session_id) :
       /\ is_same_boot(d.server_boot_id, partners[p][c].server_boot_id)
       /\ Handle(p, c, partners[p][c].link, events[p], d)
  /\ UNCHANGED <<server, client, conn_counter, net, restarts, premature, left, session_of,
                 seen, origin, numbered>>

\* One for a session the server has accepted and that has no partner: the
\* connection begins, on the server, with the first datagram over it.
ReceiveFirst(d) ==
  /\ d.msg_kind \in {"p", "m"}
  /\ find_by_session_id("server", d.session_id) = {}
  /\ is_same_boot(d.server_boot_id, server_boot_id)
  /\ \E s \in {x \in accepted_sessions : x.session_id = d.session_id} :
       /\ Handle("server", conn_counter["server"],
                 new_link(s.my_initial_msg_id, s.his_initial_msg_id),
                 connect(events["server"], conn_counter["server"]), d)
       /\ Connected("server", server_boot_id, s.session_id)
  /\ UNCHANGED <<server, client, net, restarts, premature, left, origin, numbered>>
  /\ Affordable'

Receive(p, d) ==
  /\ d \in net
  /\ d.to = p
  /\ \/ p = "server" /\ ReceiveInit(d)
     \/ p = "client" /\ ReceiveAccept(d)
     \/ ReceiveFromPartner(p, d)
     \/ p = "server" /\ ReceiveFirst(d)

\* The user has been told of the connection, and not of its end.
UserHas(p, c) ==
  /\ c \in DOMAIN seen[p]
  /\ seen[p][c].connects > 0
  /\ seen[p][c].disconnects = 0
  /\ c \notin left[p]

\* The connection c of p as the history knows it.
Conn(p, c) == [of |-> session_of[p][c], conn |-> c, restart |-> restarts[p]]

\* What the history keeps of the step in which the partner c of p becomes `next`:
\* the messages that were given their numbers.
Numbered(p, c, next) ==
  LET first == partners[p][c].link.my_msg_id_counter
      fresh == [i \in 1 .. next.my_msg_id_counter - first |-> next.messages_sent[first + i - 1].msg]
  IN  numbered' = [numbered EXCEPT ![p][session_of[p][c]] = @ \o fresh]

\* The user's send() over a connection that still has its partner; over one
\* that has not it changes nothing.  sendto() failing is modelled in UdpLink.
Send(p, c) ==
  LET body == Len(origin[p]) + 1
      link == partners[p][c].link
      id   == link.my_msg_id_counter
      next == IF can_send_messages(link)
                THEN note_sent(prepare_messages_to_send(link, <<body>>), {id})
                ELSE [link EXCEPT !.queue_to_send = Append(@, body)]
  IN  /\ UserHas(p, c)
      /\ c \in DOMAIN partners[p]
      /\ partners' = [partners EXCEPT ![p][c].link = next]
      /\ net' = net \cup (IF can_send_messages(link)
                            THEN {Addressed(p, c, send_regular_message(next, id))} ELSE {})
      /\ origin' = [origin EXCEPT ![p] = Append(@, Conn(p, c))]
      /\ Numbered(p, c, next)
      /\ UNCHANGED <<server, client, conn_counter, events, restarts, premature, left,
                     session_of, seen, delivered>>
      /\ Affordable'

\* The sending part of an iteration, for the partner c.
SendToPartner(p, c, expired, ping) ==
  /\ \E drained \in {drain_queue_to_send(partners[p][c].link)} :
     \E due \in {messages_to_resend(drained, expired)} :
       /\ ping => due = {}
       /\ partners' = [partners EXCEPT ![p][c].link = note_sent(update_window(drained, due), due)]
       /\ Numbered(p, c, drained)
       /\ net' = net \cup {Addressed(p, c, send_regular_message(drained, id)) : id \in due}
                     \cup (IF ping THEN {Addressed(p, c, send_ping_message(drained))} ELSE {})
  /\ UNCHANGED <<server, client, conn_counter, events, restarts, premature, left,
                 session_of, seen, origin, delivered>>

-----------------------------------------------------------------------------
(* Ends of connections *)

\* The other side is still in this connection, or will be when it hears of it.
StillThere(p, c) ==
  IF p = "client"
    THEN /\ partners[p][c].server_boot_id = server_boot_id
         /\ \E s \in accepted_sessions : s.session_id = partners[p][c].session_id
    ELSE find_by_session_id("client", partners[p][c].session_id) # {}

\* check_partners_timeout, for one partner that was silent for too long.
TimeOut(p, c) ==
  /\ c \in DOMAIN partners[p]
  /\ IF StillThere(p, c)
       THEN premature' = [premature EXCEPT ![p] = @ + 1]
       ELSE UNCHANGED premature
  /\ partners' = erase_partner(p, c)
  /\ events' = [events EXCEPT ![p] = disconnect(@, c)]
  /\ UNCHANGED <<server, client, conn_counter, net, restarts, left, session_of, seen, history>>
  /\ Affordable'

\* The user's disconnect().
Disconnect(p, c) ==
  /\ UserHas(p, c)
  /\ left' = [left EXCEPT ![p] = @ \cup {c}]
  /\ IF c \in DOMAIN partners[p]
       THEN /\ partners' = erase_partner(p, c)
            /\ events' = [events EXCEPT ![p] = erase(@, c)]
       ELSE UNCHANGED <<partners, events>>
  /\ UNCHANGED <<server, client, conn_counter, net, restarts, premature, session_of, seen, history>>
  /\ Affordable'

\* The user's get_new_event().
GetNewEvent(p, c) ==
  /\ is_next_event(events[p], c)
  /\ seen' = [seen EXCEPT ![p][c] =
       [connects    |-> @.connects + (IF events[p][c].just_connected THEN 1 ELSE 0),
        disconnects |-> @.disconnects + (IF events[p][c].just_disconnected THEN 1 ELSE 0),
        messages    |-> @.messages \o events[p][c].messages]]
  /\ events' = [events EXCEPT ![p] = event_taken(@, c)]
  /\ UNCHANGED <<server, client, partners, conn_counter, net, restarts, premature, left,
                 session_of, history>>

next_boot_id(id) == (id + 1) % BootEnd

\* p's process ends and is started again: all is lost but the server's boot
\* file, which is read and incremented.
Restart(p) ==
  /\ restarts' = [restarts EXCEPT ![p] = @ + 1]
  /\ partners' = [partners EXCEPT ![p] = EmptyMap]
  /\ conn_counter' = [conn_counter EXCEPT ![p] = 1]
  /\ events' = [events EXCEPT ![p] = NoEvents]
  /\ left' = [left EXCEPT ![p] = {}]
  /\ session_of' = [session_of EXCEPT ![p] = << >>]
  /\ seen' = [seen EXCEPT ![p] = << >>]
  /\ IF p = "server"
       THEN /\ server_boot_id' = next_boot_id(server_boot_id)
            /\ accepted_sessions' = {}
            /\ session_id_counter' \in SessionStarts
            /\ UNCHANGED client
       ELSE my_conn_request' = {} /\ UNCHANGED <<server, requests>>
  /\ UNCHANGED <<net, premature, history>>
  /\ Affordable'

Next ==
  \/ SendInit
  \/ \E p \in Peers :
       \/ \E d \in net : Receive(p, d)
       \/ \E c \in DOMAIN partners[p] :
            \/ Send(p, c)
            \/ \E expired \in SUBSET DOMAIN partners[p][c].link.messages_sent, ping \in BOOLEAN :
                 SendToPartner(p, c, expired, ping)
            \/ TimeOut(p, c)
       \/ \E c \in DOMAIN seen[p] : Disconnect(p, c)
       \/ \E c \in DOMAIN events[p] : GetNewEvent(p, c)
       \/ Restart(p)

Spec == Init /\ [][Next]_vars

-----------------------------------------------------------------------------
(* Properties *)

\* What p's user has got, or will get, of the connection c.
Got(p, c) ==
  seen[p][c].messages \o (IF c \in DOMAIN events[p] THEN events[p][c].messages ELSE << >>)

Sessions == [hash : Nat, session_id : 0 .. SessionEnd - 1,
             his_initial_msg_id : InitialIds, my_initial_msg_id : InitialIds]

\* A datagram of the handshake, or one of an established connection.
DatagramOK(d) ==
  /\ d.msg_kind \in {"i", "a", "p", "m"}
  /\ d.msg_kind = "i" => d.sender_msg_id \in InitialIds /\ d.data \in Nat
  /\ d.msg_kind = "a" => /\ d.sender_msg_id \in InitialIds
                         /\ d.session_id \in 0 .. SessionEnd - 1
                         /\ d.server_boot_id \in 0 .. BootEnd - 1
  /\ d.msg_kind \in {"p", "m"} => d.link \in Datagrams /\ Wire(d.link) = d.link

PartnerOfSessionOK(p) ==
  /\ p = [server_boot_id |-> p.server_boot_id, session_id |-> p.session_id, link |-> p.link]
  /\ p.session_id \in 0 .. SessionEnd - 1
  /\ p.server_boot_id \in 0 .. BootEnd - 1
  /\ PartnerOK(p.link)

\* Types of the state.
TypeOK ==
  /\ server_boot_id \in 0 .. BootEnd - 1
  /\ accepted_sessions \subseteq Sessions
  /\ session_id_counter \in Nat
  /\ my_conn_request \subseteq [hash : Nat, sender_msg_id : InitialIds]
  /\ requests \in Nat
  /\ \A d \in net : DatagramOK(d)
  /\ partners = [p \in Peers |-> partners[p]]
  /\ events = [p \in Peers |-> events[p]]
  /\ seen = [p \in Peers |-> seen[p]]
  /\ left = [p \in Peers |-> left[p]]
  /\ conn_counter \in [Peers -> Nat]
  /\ restarts \in [Peers -> Nat]
  /\ session_of \in [Peers -> Seq(BootsAndSessions)]
  /\ origin \in [Peers -> Seq([of : BootsAndSessions, conn : Nat, restart : Nat])]
  /\ numbered \in [Peers -> [BootsAndSessions -> Seq(Bodies)]]
  /\ \A p \in Peers : Len(session_of[p]) = conn_counter[p] - 1
  /\ \A p \in Peers : \A c \in DOMAIN partners[p] : PartnerOfSessionOK(partners[p][c])

\* A process never has two partners in one session, though requests, answers
\* and first datagrams are repeated; and a client never has two partners.
OnePartnerPerSession ==
  /\ \A c, other \in DOMAIN partners["client"] : c = other
  /\ my_conn_request # {} => DOMAIN partners["client"] = {}
  /\ \A c, other \in DOMAIN partners["server"] :
       partners["server"][c].session_id = partners["server"][other].session_id => c = other

\* Two sides of one session agree on its numbers from the first datagram on,
\* though neither the request nor its answer is ever acknowledged.
SidesAgree ==
  \A c \in DOMAIN partners["client"], s \in DOMAIN partners["server"] :
    LET cp == partners["client"][c]
        sp == partners["server"][s]
    IN  <<cp.session_id, cp.server_boot_id>> = <<sp.session_id, sp.server_boot_id>> =>
          /\ cp.link.my_msg_id_received <= sp.link.his_msg_id_received
          /\ sp.link.his_msg_id_received <= cp.link.my_msg_id_counter
          /\ sp.link.my_msg_id_received <= cp.link.his_msg_id_received
          /\ cp.link.his_msg_id_received <= sp.link.my_msg_id_counter

\* What the user gets over a connection is the beginning of what the other side
\* numbered in the same session, each message once and in the order of the numbers
\* - never anything of another session, of another boot of the server or of a
\* process that restarted.
DeliveredFromItsSession ==
  /\ SidesAgree
  /\ \A p \in Peers :
       \A c \in DOMAIN seen[p] : IsPrefix(Got(p, c), numbered[Other(p)][session_of[p][c]])

\* However requests, answers and datagrams repeat and cross: types of the state,
\* and one partner per session.
SessionsAreSound == TypeOK /\ OnePartnerPerSession

\* cm_ip_udp_partner.hh: "Potvrdil vsechny moje zpravy < my_msg_id_received" - a
\* message that is no longer kept was handed over to the other side's user.
AcknowledgedWasDelivered ==
  \A p \in Peers :
    \A c \in DOMAIN partners[p] :
      LET link == partners[p][c].link
          kept == {link.messages_sent[id].msg : id \in DOMAIN link.messages_sent}
                  \cup Range(link.queue_to_send)
      IN  \A k \in DOMAIN origin[p] :
            origin[p][k] = Conn(p, c) => k \in kept \/ k \in delivered[Other(p)]

\* The assertions of cm_ip_one_of.hh and cm_ip_onoff.hh: a user is told once of
\* the beginning and once of the end of a connection, and of nothing before.
ToldInOrder(told) ==
  /\ told.disconnects <= told.connects
  /\ told.connects <= 1
  /\ told.messages # << >> => told.connects = 1

EventsAreInOrder == \A p \in Peers : \A c \in DOMAIN seen[p] : ToldInOrder(seen[p][c])

\* cm_ip.hh: "Pokud se mezitim partner odpojil, tak se zprava zahodi. Prijde
\* CmIpEvent, ze byl just_disconnected" - a connection the user has still has
\* its partner, or the event of its end is waiting.
EndIsReported ==
  \A p \in Peers :
    \A c \in DOMAIN seen[p] :
      UserHas(p, c) => \/ c \in DOMAIN partners[p]
                       \/ c \in DOMAIN events[p] /\ events[p][c].just_disconnected

\* An event goes on from what the user was told of its connection.
EventGoesOn(event, alive, told) ==
  /\ event = Event(event.just_connected, event.just_disconnected, event.messages)
  /\ {event.just_connected, event.just_disconnected} \subseteq BOOLEAN
  /\ event.messages \in Seq(Bodies)
  /\ event.just_disconnected <=> ~alive
  /\ event.just_connected => alive
  /\ event.just_connected <=> told.connects = 0
  /\ told.disconnects = 0

\* The tables of a process: there is an event, if only an empty one, of every
\* connection that has a partner, and of every one whose end is to be told.
ProcessOK(counter, ps, es, tolds, gone) ==
  /\ counter \in Nat \ {0}
  /\ ps = [c \in DOMAIN ps |-> ps[c]]
  /\ es = [c \in DOMAIN es |-> es[c]]
  /\ tolds \in Seq([connects : Nat, disconnects : Nat, messages : Seq(Bodies)])
  /\ Len(tolds) = counter - 1
  /\ DOMAIN ps \subseteq DOMAIN es
  /\ DOMAIN es \subseteq 1 .. counter - 1
  /\ \A c \in DOMAIN es : EventGoesOn(es[c], c \in DOMAIN ps, tolds[c])
  /\ \A c \in 1 .. counter - 1 :
       /\ ToldInOrder(tolds[c])
       /\ tolds[c].connects = 1 /\ tolds[c].disconnects = 0 /\ c \notin gone => c \in DOMAIN es

TablesMatch ==
  \A p \in Peers : ProcessOK(conn_counter[p], partners[p], events[p], seen[p], left[p])

\* What the user is told of a connection is its life, in order, and with its end.
EventsTellItAll == EventsAreInOrder /\ EndIsReported /\ TablesMatch

\* cm_ip.hh: "od tohoto partnera uz zadny CmIpEvent neprijde" - after the end the
\* user hears nothing more of the connection.
NothingAfterTheEnd ==
  [][\A p \in Peers :
       restarts'[p] = restarts[p] =>
         \A c \in DOMAIN seen[p] :
           seen[p][c].disconnects > 0 => seen'[p][c] = seen[p][c]]_vars

-----------------------------------------------------------------------------
(* Liveness *)

InSession ==
  \E c \in DOMAIN partners["client"], s \in DOMAIN partners["server"] :
    /\ partners["client"][c].session_id = partners["server"][s].session_id
    /\ partners["client"][c].server_boot_id = server_boot_id
    /\ partners["server"][s].server_boot_id = server_boot_id

\* recv_main loops; what the network keeps arrives; a partner that has gone
\* silent times out.
Fairness ==
  /\ WF_vars(SendInit)
  /\ \A p \in Peers :
       /\ WF_vars(\E d \in net : Receive(p, d))
       /\ WF_vars(\E c \in DOMAIN partners[p] : SendToPartner(p, c, {}, TRUE))
       /\ WF_vars(\E c \in DOMAIN partners[p] : TimeOut(p, c) /\ UNCHANGED premature)

FairSpec == Spec /\ Fairness

\* Whatever restarts, time-outs and disconnects there were: once they end, the
\* client and the present server are in a session for good.
Reconnects == <>[]InSession

=============================================================================
