------------------------------ MODULE UdpLink ------------------------------
(***************************************************************************)
(* An established connection of LibCM's UDP transport: a client and a      *)
(* server, each with the other as its only partner, over a network that    *)
(* loses, duplicates, delays and reorders datagrams.  Each process has a   *)
(* receiving thread (CmIP_UDP::recv_main), which holds the mutex for a     *)
(* whole iteration - receive everything, number queued messages, send -    *)
(* and a user thread, which calls send() between iterations                *)
(* (lib/LibCM/cm_ip_udp.cc).                                               *)
(*                                                                         *)
(* The k-th message the user sends has the body k.                         *)
(***************************************************************************)
EXTENDS UdpPartner

CONSTANTS
  FirstId,      \* [Peers -> Nat]: number of each side's first message
  SendPlans,    \* bound of the model: how many messages each user may send, in combination
  Lossy,        \* whether a datagram may vanish as it is sent
  SendMayFail   \* whether sendto() may fail (EAGAIN)

Peers == {"client", "server"}

Other(p) == IF p = "client" THEN "server" ELSE "client"

ASSUME LinkAssumption ==
  /\ FirstId \in [Peers -> Nat]
  /\ SendPlans \subseteq [Peers -> Nat]
  /\ Lossy \in BOOLEAN
  /\ SendMayFail \in BOOLEAN
  /\ AckWindowInit + 1 <= msg_id_end \div 2
  /\ WindowCap + 1 <= msg_id_end \div 2

VARIABLES
  partner,     \* what p knows of the other side
  receiving,   \* p's receiving thread is in the middle of an iteration
  net,         \* datagrams on their way to p; one may arrive any number of times
  submitted,   \* how many messages p's user has sent
  numbered,    \* history: the body of each message p has numbered
  delivered    \* the bodies handed to p's user, in order

vars == <<partner, receiving, net, submitted, numbered, delivered>>

Init ==
  /\ partner = [p \in Peers |-> NewPartner(FirstId[p], FirstId[Other(p)])]
  /\ receiving = [p \in Peers |-> FALSE]
  /\ net = [p \in Peers |-> {}]
  /\ submitted = [p \in Peers |-> 0]
  /\ numbered = [p \in Peers |-> EmptyMap]
  /\ delivered = [p \in Peers |-> << >>]

-----------------------------------------------------------------------------

\* A datagram that the network keeps arrives once, often or never; which ones
\* it loses as they are sent matters only to fairness.
Transmit(p, out, lossy) ==
  \E lost \in (IF lossy THEN SUBSET out ELSE {{}}) :
    net' = [net EXCEPT ![Other(p)] = @ \cup (out \ lost)]

\* p becomes `after`; the messages numbered on the way join the history.
Become(p, after) ==
  \E q \in {after} :
    /\ partner' = [partner EXCEPT ![p] = q]
    /\ LET fresh == partner[p].my_msg_id_counter .. q.my_msg_id_counter - 1
       IN  numbered' = [numbered EXCEPT ![p] =
             [id \in DOMAIN @ \cup fresh |->
                IF id \in fresh THEN q.messages_sent[id].msg ELSE @[id]]]

\* The messages sent are within one of the plans.
Planned(counts) == \E plan \in SendPlans : \A p \in Peers : counts[p] <= plan[p]

\* The user's send(), between two iterations of the receiving thread.
Send(p, ok) ==
  LET body == submitted[p] + 1
      q    == prepare_messages_to_send(partner[p], <<body>>)
      id   == partner[p].my_msg_id_counter
  IN  /\ ~receiving[p]
      /\ submitted' = [submitted EXCEPT ![p] = body]
      /\ Planned(submitted')
      /\ \/ /\ can_send_messages(partner[p])
            /\ Become(p, IF ok THEN note_sent(q, {id}) ELSE q)
            /\ Transmit(p, IF ok THEN {send_regular_message(q, id)} ELSE {}, Lossy)
         \/ /\ ~can_send_messages(partner[p])
            /\ ok
            /\ Become(p, [partner[p] EXCEPT !.queue_to_send = Append(@, body)])
            /\ UNCHANGED net
      /\ UNCHANGED <<receiving, delivered>>

\* A datagram does not outlive half a cycle of the wire numbers: the numbers it
\* carries are still within msg_id_end / 2 of the counter they refer to.
Fresh(p, d) ==
  /\ partner[p].my_msg_id_counter - d.receiver_msg_id <= msg_id_end \div 2
  /\ d.msg_kind = "m" =>
       partner[Other(p)].my_msg_id_counter - d.sender_msg_id <= msg_id_end \div 2

\* One call of do_receive(), in an iteration of the receiving thread.
Receive(p, d, survive) ==
  /\ d \in net[p]
  /\ Fresh(p, d)
  /\ receiving' = [receiving EXCEPT ![p] = TRUE]
  /\ \E result \in {handle_valid_message(partner[p], Wire(d), survive)} :
       /\ Become(p, result.partner)
       /\ delivered' = [delivered EXCEPT ![p] = @ \o result.messages]
  /\ UNCHANGED <<net, submitted>>

\* The rest of the iteration: number queued messages, send what is due, adjust
\* the window, acknowledge or ping; then unlock and wait.  `expired` are the
\* messages whose resend timers expired, `failed` is the first whose sendto()
\* fails, `ping` whether the timer of an ACK or a PING expired.
SendAll(p, expired, failed, ping, lossy) ==
  /\ \E drained \in {drain_queue_to_send(partner[p])} :
     \E due \in {messages_to_resend(drained, expired)} :
     \E sent \in {{id \in due : \A f \in failed : id < f}} :
       /\ failed \subseteq due
       /\ ping => due = {}
       /\ Become(p, note_sent(IF failed = {} THEN update_window(drained, due) ELSE drained, sent))
       /\ Transmit(p, {send_regular_message(drained, id) : id \in sent}
                      \cup (IF ping THEN {send_ping_message(drained)} ELSE {}),
                   lossy)
  /\ receiving' = [receiving EXCEPT ![p] = FALSE]
  /\ UNCHANGED <<submitted, delivered>>

Failures(p) == IF SendMayFail
                 THEN {{}} \cup {{id} : id \in DOMAIN drain_queue_to_send(partner[p]).messages_sent}
                 ELSE {{}}

Next ==
  \E p \in Peers :
    \/ \E ok \in {TRUE, ~SendMayFail} : Send(p, ok)
    \/ \E d \in net[p], survive \in 0 .. HistoryMax - 1 : Receive(p, d, survive)
    \/ \E expired \in SUBSET DOMAIN partner[p].messages_sent, failed \in Failures(p), ping \in BOOLEAN :
         SendAll(p, expired, failed, ping, Lossy)

Spec == Init /\ [][Next]_vars

-----------------------------------------------------------------------------
(* Types *)

\* Types of the state.
TypeOK ==
  /\ partner = [p \in Peers |-> partner[p]]
  /\ \A p \in Peers : PartnerOK(partner[p])
  /\ receiving \in [Peers -> BOOLEAN]
  /\ net = [p \in Peers |-> net[p]]
  /\ \A p \in Peers : net[p] \subseteq Datagrams
  /\ submitted \in [Peers -> Nat]
  /\ numbered = [p \in Peers |-> numbered[p]]
  /\ \A p \in Peers : IsMap(numbered[p], Bodies)
  /\ delivered \in [Peers -> Seq(Bodies)]

-----------------------------------------------------------------------------
(* Safety *)

\* cm_ip_udp_partner.hh: "Potvrdil vsechny moje zpravy < my_msg_id_received" and
\* "Dostali jsem od nej vsechny zpravy s id < his_msg_id_received".  What p
\* takes for acknowledged the other side has received, and what that side has
\* received p has numbered - after any loss, duplication and reordering of
\* messages and of acknowledgements, on any cycle of the wire numbers.
AcknowledgedWasReceived ==
  \A p \in Peers :
    /\ partner[p].my_msg_id_received <= partner[Other(p)].his_msg_id_received
    /\ partner[Other(p)].his_msg_id_received <= partner[p].my_msg_id_counter

\* The user gets every message once, in the order of the numbers, without a gap:
\* what was delivered is exactly the messages numbered below his_msg_id_received.
DeliveredExactlyOnceInOrder ==
  \A p \in Peers :
    LET from == Other(p)
    IN  /\ Len(delivered[p]) = partner[p].his_msg_id_received - FirstId[from]
        /\ \A i \in 1 .. Len(delivered[p]) :
             /\ FirstId[from] + i - 1 \in DOMAIN numbered[from]
             /\ delivered[p][i] = numbered[from][FirstId[from] + i - 1]

\* messages_sent keeps every message the other side has not yet received, with
\* its body: whatever was lost can still be sent again.
UnreceivedIsKept ==
  \A p \in Peers :
    \A id \in partner[Other(p)].his_msg_id_received .. partner[p].my_msg_id_counter - 1 :
      /\ id \in DOMAIN partner[p].messages_sent
      /\ partner[p].messages_sent[id].msg = numbered[p][id]

\* The assertion of compute_missing_count (cm_ip_udp.cc:857): what waits in
\* messages_received is ahead of his_msg_id_received; it is a message the other
\* side did number, and that it still keeps.
BufferedIsAhead ==
  \A p \in Peers :
    \A id \in DOMAIN partner[p].messages_received :
      /\ id > partner[p].his_msg_id_received
      /\ id < partner[Other(p)].my_msg_id_counter
      /\ partner[p].messages_received[id] = numbered[Other(p)][id]

\* What the four properties above rest on: the numbers used so far are those
\* from the first one on; what is kept of them is kept as it was numbered;
NumberedInOrder ==
  \A p \in Peers :
    /\ DOMAIN numbered[p] = FirstId[p] .. partner[p].my_msg_id_counter - 1
    /\ FirstId[p] <= partner[Other(p)].his_msg_id_received
    /\ \A id \in DOMAIN partner[p].messages_sent :
         id \in DOMAIN numbered[p] /\ partner[p].messages_sent[id].msg = numbered[p][id]

\* the unacknowledged messages fit in half a cycle of the wire numbers;
WindowFits ==
  \A p \in Peers :
    /\ partner[p].ack_window_size + 1 <= msg_id_end \div 2
    /\ count_unacknowledged_messages(partner[p]) <= msg_id_end \div 2

\* and no datagram on its way claims what is not so.
NetworkTellsTheTruth ==
  \A p \in Peers :
    \A d \in net[p] :
      /\ d.receiver_msg_id <= partner[Other(p)].his_msg_id_received
      /\ d.msg_kind = "m" => /\ d.sender_msg_id \in DOMAIN numbered[Other(p)]
                             /\ d.data = numbered[Other(p)][d.sender_msg_id]

\* Together they are inductive.
LinkInv ==
  /\ TypeOK
  /\ AcknowledgedWasReceived
  /\ DeliveredExactlyOnceInOrder
  /\ UnreceivedIsKept
  /\ BufferedIsAhead
  /\ NumberedInOrder
  /\ WindowFits
  /\ NetworkTellsTheTruth

\* No message is forgotten on the way to the wire or sent under two numbers,
\* however the window and the queue change: each of those the user has sent is
\* either numbered, once, or it is once in the queue.
HasOnePlace(sent, done, queue) ==
  /\ \A id \in DOMAIN done : done[id] \in 1 .. sent
  /\ \A i \in DOMAIN queue : queue[i] \in 1 .. sent
  /\ \A n \in 1 .. sent : \/ \E id \in DOMAIN done : done[id] = n
                         \/ \E i \in DOMAIN queue : queue[i] = n
  /\ \A id, other \in DOMAIN done : done[id] = done[other] => id = other
  /\ \A i, j \in DOMAIN queue : queue[i] = queue[j] => i = j
  /\ \A id \in DOMAIN done, i \in DOMAIN queue : done[id] # queue[i]

QueuedOrNumbered ==
  \A p \in Peers : HasOnePlace(submitted[p], numbered[p], partner[p].queue_to_send)

\* The acknowledgements never go back: an old datagram, however late, neither
\* takes back a confirmation nor what was received.
NeverGoesBack ==
  [][\A p \in Peers :
       /\ partner'[p].my_msg_id_received >= partner[p].my_msg_id_received
       /\ partner'[p].his_msg_id_received >= partner[p].his_msg_id_received]_vars

-----------------------------------------------------------------------------
(* Liveness *)

\* The last part of an iteration when every timer has expired and neither
\* sendto() nor the network loses anything.
SendEverything(p) ==
  LET all == DOMAIN partner[p].messages_sent
      due == messages_to_resend(drain_queue_to_send(partner[p]), all)
  IN  SendAll(p, all, {}, due = {}, FALSE)

\* p receives a datagram that tells it something new.
ReceiveNews(p) ==
  /\ \E d \in net[p], survive \in 0 .. HistoryMax - 1 : Receive(p, d, survive)
  /\ \/ partner'[p].my_msg_id_received # partner[p].my_msg_id_received
     \/ partner'[p].his_msg_id_received # partner[p].his_msg_id_received
     \/ partner'[p].messages_received # partner[p].messages_received

\* recv_main loops and wakes at every timer, so a pass with expired timers comes
\* again and again, and a network that is up does not lose all of them; what it
\* keeps arrives as long as there is news in it.
Fairness ==
  \A p \in Peers : SF_vars(SendEverything(p)) /\ WF_vars(ReceiveNews(p))

FairSpec == Spec /\ Fairness

\* What the other side has received is eventually acknowledged, though nothing
\* acknowledges an acknowledgement and a duplicate message triggers none.
ReceivedIsAcknowledged ==
  \A p \in Peers :
    \A plan \in SendPlans : \A n \in 1 .. plan[p] :
      partner[Other(p)].his_msg_id_received >= FirstId[p] + n
        ~> partner[p].my_msg_id_received >= FirstId[p] + n

\* cm_ip_udp_partner.hh:21: "Pokud se packet ztratil, tak je nejlepsi ho co
\* nejrychleji znovu poslat" - a message that was numbered is sent until it is
\* delivered.
NumberedIsDelivered ==
  \A p \in Peers :
    \A plan \in SendPlans : \A n \in 1 .. plan[p] :
      partner[p].my_msg_id_counter >= FirstId[p] + n ~> Len(delivered[Other(p)]) >= n

\* Only an endless resend delay stands in the way: while the delays recorded are
\* measured ones, everything the user sent is delivered.
DeliveredUnlessEndlessDelay ==
  \A p \in Peers :
    <>[]~resend_delay_is_endless(partner[p]) =>
      \A plan \in SendPlans : \A n \in 1 .. plan[p] :
        submitted[p] >= n ~> Len(delivered[Other(p)]) >= n

=============================================================================
