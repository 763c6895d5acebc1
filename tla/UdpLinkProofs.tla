--------------------------- MODULE UdpLinkProofs ---------------------------
(***************************************************************************)
(* The connection is safe for every modulus of the wire numbers, window,   *)
(* number of messages and first numbers that LinkAssumption admits: what   *)
(* is acknowledged was received, what is not received is kept, and the     *)
(* user gets every numbered message once and in order.                     *)
(***************************************************************************)
EXTENDS UdpLink, UdpPartnerProofs

\* p numbers and sends: it becomes q, and `out` is added to the network.  Both
\* its user thread and its receiving thread do nothing else that matters.
Sends(p, q, out) ==
  /\ partner' = [partner EXCEPT ![p] = q]
  /\ PartnerOK(q)
  /\ Numbers(partner[p], q)
  /\ q.ack_window_size <= partner[p].ack_window_size \/ q.ack_window_size <= WindowCap
  /\ \/ q.my_msg_id_counter = partner[p].my_msg_id_counter
     \/ count_unacknowledged_messages(q) <= partner[p].ack_window_size + 1
  /\ numbered' = [numbered EXCEPT ![p] =
       [id \in DOMAIN @ \cup (partner[p].my_msg_id_counter .. q.my_msg_id_counter - 1) |->
          IF id \in partner[p].my_msg_id_counter .. q.my_msg_id_counter - 1
            THEN q.messages_sent[id].msg ELSE @[id]]]
  /\ out \subseteq Datagrams
  /\ \A d \in out : /\ d.receiver_msg_id = q.his_msg_id_received
                    /\ d.msg_kind = "m" => /\ d.sender_msg_id \in DOMAIN q.messages_sent
                                           /\ d.data = q.messages_sent[d.sender_msg_id].msg
  /\ net' = [net EXCEPT ![Other(p)] = @ \cup out]
  /\ delivered' = delivered
  /\ submitted' \in [Peers -> Nat]
  /\ receiving' \in [Peers -> BOOLEAN]

\* A datagram p builds carries its counters and its bodies.
LEMMA SentDatagrams ==
  ASSUME NEW q, PartnerOK(q)
  PROVE  /\ send_ping_message(q) \in Datagrams
         /\ send_ping_message(q).receiver_msg_id = q.his_msg_id_received
         /\ send_ping_message(q).msg_kind = "p"
         /\ \A id \in DOMAIN q.messages_sent :
              LET d == send_regular_message(q, id)
              IN  /\ d \in Datagrams
                  /\ d.receiver_msg_id = q.his_msg_id_received
                  /\ d.sender_msg_id = id
                  /\ d.data = q.messages_sent[id].msg
  BY SendType DEF send_ping_message, send_regular_message

\* What the network takes of what is sent.
LEMMA TransmitAdds ==
  ASSUME NEW p, NEW out, NEW lossy, Transmit(p, out, lossy)
  PROVE  \E new \in SUBSET out : net' = [net EXCEPT ![Other(p)] = @ \cup new]
<1>1. PICK lost : net' = [net EXCEPT ![Other(p)] = @ \cup (out \ lost)]
  BY DEF Transmit
<1>2. out \ lost \in SUBSET out
  OBVIOUS
<1>3. QED
  BY <1>1, <1>2

\* The user's send().
LEMMA SendSends ==
  ASSUME TypeOK, NEW p \in Peers, NEW ok \in BOOLEAN, Send(p, ok)
  PROVE  \E q, out : Sends(p, q, out)
<1> DEFINE body == submitted[p] + 1
           before == partner[p]
           one == prepare_messages_to_send(before, <<body>>)
           id == before.my_msg_id_counter
<1>1. PartnerOK(before) /\ submitted[p] \in Nat /\ body \in Bodies
  BY DEF TypeOK, Bodies
<1>2. /\ submitted' \in [Peers -> Nat]
      /\ receiving' \in [Peers -> BOOLEAN]
      /\ delivered' = delivered
  <2>1. /\ submitted' = [submitted EXCEPT ![p] = body]
        /\ receiving' = receiving
        /\ delivered' = delivered
    BY DEF Send
  <2>2. QED
    BY <1>1, <2>1 DEF TypeOK
<1>3. CASE can_send_messages(before)
  <2> DEFINE q == IF ok THEN note_sent(one, {id}) ELSE one
             all == IF ok THEN {send_regular_message(one, id)} ELSE {}
  <2>1. Become(p, q) /\ Transmit(p, all, Lossy)
    BY <1>3 DEF Send
  <2>2. /\ PartnerOK(one)
        /\ Numbers(before, one)
        /\ one.my_msg_id_counter = id + 1
        /\ one.ack_window_size = before.ack_window_size
    <3>1. <<body>> \in Seq(Bodies) /\ Len(<<body>>) = 1
      BY <1>1
    <3>2. QED
      BY <1>1, <3>1, PrepareOK
  <2>3. HIDE DEF one
  <2>4. /\ PartnerOK(q)
        /\ Numbers(one, q)
        /\ q.my_msg_id_counter = one.my_msg_id_counter
        /\ q.ack_window_size = one.ack_window_size
        /\ \A k \in DOMAIN one.messages_sent :
             q.messages_sent[k].msg = one.messages_sent[k].msg
    <3>1. CASE ok
      BY <2>2, <3>1, NoteSentOK
    <3>2. CASE ~ok
      <4>1. one.my_msg_id_counter .. one.my_msg_id_counter - 1 = {}
            /\ one.my_msg_id_counter \in Nat
        BY <2>2 DEF PartnerOK
      <4>2. QED
        BY <2>2, <3>2, <4>1 DEF Numbers
    <3>3. QED
      BY <3>1, <3>2
  <2> HIDE DEF q
  <2>5. Numbers(before, q)
    BY <1>1, <2>2, <2>4, NumbersThen
  <2>6. id \in DOMAIN one.messages_sent /\ id \in DOMAIN q.messages_sent
    <3>1. id \in id .. id + 1 - 1
      BY <1>1 DEF PartnerOK
    <3>2. QED
      BY <2>2, <2>4, <3>1 DEF Numbers
  <2>7. \A d \in all : /\ d \in Datagrams
                       /\ d.receiver_msg_id = q.his_msg_id_received
                       /\ d.sender_msg_id \in DOMAIN q.messages_sent
                       /\ d.data = q.messages_sent[d.sender_msg_id].msg
    <3>1. q.his_msg_id_received = one.his_msg_id_received
      BY <2>4 DEF Numbers
    <3>2. q.messages_sent[id].msg = one.messages_sent[id].msg
      BY <2>4, <2>6
    <3>3. QED
      BY <2>2, <2>6, <3>1, <3>2, SentDatagrams
  <2>8. count_unacknowledged_messages(q) <= before.ack_window_size + 1
    <3>1. count_unacknowledged_messages(before) <= before.ack_window_size
      BY <1>3 DEF can_send_messages
    <3>2. q.my_msg_id_counter = id + 1 /\ q.my_msg_id_received = before.my_msg_id_received
      BY <2>2, <2>4, <2>5 DEF Numbers
    <3>3. id \in Nat /\ before.my_msg_id_received \in Nat /\ before.ack_window_size \in Nat
      BY <1>1 DEF PartnerOK
    <3>4. QED
      BY <3>1, <3>2, <3>3 DEF count_unacknowledged_messages
  <2>9. q.ack_window_size <= before.ack_window_size
    BY <1>1, <2>2, <2>4 DEF PartnerOK
  <2>10. PICK new \in SUBSET all : net' = [net EXCEPT ![Other(p)] = @ \cup new]
    BY <2>1, TransmitAdds
  <2>11. HIDE DEF all
  <2>12. Sends(p, q, new)
    BY <1>2, <2>1, <2>4, <2>5, <2>7, <2>8, <2>9, <2>10 DEF Sends, Become
  <2>13. QED
    BY <2>12
<1>4. CASE ~can_send_messages(before)
  <2> DEFINE q == [before EXCEPT !.queue_to_send = Append(@, body)]
  <2>1. Become(p, q) /\ net' = net
    BY <1>4 DEF Send
  <2>2. Append(before.queue_to_send, body) \in Seq(Bodies)
    BY <1>1, AppendProperties DEF PartnerOK
  <2>3. q = [before EXCEPT !.queue_to_send = Append(before.queue_to_send, body)]
    OBVIOUS
  <2>4. HIDE DEF q
  <2>5. IsPartner(q)
    BY <1>1, <2>3 DEF PartnerOK, IsPartner
  <2>6. /\ q.his_msg_id_received = before.his_msg_id_received
        /\ q.my_msg_id_received = before.my_msg_id_received
        /\ q.my_msg_id_counter = before.my_msg_id_counter
        /\ q.ack_window_size = before.ack_window_size
        /\ q.number_of_datagrams_without_loss = before.number_of_datagrams_without_loss
        /\ q.messages_sent = before.messages_sent
        /\ q.ack_delay_history = before.ack_delay_history
        /\ q.queue_to_send = Append(before.queue_to_send, body)
        /\ q.messages_received = before.messages_received
    BY <1>1, <2>3 DEF PartnerOK, IsPartner
  <2>7. PartnerOK(q)
    BY <1>1, <2>2, <2>5, <2>6 DEF PartnerOK
  <2>8. Numbers(before, q) /\ q.ack_window_size <= before.ack_window_size
    <3>1. /\ id .. id - 1 = {} /\ id \in Nat
          /\ before.ack_window_size \in Nat
      BY <1>1 DEF PartnerOK
    <3>2. QED
      BY <2>6, <3>1 DEF Numbers
  <2>9. net' = [net EXCEPT ![Other(p)] = @ \cup {}]
    BY <2>1 DEF TypeOK
  <2>10. Sends(p, q, {})
    BY <1>2, <2>1, <2>6, <2>7, <2>8, <2>9 DEF Sends, Become
  <2>11. QED
    BY <2>10
<1>5. QED
  BY <1>3, <1>4

\* The sending part of an iteration of the receiving thread.
LEMMA SendAllSends ==
  ASSUME TypeOK, NEW p \in Peers, NEW expired, NEW failed, NEW ping \in BOOLEAN, NEW lossy,
         SendAll(p, expired, failed, ping, lossy)
  PROVE  \E q, out : Sends(p, q, out)
<1> DEFINE before == partner[p]
           drained == drain_queue_to_send(before)
           due == messages_to_resend(drained, expired)
           sent == {id \in due : \A f \in failed : id < f}
           windowed == IF failed = {} THEN update_window(drained, due) ELSE drained
           q == note_sent(windowed, sent)
           all == {send_regular_message(drained, id) : id \in sent}
                  \cup (IF ping THEN {send_ping_message(drained)} ELSE {})
<1>1. PartnerOK(before)
  BY DEF TypeOK
<1>2. /\ Become(p, q)
      /\ Transmit(p, all, lossy)
      /\ receiving' = [receiving EXCEPT ![p] = FALSE]
      /\ submitted' = submitted
      /\ delivered' = delivered
  BY DEF SendAll
<1>3. submitted' \in [Peers -> Nat] /\ receiving' \in [Peers -> BOOLEAN]
  BY <1>2 DEF TypeOK
<1>4. sent \subseteq DOMAIN drained.messages_sent
  BY DEF messages_to_resend
<1>5. /\ PartnerOK(drained)
      /\ Numbers(before, drained)
      /\ drained.ack_window_size = before.ack_window_size
      /\ \/ drained.my_msg_id_counter = before.my_msg_id_counter
         \/ count_unacknowledged_messages(drained) <= before.ack_window_size + 1
  BY <1>1, DrainOK
<1> HIDE DEF drained
<1>6. /\ PartnerOK(windowed)
      /\ Numbers(drained, windowed)
      /\ windowed.my_msg_id_counter = drained.my_msg_id_counter
      /\ windowed.messages_sent = drained.messages_sent
      /\ windowed.ack_window_size <= drained.ack_window_size
         \/ windowed.ack_window_size <= WindowCap
  <2>1. CASE failed = {}
    BY <1>5, <2>1, UpdateWindowOK
  <2>2. CASE failed # {}
    <3>1. /\ drained.my_msg_id_counter .. drained.my_msg_id_counter - 1 = {}
          /\ drained.my_msg_id_counter \in Nat
          /\ drained.ack_window_size \in Nat
      BY <1>5 DEF PartnerOK
    <3>2. QED
      BY <1>5, <2>2, <3>1 DEF Numbers
  <2>3. QED
    BY <2>1, <2>2
<1> HIDE DEF windowed
<1>7. /\ PartnerOK(q)
      /\ Numbers(windowed, q)
      /\ q.my_msg_id_counter = windowed.my_msg_id_counter
      /\ q.ack_window_size = windowed.ack_window_size
      /\ \A id \in DOMAIN windowed.messages_sent :
           q.messages_sent[id].msg = windowed.messages_sent[id].msg
  BY <1>6, NoteSentOK
<1> HIDE DEF q
<1>8. Numbers(before, windowed)
  BY <1>1, <1>5, <1>6, NumbersThen
<1>9. Numbers(before, q)
  BY <1>1, <1>6, <1>7, <1>8, NumbersThen
<1>10. /\ q.his_msg_id_received = drained.his_msg_id_received
       /\ q.my_msg_id_received = drained.my_msg_id_received
  BY <1>6, <1>7 DEF Numbers
<1>11. \A d \in all : /\ d \in Datagrams
                      /\ d.receiver_msg_id = q.his_msg_id_received
                      /\ d.msg_kind = "m" =>
                           /\ d.sender_msg_id \in DOMAIN q.messages_sent
                           /\ d.data = q.messages_sent[d.sender_msg_id].msg
  <2>1. DOMAIN windowed.messages_sent \subseteq DOMAIN q.messages_sent
    BY <1>7 DEF Numbers
  <2>2. ASSUME NEW id \in sent
        PROVE  LET d == send_regular_message(drained, id)
               IN  /\ d \in Datagrams
                   /\ d.receiver_msg_id = q.his_msg_id_received
                   /\ d.sender_msg_id \in DOMAIN q.messages_sent
                   /\ d.data = q.messages_sent[d.sender_msg_id].msg
    <3>1. id \in DOMAIN drained.messages_sent
      BY <1>4
    <3>2. QED
      BY <1>5, <1>6, <1>7, <1>10, <2>1, <3>1, SentDatagrams
  <2>3. LET d == send_ping_message(drained)
        IN  /\ d \in Datagrams
            /\ d.receiver_msg_id = q.his_msg_id_received
            /\ d.msg_kind = "p"
    BY <1>5, <1>10, SentDatagrams
  <2>4. QED
    BY <2>2, <2>3
<1>12. PICK new \in SUBSET all : net' = [net EXCEPT ![Other(p)] = @ \cup new]
  BY <1>2, TransmitAdds
<1> HIDE DEF all
<1>13. \/ q.my_msg_id_counter = before.my_msg_id_counter
       \/ count_unacknowledged_messages(q) <= before.ack_window_size + 1
  BY <1>5, <1>6, <1>7, <1>10 DEF count_unacknowledged_messages
<1>14. Sends(p, q, new)
  BY <1>2, <1>3, <1>5, <1>6, <1>7, <1>9, <1>11, <1>12, <1>13 DEF Sends, Become
<1>15. QED
  BY <1>14

-----------------------------------------------------------------------------

\* The other of two peers.
LEMMA Others == \A p \in Peers : /\ Other(p) \in Peers
                                 /\ Other(p) # p
                                 /\ Other(Other(p)) = p
                                 /\ \A r \in Peers : r = p \/ r = Other(p)
  BY DEF Other, Peers

\* Numbering and sending keep the types.
LEMMA SendsType ==
  ASSUME TypeOK, NumberedInOrder, NEW p \in Peers, NEW q, NEW out, Sends(p, q, out)
  PROVE  TypeOK'
<1> DEFINE fresh == partner[p].my_msg_id_counter .. q.my_msg_id_counter - 1
           longer == [id \in DOMAIN numbered[p] \cup fresh |->
                        IF id \in fresh THEN q.messages_sent[id].msg ELSE numbered[p][id]]
<1>1. PartnerOK(partner[p]) /\ PartnerOK(q) /\ fresh \subseteq DOMAIN q.messages_sent
  BY DEF TypeOK, Sends, Numbers
<1>2. IsMap(longer, Bodies)
  <2>1. \A id \in fresh : q.messages_sent[id].msg \in Bodies /\ id \in Nat
    BY <1>1 DEF PartnerOK, IsMap, SentMessages
  <2>2. DOMAIN numbered[p] \subseteq Nat /\ \A id \in DOMAIN numbered[p] : numbered[p][id] \in Bodies
    BY DEF TypeOK, IsMap
  <2>3. \A id \in DOMAIN longer : longer[id] \in Bodies
    BY <2>1, <2>2
  <2>4. QED
    BY <2>1, <2>2, <2>3 DEF IsMap
<1>3. /\ partner' = [partner EXCEPT ![p] = q]
      /\ numbered' = [numbered EXCEPT ![p] = longer]
      /\ net' = [net EXCEPT ![Other(p)] = @ \cup out]
      /\ out \subseteq Datagrams
      /\ delivered' = delivered
      /\ submitted' \in [Peers -> Nat]
      /\ receiving' \in [Peers -> BOOLEAN]
  BY DEF Sends
<1> HIDE DEF longer
<1>4. partner' = [r \in Peers |-> partner'[r]] /\ \A r \in Peers : PartnerOK(partner'[r])
  BY <1>1, <1>3 DEF TypeOK
<1>5. numbered' = [r \in Peers |-> numbered'[r]] /\ \A r \in Peers : IsMap(numbered'[r], Bodies)
  BY <1>2, <1>3 DEF TypeOK
<1>6. net' = [r \in Peers |-> net'[r]] /\ \A r \in Peers : net'[r] \subseteq Datagrams
  BY <1>3, Others DEF TypeOK
<1>7. QED
  BY <1>3, <1>4, <1>5, <1>6 DEF TypeOK

\* Numbering and sending keep the whole invariant, and take nothing back.
LEMMA SendsKeepsInv ==
  ASSUME LinkInv, NEW p \in Peers, NEW q, NEW out, Sends(p, q, out)
  PROVE  /\ LinkInv'
         /\ \A r \in Peers :
              /\ partner'[r].my_msg_id_received >= partner[r].my_msg_id_received
              /\ partner'[r].his_msg_id_received >= partner[r].his_msg_id_received
<1> DEFINE o == Other(p)
           before == partner[p]
           first == before.my_msg_id_counter
           fresh == first .. q.my_msg_id_counter - 1
           longer == [id \in DOMAIN numbered[p] \cup fresh |->
                        IF id \in fresh THEN q.messages_sent[id].msg ELSE numbered[p][id]]
<1>1. TypeOK'
  BY SendsType DEF LinkInv
<1>2. /\ partner'[p] = q /\ partner'[o] = partner[o]
      /\ numbered'[p] = longer /\ numbered'[o] = numbered[o]
      /\ net'[p] = net[p] /\ net'[o] = net[o] \cup out
      /\ delivered' = delivered
      /\ o \in Peers /\ Other(p) = o /\ Other(o) = p /\ \A r \in Peers : r = p \/ r = o
  BY Others DEF LinkInv, TypeOK, Sends
<1>3. /\ q.his_msg_id_received = before.his_msg_id_received
      /\ q.my_msg_id_received = before.my_msg_id_received
      /\ q.messages_received = before.messages_received
      /\ first <= q.my_msg_id_counter
      /\ DOMAIN q.messages_sent = DOMAIN before.messages_sent \cup fresh
      /\ \A id \in DOMAIN before.messages_sent :
           id < first => q.messages_sent[id].msg = before.messages_sent[id].msg
  BY DEF Sends, Numbers
<1>4. \A r \in Peers : /\ FirstId[r] \in Nat
                       /\ partner[r].his_msg_id_received \in Nat
                       /\ partner[r].my_msg_id_received \in Nat
                       /\ partner[r].my_msg_id_counter \in Nat
                       /\ partner[r].ack_window_size \in Nat
  BY LinkAssumption DEF LinkInv, TypeOK, PartnerOK
<1>5. q.my_msg_id_counter \in Nat /\ q.ack_window_size \in Nat
  BY DEF Sends, PartnerOK
<1>6. /\ DOMAIN numbered[p] = FirstId[p] .. first - 1
      /\ FirstId[p] <= partner[o].his_msg_id_received
      /\ partner[o].his_msg_id_received <= first
  BY <1>2 DEF LinkInv, NumberedInOrder, AcknowledgedWasReceived
<1>7. /\ DOMAIN longer = FirstId[p] .. q.my_msg_id_counter - 1
      /\ \A id \in DOMAIN numbered[p] :
           id \in DOMAIN longer /\ longer[id] = numbered[p][id] /\ id < first
      /\ \A id \in fresh : longer[id] = q.messages_sent[id].msg
  <2>1. first \in Nat /\ FirstId[p] \in Nat /\ FirstId[p] <= first
    BY <1>2, <1>4, <1>6
  <2>2. \A id \in DOMAIN numbered[p] : id < first /\ id \notin fresh
    BY <1>5, <1>6, <2>1
  <2>3. DOMAIN numbered[p] \cup fresh = FirstId[p] .. q.my_msg_id_counter - 1
    BY <1>3, <1>5, <1>6, <2>1
  <2>4. QED
    BY <2>2, <2>3
<1>8. \A id \in DOMAIN q.messages_sent :
        id \in DOMAIN longer /\ q.messages_sent[id].msg = longer[id]
  <2>1. \A id \in DOMAIN before.messages_sent :
          id \in DOMAIN numbered[p] /\ before.messages_sent[id].msg = numbered[p][id]
    BY DEF LinkInv, NumberedInOrder
  <2>2. DOMAIN numbered[p] \subseteq DOMAIN longer /\ fresh \subseteq DOMAIN longer
    OBVIOUS
  <2>3. QED
    BY <1>3, <1>7, <2>1, <2>2
<1> HIDE DEF longer, o
<1>9. AcknowledgedWasReceived'
  BY <1>2, <1>3, <1>4, <1>5 DEF LinkInv, AcknowledgedWasReceived
<1>10. DeliveredExactlyOnceInOrder'
  <2>1. ASSUME NEW r \in Peers
        PROVE  LET from == Other(r)
               IN  /\ Len(delivered[r]) = partner'[r].his_msg_id_received - FirstId[from]
                   /\ \A i \in 1 .. Len(delivered[r]) :
                        /\ FirstId[from] + i - 1 \in DOMAIN numbered'[from]
                        /\ delivered[r][i] = numbered'[from][FirstId[from] + i - 1]
    <3>1. /\ Len(delivered[r]) = partner[r].his_msg_id_received - FirstId[Other(r)]
          /\ \A i \in 1 .. Len(delivered[r]) :
               /\ FirstId[Other(r)] + i - 1 \in DOMAIN numbered[Other(r)]
               /\ delivered[r][i] = numbered[Other(r)][FirstId[Other(r)] + i - 1]
      BY DEF LinkInv, DeliveredExactlyOnceInOrder
    <3>2. CASE r = p
      BY <1>2, <1>3, <3>1, <3>2
    <3>3. CASE r = o
      <4>1. \A i \in 1 .. Len(delivered[o]) : FirstId[p] + i - 1 \in DOMAIN numbered[p]
        BY <1>2, <3>1, <3>3
      <4>2. Other(r) = p /\ numbered'[p] = longer /\ partner'[r] = partner[r]
        BY <1>2, <3>3
      <4>3. \A i \in 1 .. Len(delivered[r]) :
              /\ FirstId[p] + i - 1 \in DOMAIN longer
              /\ longer[FirstId[p] + i - 1] = numbered[p][FirstId[p] + i - 1]
        BY <1>7, <3>3, <4>1
      <4>4. QED
        BY <3>1, <4>2, <4>3
    <3>4. QED
      BY <1>2, <3>2, <3>3
  <2>2. QED
    BY <1>2, <2>1 DEF DeliveredExactlyOnceInOrder
<1>11. UnreceivedIsKept'
  <2>1. \A id \in partner[o].his_msg_id_received .. q.my_msg_id_counter - 1 :
          id \in DOMAIN q.messages_sent /\ q.messages_sent[id].msg = longer[id]
    <3>1. \A id \in partner[o].his_msg_id_received .. first - 1 :
            id \in DOMAIN before.messages_sent
      BY <1>2 DEF LinkInv, UnreceivedIsKept
    <3>2. QED
      BY <1>2, <1>3, <1>4, <1>5, <1>8, <3>1
  <2>2. \A id \in q.his_msg_id_received .. partner[o].my_msg_id_counter - 1 :
          /\ id \in DOMAIN partner[o].messages_sent
          /\ partner[o].messages_sent[id].msg = numbered[o][id]
    BY <1>2, <1>3 DEF LinkInv, UnreceivedIsKept
  <2>3. QED
    BY <1>2, <2>1, <2>2 DEF UnreceivedIsKept
<1>12. BufferedIsAhead'
  <2>1. \A id \in DOMAIN q.messages_received :
          /\ id > q.his_msg_id_received
          /\ id < partner[o].my_msg_id_counter
          /\ q.messages_received[id] = numbered[o][id]
    BY <1>2, <1>3 DEF LinkInv, BufferedIsAhead
  <2>2. ASSUME NEW id \in DOMAIN partner[o].messages_received
        PROVE  /\ id > partner[o].his_msg_id_received
               /\ id < q.my_msg_id_counter
               /\ partner[o].messages_received[id] = longer[id]
    <3>1. /\ id > partner[o].his_msg_id_received
          /\ id < first
          /\ partner[o].messages_received[id] = numbered[p][id]
      BY <1>2 DEF LinkInv, BufferedIsAhead
    <3>2. id \in Nat
      BY <1>2 DEF LinkInv, TypeOK, PartnerOK, IsMap
    <3>3. id \in DOMAIN numbered[p]
      BY <1>2, <1>4, <1>6, <3>1, <3>2
    <3>4. QED
      BY <1>3, <1>4, <1>5, <1>7, <3>1, <3>2, <3>3
  <2>3. QED
    BY <1>2, <2>1, <2>2 DEF BufferedIsAhead
<1>13. NumberedInOrder'
  <2>1. /\ DOMAIN numbered[o] = FirstId[o] .. partner[o].my_msg_id_counter - 1
        /\ FirstId[o] <= q.his_msg_id_received
        /\ \A id \in DOMAIN partner[o].messages_sent :
             id \in DOMAIN numbered[o] /\ partner[o].messages_sent[id].msg = numbered[o][id]
    BY <1>2, <1>3 DEF LinkInv, NumberedInOrder
  <2>2. /\ DOMAIN longer = FirstId[p] .. q.my_msg_id_counter - 1
        /\ FirstId[p] <= partner[o].his_msg_id_received
        /\ \A id \in DOMAIN q.messages_sent :
             id \in DOMAIN longer /\ q.messages_sent[id].msg = longer[id]
    BY <1>6, <1>7, <1>8
  <2>3. ASSUME NEW r \in Peers
        PROVE  /\ DOMAIN numbered'[r] = FirstId[r] .. partner'[r].my_msg_id_counter - 1
               /\ FirstId[r] <= partner'[Other(r)].his_msg_id_received
               /\ \A id \in DOMAIN partner'[r].messages_sent :
                    /\ id \in DOMAIN numbered'[r]
                    /\ partner'[r].messages_sent[id].msg = numbered'[r][id]
    <3>1. CASE r = p
      BY <1>2, <2>2, <3>1
    <3>2. CASE r = o
      BY <1>2, <2>1, <3>2
    <3>3. QED
      BY <1>2, <3>1, <3>2
  <2>4. QED
    BY <2>3 DEF NumberedInOrder
<1>14. WindowFits'
  <2>1. /\ before.ack_window_size + 1 <= msg_id_end \div 2
        /\ count_unacknowledged_messages(before) <= msg_id_end \div 2
        /\ partner[o].ack_window_size + 1 <= msg_id_end \div 2
        /\ count_unacknowledged_messages(partner[o]) <= msg_id_end \div 2
    BY <1>2 DEF LinkInv, WindowFits
  <2>2. /\ q.ack_window_size <= before.ack_window_size \/ q.ack_window_size <= WindowCap
        /\ \/ q.my_msg_id_counter = first
           \/ count_unacknowledged_messages(q) <= before.ack_window_size + 1
    BY DEF Sends
  <2>3. msg_id_end \div 2 \in Nat /\ WindowCap \in Nat /\ WindowCap + 1 <= msg_id_end \div 2
    BY MsgIdEndAssumption, PartnerAssumption, LinkAssumption
       DEF WindowCap, std_max, max_sent_messages
  <2>4. q.ack_window_size + 1 <= msg_id_end \div 2
    BY <1>4, <1>5, <2>1, <2>2, <2>3
  <2>5. count_unacknowledged_messages(q) <= msg_id_end \div 2
    BY <1>3, <1>4, <1>5, <2>1, <2>2, <2>3 DEF count_unacknowledged_messages
  <2>6. QED
    BY <1>2, <2>1, <2>4, <2>5 DEF WindowFits
<1>15. NetworkTellsTheTruth'
  <2>1. ASSUME NEW d \in net'[o]
        PROVE  /\ d.receiver_msg_id <= q.his_msg_id_received
               /\ d.msg_kind = "m" => d.sender_msg_id \in DOMAIN longer
                                      /\ d.data = longer[d.sender_msg_id]
    <3>1. CASE d \in net[o]
      <4>1. /\ d.receiver_msg_id <= before.his_msg_id_received
            /\ d.msg_kind = "m" => d.sender_msg_id \in DOMAIN numbered[p]
                                   /\ d.data = numbered[p][d.sender_msg_id]
        BY <1>2, <3>1 DEF LinkInv, NetworkTellsTheTruth
      <4>2. DOMAIN numbered[p] \subseteq DOMAIN longer
        BY <1>3, <1>4, <1>5, <1>6, <1>7
      <4>3. QED
        BY <1>3, <1>7, <4>1, <4>2
    <3>2. CASE d \in out
      <4>1. /\ d.receiver_msg_id = q.his_msg_id_received
            /\ d.msg_kind = "m" => /\ d.sender_msg_id \in DOMAIN q.messages_sent
                                   /\ d.data = q.messages_sent[d.sender_msg_id].msg
        BY <3>2 DEF Sends
      <4>2. d.receiver_msg_id <= q.his_msg_id_received
        BY <1>3, <1>4, <4>1
      <4>3. QED
        BY <1>8, <4>1, <4>2
    <3>3. QED
      BY <1>2, <3>1, <3>2
  <2>2. \A d \in net'[p] :
          /\ d.receiver_msg_id <= partner[o].his_msg_id_received
          /\ d.msg_kind = "m" => d.sender_msg_id \in DOMAIN numbered[o]
                                 /\ d.data = numbered[o][d.sender_msg_id]
    BY <1>2 DEF LinkInv, NetworkTellsTheTruth
  <2>3. QED
    BY <1>2, <2>1, <2>2 DEF NetworkTellsTheTruth
<1>16. QED
  BY <1>1, <1>2, <1>3, <1>4, <1>9, <1>10, <1>11, <1>12, <1>13, <1>14, <1>15 DEF LinkInv

-----------------------------------------------------------------------------

\* A receiving partner recovers both numbers of a fresh datagram.
LEMMA FreshIsUnderstood ==
  ASSUME LinkInv, NEW p \in Peers, NEW d \in net[p], Fresh(p, d)
  PROVE  /\ convert_msg_id_to_abs(convert_msg_to_rem(d.receiver_msg_id),
                                  partner[p].my_msg_id_counter) = d.receiver_msg_id
         /\ d.msg_kind = "m" =>
              convert_msg_id_to_abs(convert_msg_to_rem(d.sender_msg_id),
                                    partner[p].his_msg_id_received) = d.sender_msg_id
<1> DEFINE o == Other(p)
           half == msg_id_end \div 2
<1>1. o \in Peers /\ Other(o) = p /\ d \in Datagrams
  BY Others DEF LinkInv, TypeOK
<1>2. \A r \in Peers : /\ FirstId[r] \in Nat
                       /\ partner[r].his_msg_id_received \in Nat
                       /\ partner[r].my_msg_id_received \in Nat
                       /\ partner[r].my_msg_id_counter \in Nat
  BY LinkAssumption DEF LinkInv, TypeOK, PartnerOK
<1>3. half \in Nat /\ half < msg_id_end /\ half <= msg_id_end - half
  BY MsgIdEndAssumption
<1>4. /\ partner[o].his_msg_id_received <= partner[p].my_msg_id_counter
      /\ partner[o].my_msg_id_received <= partner[p].his_msg_id_received
      /\ partner[p].his_msg_id_received <= partner[o].my_msg_id_counter
  BY <1>1 DEF LinkInv, AcknowledgedWasReceived
<1> HIDE DEF o
<1>5. /\ d.receiver_msg_id \in Nat
      /\ d.receiver_msg_id <= partner[o].his_msg_id_received
  BY <1>1, WireType DEF LinkInv, NetworkTellsTheTruth, o
<1>6. partner[p].my_msg_id_counter - d.receiver_msg_id <= half
  BY DEF Fresh
<1>7. d.receiver_msg_id - partner[p].my_msg_id_counter < msg_id_end - half
  BY <1>1, <1>2, <1>3, <1>4, <1>5, MsgIdEndAssumption
<1>8. ASSUME d.msg_kind = "m"
      PROVE  /\ d.sender_msg_id \in Nat
             /\ partner[p].his_msg_id_received - d.sender_msg_id <= half
             /\ d.sender_msg_id - partner[p].his_msg_id_received < msg_id_end - half
  <2>1. d.sender_msg_id \in Nat
    BY <1>1, <1>8, WireType
  <2>2. d.sender_msg_id < partner[o].my_msg_id_counter
    <3>1. d.sender_msg_id \in DOMAIN numbered[o]
      BY <1>8 DEF LinkInv, NetworkTellsTheTruth, o
    <3>2. DOMAIN numbered[o] = FirstId[o] .. partner[o].my_msg_id_counter - 1
      BY <1>1 DEF LinkInv, NumberedInOrder
    <3>3. QED
      BY <1>1, <1>2, <3>1, <3>2
  <2>3. partner[o].my_msg_id_counter - d.sender_msg_id <= half
    BY <1>8 DEF Fresh, o
  <2>4. partner[o].my_msg_id_counter - partner[o].my_msg_id_received <= half
    BY <1>1 DEF LinkInv, WindowFits, count_unacknowledged_messages
  <2>5. QED
    BY <1>1, <1>2, <1>3, <1>4, <2>1, <2>2, <2>3, <2>4, MsgIdEndAssumption
<1>9. convert_msg_id_to_abs(convert_msg_to_rem(d.receiver_msg_id),
                            partner[p].my_msg_id_counter) = d.receiver_msg_id
  BY <1>2, <1>5, <1>6, <1>7, WireRoundTrip
<1>10. ASSUME d.msg_kind = "m"
       PROVE  convert_msg_id_to_abs(convert_msg_to_rem(d.sender_msg_id),
                                    partner[p].his_msg_id_received) = d.sender_msg_id
  BY <1>2, <1>8, <1>10, WireRoundTrip
<1>11. QED
  BY <1>9, <1>10

\* p receives: it becomes r, and msgs go to its user.
Gets(p, r, msgs) ==
  /\ partner' = [partner EXCEPT ![p] = r]
  /\ delivered' = [delivered EXCEPT ![p] = @ \o msgs]
  /\ receiving' = [receiving EXCEPT ![p] = TRUE]
  /\ net' = net
  /\ submitted' = submitted
  /\ numbered' = numbered
  /\ PartnerOK(r)
  /\ msgs \in Seq(Bodies)
  /\ r.my_msg_id_counter = partner[p].my_msg_id_counter
  /\ r.ack_window_size = partner[p].ack_window_size
  /\ partner[p].my_msg_id_received <= r.my_msg_id_received
  /\ r.my_msg_id_received <= partner[Other(p)].his_msg_id_received
  /\ \A id \in DOMAIN r.messages_sent :
       /\ id \in DOMAIN partner[p].messages_sent
       /\ r.messages_sent[id].msg = partner[p].messages_sent[id].msg
  /\ \A id \in DOMAIN partner[p].messages_sent :
       id >= r.my_msg_id_received => id \in DOMAIN r.messages_sent
  /\ Len(msgs) = r.his_msg_id_received - partner[p].his_msg_id_received
  /\ \A i \in 1 .. Len(msgs) :
       /\ partner[p].his_msg_id_received + i - 1 \in DOMAIN numbered[Other(p)]
       /\ msgs[i] = numbered[Other(p)][partner[p].his_msg_id_received + i - 1]
  /\ \A id \in DOMAIN r.messages_received :
       /\ id \in DOMAIN numbered[Other(p)]
       /\ r.messages_received[id] = numbered[Other(p)][id]

\* What p becomes when it receives d: only messages that the other side numbered
\* are buffered or delivered.
LEMMA ReceiveGets ==
  ASSUME LinkInv, NEW p \in Peers, NEW d \in net[p], NEW survive \in Nat, Receive(p, d, survive)
  PROVE  \E r, msgs : Gets(p, r, msgs)
<1> DEFINE o == Other(p)
           before == partner[p]
           result == handle_valid_message(before, Wire(d), survive)
           acked == handle_message_acknowledge(before, Wire(d).receiver_msg_id,
                                               Wire(d).missing_count, survive)
           r == result.partner
           msgs == result.messages
<1>1. /\ o \in Peers /\ Other(o) = p /\ d \in Datagrams /\ PartnerOK(before)
      /\ Fresh(p, d)
      /\ Become(p, r)
      /\ delivered' = [delivered EXCEPT ![p] = @ \o msgs]
      /\ receiving' = [receiving EXCEPT ![p] = TRUE]
      /\ net' = net /\ submitted' = submitted
  BY Others DEF LinkInv, TypeOK, Receive
<1>2. /\ PartnerOK(r)
      /\ msgs \in Seq(Bodies)
      /\ Acknowledges(before, acked, d.receiver_msg_id)
      /\ d.msg_kind = "m" => Receives(acked, r, msgs, d.sender_msg_id, d.data)
      /\ d.msg_kind = "p" => r = acked /\ msgs = << >>
  BY <1>1, HandleValidOK, FreshIsUnderstood
<1> HIDE DEF r, msgs, acked, result, o
<1>3. /\ before.his_msg_id_received \in Nat
      /\ before.my_msg_id_received \in Nat
      /\ before.my_msg_id_counter \in Nat
      /\ partner[o].his_msg_id_received \in Nat
      /\ partner[o].my_msg_id_counter \in Nat
      /\ DOMAIN before.messages_received \subseteq Nat
      /\ FirstId[o] \in Nat
      /\ r.my_msg_id_counter \in Nat
  BY <1>1, <1>2, LinkAssumption DEF LinkInv, TypeOK, PartnerOK, IsMap
<1>4. /\ acked.his_msg_id_received = before.his_msg_id_received
      /\ acked.messages_received = before.messages_received
      /\ acked.my_msg_id_counter = before.my_msg_id_counter
      /\ acked.ack_window_size = before.ack_window_size
      /\ acked.my_msg_id_received \in {before.my_msg_id_received, d.receiver_msg_id}
      /\ before.my_msg_id_received <= acked.my_msg_id_received
      /\ \A id \in DOMAIN acked.messages_sent :
           /\ id \in DOMAIN before.messages_sent
           /\ acked.messages_sent[id].msg = before.messages_sent[id].msg
      /\ \A id \in DOMAIN before.messages_sent :
           id >= acked.my_msg_id_received => id \in DOMAIN acked.messages_sent
  BY <1>2 DEF Acknowledges
<1>5. /\ r.my_msg_id_received = acked.my_msg_id_received
      /\ r.my_msg_id_counter = before.my_msg_id_counter
      /\ r.ack_window_size = before.ack_window_size
      /\ r.messages_sent = acked.messages_sent
  BY <1>1, <1>2, <1>4, WireType DEF Receives
<1>6. r.my_msg_id_received <= partner[o].his_msg_id_received
  <2>1. before.my_msg_id_received <= partner[o].his_msg_id_received
    BY DEF LinkInv, AcknowledgedWasReceived, o
  <2>2. d.receiver_msg_id <= partner[o].his_msg_id_received
    BY DEF LinkInv, NetworkTellsTheTruth, o
  <2>3. QED
    BY <1>4, <1>5, <2>1, <2>2
<1>7. numbered' = numbered
  <2>1. r.my_msg_id_counter = before.my_msg_id_counter
        /\ before.my_msg_id_counter .. before.my_msg_id_counter - 1 = {}
    BY <1>3, <1>5
  <2>2. numbered' = [numbered EXCEPT ![p] = [id \in DOMAIN numbered[p] |-> numbered[p][id]]]
    <3> DEFINE fresh == before.my_msg_id_counter .. r.my_msg_id_counter - 1
    <3>1. numbered' = [numbered EXCEPT ![p] =
                         [id \in DOMAIN numbered[p] \cup fresh |->
                            IF id \in fresh THEN r.messages_sent[id].msg ELSE numbered[p][id]]]
      BY <1>1 DEF Become
    <3>2. fresh = {}
      BY <2>1
    <3> HIDE DEF fresh
    <3>3. [id \in DOMAIN numbered[p] \cup fresh |->
             IF id \in fresh THEN r.messages_sent[id].msg ELSE numbered[p][id]]
          = [id \in DOMAIN numbered[p] |-> numbered[p][id]]
      BY <3>2
    <3>4. QED
      BY <3>1, <3>3
  <2>3. numbered[p] = [id \in DOMAIN numbered[p] |-> numbered[p][id]]
    BY DEF LinkInv, TypeOK, IsMap
  <2>4. QED
    BY <2>2, <2>3 DEF LinkInv, TypeOK
<1>8. \A k \in DOMAIN before.messages_received :
        k \in DOMAIN numbered[o] /\ before.messages_received[k] = numbered[o][k]
  <2>1. DOMAIN numbered[o] = FirstId[o] .. partner[o].my_msg_id_counter - 1
        /\ FirstId[o] <= before.his_msg_id_received
    BY <1>1 DEF LinkInv, NumberedInOrder
  <2>2. \A k \in DOMAIN before.messages_received :
          /\ k > before.his_msg_id_received
          /\ k < partner[o].my_msg_id_counter
          /\ before.messages_received[k] = numbered[o][k]
    BY <1>1 DEF LinkInv, BufferedIsAhead, o
  <2>3. ASSUME NEW k \in DOMAIN before.messages_received
        PROVE  k \in DOMAIN numbered[o] /\ before.messages_received[k] = numbered[o][k]
    <3>1. k \in Nat
      BY <1>3
    <3>2. k >= FirstId[o] /\ k <= partner[o].my_msg_id_counter - 1
      BY <1>3, <2>1, <2>2, <3>1
    <3>3. k \in FirstId[o] .. partner[o].my_msg_id_counter - 1
      BY <1>3, <3>1, <3>2
    <3>4. QED
      BY <2>1, <2>2, <3>3
  <2>4. QED
    BY <2>3
<1>9. d.msg_kind = "m" => d.sender_msg_id \in DOMAIN numbered[o]
                          /\ d.data = numbered[o][d.sender_msg_id]
  BY DEF LinkInv, NetworkTellsTheTruth, o
<1>10. /\ Len(msgs) = r.his_msg_id_received - before.his_msg_id_received
       /\ \A i \in 1 .. Len(msgs) :
            /\ before.his_msg_id_received + i - 1 \in DOMAIN numbered[o]
            /\ msgs[i] = numbered[o][before.his_msg_id_received + i - 1]
       /\ \A id \in DOMAIN r.messages_received :
            id \in DOMAIN numbered[o] /\ r.messages_received[id] = numbered[o][id]
  <2>1. CASE d.msg_kind = "m"
    <3>1. \A k, b : Holds(acked, d.sender_msg_id, d.data, k, b) =>
                      k \in DOMAIN numbered[o] /\ b = numbered[o][k]
      BY <1>4, <1>8, <1>9, <2>1 DEF Holds
    <3>2. QED
      BY <1>2, <1>4, <2>1, <3>1 DEF Receives
  <2>2. CASE d.msg_kind = "p"
    <3>1. r = acked /\ msgs = << >> /\ Len(<< >>) = 0 /\ (1 .. 0) = {}
      BY <1>2, <2>2
    <3>2. before.his_msg_id_received - before.his_msg_id_received = 0
      BY <1>3
    <3>3. QED
      BY <1>4, <1>8, <3>1, <3>2
  <2>3. QED
    BY <1>1, <2>1, <2>2, WireType
<1>11. /\ before.my_msg_id_received <= r.my_msg_id_received
       /\ \A id \in DOMAIN r.messages_sent :
            /\ id \in DOMAIN before.messages_sent
            /\ r.messages_sent[id].msg = before.messages_sent[id].msg
       /\ \A id \in DOMAIN before.messages_sent :
            id >= r.my_msg_id_received => id \in DOMAIN r.messages_sent
  BY <1>4, <1>5
<1>12. /\ r.my_msg_id_counter = before.my_msg_id_counter
       /\ r.ack_window_size = before.ack_window_size
       /\ PartnerOK(r)
       /\ msgs \in Seq(Bodies)
       /\ partner' = [partner EXCEPT ![p] = r]
  BY <1>1, <1>2, <1>5 DEF Become
<1>13. Gets(p, r, msgs)
  BY <1>1, <1>6, <1>7, <1>10, <1>11, <1>12 DEF Gets, o
<1>14. QED
  BY <1>13

\* Receiving keeps the whole invariant, and takes nothing back.
LEMMA GetsKeepsInv ==
  ASSUME LinkInv, NEW p \in Peers, NEW r, NEW msgs, Gets(p, r, msgs)
  PROVE  /\ LinkInv'
         /\ \A s \in Peers :
              /\ partner'[s].my_msg_id_received >= partner[s].my_msg_id_received
              /\ partner'[s].his_msg_id_received >= partner[s].his_msg_id_received
<1> DEFINE o == Other(p)
           before == partner[p]
           his == before.his_msg_id_received
           first == FirstId[o]
           all == delivered[p] \o msgs
<1>1. /\ partner'[p] = r /\ partner'[o] = partner[o]
      /\ delivered'[p] = all /\ delivered'[o] = delivered[o]
      /\ net' = net /\ numbered' = numbered
      /\ o \in Peers /\ Other(p) = o /\ Other(o) = p /\ \A s \in Peers : s = p \/ s = o
  BY Others DEF LinkInv, TypeOK, Gets
<1>2. /\ PartnerOK(r)
      /\ msgs \in Seq(Bodies)
      /\ r.my_msg_id_counter = before.my_msg_id_counter
      /\ r.ack_window_size = before.ack_window_size
      /\ before.my_msg_id_received <= r.my_msg_id_received
      /\ r.my_msg_id_received <= partner[o].his_msg_id_received
      /\ \A id \in DOMAIN r.messages_sent :
           /\ id \in DOMAIN before.messages_sent
           /\ r.messages_sent[id].msg = before.messages_sent[id].msg
      /\ \A id \in DOMAIN before.messages_sent :
           id >= r.my_msg_id_received => id \in DOMAIN r.messages_sent
      /\ Len(msgs) = r.his_msg_id_received - his
      /\ \A i \in 1 .. Len(msgs) : his + i - 1 \in DOMAIN numbered[o]
                                   /\ msgs[i] = numbered[o][his + i - 1]
      /\ \A id \in DOMAIN r.messages_received :
           id \in DOMAIN numbered[o] /\ r.messages_received[id] = numbered[o][id]
  BY DEF Gets
<1> HIDE DEF o, all
<1>3. \A s \in Peers : /\ FirstId[s] \in Nat
                       /\ partner[s].his_msg_id_received \in Nat
                       /\ partner[s].my_msg_id_received \in Nat
                       /\ partner[s].my_msg_id_counter \in Nat
                       /\ partner[s].ack_window_size \in Nat
                       /\ delivered[s] \in Seq(Bodies)
  BY LinkAssumption DEF LinkInv, TypeOK, PartnerOK
<1>4. /\ r.his_msg_id_received \in Nat
      /\ r.my_msg_id_received \in Nat
      /\ Len(msgs) \in Nat
      /\ r.his_msg_id_received >= his
      /\ \A id \in DOMAIN r.messages_received : r.his_msg_id_received < id
  <2>1. /\ r.his_msg_id_received \in Nat
        /\ r.my_msg_id_received \in Nat
        /\ \A id \in DOMAIN r.messages_received : r.his_msg_id_received < id
    BY <1>2 DEF PartnerOK, IsAhead
  <2>2. Len(msgs) \in Nat
    BY <1>2, LenProperties
  <2>3. his \in Nat /\ Len(msgs) = r.his_msg_id_received - his
    BY <1>2, <1>3
  <2>4. QED
    BY <2>1, <2>2, <2>3
<1>5. /\ DOMAIN numbered[o] = first .. partner[o].my_msg_id_counter - 1
      /\ first <= his
      /\ partner[o].my_msg_id_received <= his
      /\ his <= partner[o].my_msg_id_counter
      /\ partner[o].his_msg_id_received <= before.my_msg_id_counter
  BY <1>1 DEF LinkInv, NumberedInOrder, AcknowledgedWasReceived
<1>6. r.his_msg_id_received <= partner[o].my_msg_id_counter
  <2>1. CASE Len(msgs) = 0
    BY <1>2, <1>3, <1>4, <1>5, <2>1
  <2>2. CASE Len(msgs) # 0
    <3>1. Len(msgs) \in 1 .. Len(msgs)
      BY <1>4, <2>2
    <3>2. his + Len(msgs) - 1 \in first .. partner[o].my_msg_id_counter - 1
      BY <1>2, <1>5, <3>1
    <3>3. his + Len(msgs) - 1 = r.his_msg_id_received - 1
      BY <1>2, <1>3, <1>4
    <3>4. QED
      BY <1>1, <1>3, <1>4, <3>2, <3>3
  <2>3. QED
    BY <2>1, <2>2
<1>7. AcknowledgedWasReceived'
  <2>1. partner[o].my_msg_id_received <= r.his_msg_id_received
    BY <1>1, <1>3, <1>4, <1>5
  <2>2. QED
    BY <1>1, <1>2, <1>5, <1>6, <2>1 DEF AcknowledgedWasReceived
<1>8. /\ all \in Seq(Bodies)
      /\ Len(all) = r.his_msg_id_received - first
      /\ \A i \in 1 .. Len(all) : /\ first + i - 1 \in DOMAIN numbered[o]
                                  /\ all[i] = numbered[o][first + i - 1]
  <2> DEFINE old == delivered[p]
  <2>1. old \in Seq(Bodies) /\ Len(old) \in Nat
    BY <1>3, LenProperties
  <2>2. /\ Len(old) = his - first
        /\ \A i \in 1 .. Len(old) : /\ first + i - 1 \in DOMAIN numbered[o]
                                    /\ old[i] = numbered[o][first + i - 1]
    BY <1>1 DEF LinkInv, DeliveredExactlyOnceInOrder
  <2>3. /\ all \in Seq(Bodies)
        /\ Len(all) = Len(old) + Len(msgs)
        /\ \A i \in 1 .. Len(old) + Len(msgs) :
             all[i] = IF i <= Len(old) THEN old[i] ELSE msgs[i - Len(old)]
    <3>1. msgs \in Seq(Bodies)
      BY <1>2
    <3>2. old \in Seq(Bodies)
      BY <2>1
    <3>3. all = old \o msgs
      BY DEF all
    <3> HIDE DEF old
    <3>4. QED
      BY <3>1, <3>2, <3>3, ConcatProperties
  <2>4. Len(all) = r.his_msg_id_received - first
    <3>1. his \in Nat /\ first \in Nat /\ r.his_msg_id_received \in Nat
      BY <1>1, <1>3, <1>4
    <3>2. Len(msgs) = r.his_msg_id_received - his
      BY <1>2
    <3>3. Len(all) = Len(old) + Len(msgs) /\ Len(old) = his - first
      BY <2>2, <2>3
    <3>4. QED
      BY <3>1, <3>2, <3>3
  <2>5. ASSUME NEW i \in 1 .. Len(all)
        PROVE  first + i - 1 \in DOMAIN numbered[o] /\ all[i] = numbered[o][first + i - 1]
    <3>1. CASE i <= Len(old)
      <4>1. i \in 1 .. Len(old) /\ i \in 1 .. Len(old) + Len(msgs)
        <5>1. /\ i \in 1 .. Len(old) + Len(msgs)
              /\ Len(old) \in Nat
              /\ Len(msgs) \in Nat
          BY <1>4, <2>1, <2>3
        <5>2. QED
          BY <3>1, <5>1
      <4>2. QED
        BY <2>2, <2>3, <3>1, <4>1
    <3>2. CASE i > Len(old)
      <4>1. /\ i - Len(old) \in 1 .. Len(msgs)
            /\ i \in 1 .. Len(old) + Len(msgs)
            /\ ~(i <= Len(old))
        <5>1. /\ i \in 1 .. Len(old) + Len(msgs)
              /\ Len(old) \in Nat
              /\ Len(msgs) \in Nat
          BY <1>4, <2>1, <2>3
        <5>2. QED
          BY <3>2, <5>1
      <4>2. his + (i - Len(old)) - 1 = first + i - 1
        <5>1. his \in Nat /\ first \in Nat /\ i \in Int
          BY <1>1, <1>3
        <5>2. Len(old) = his - first
          BY <2>2
        <5>3. QED
          BY <5>1, <5>2
      <4>3. all[i] = msgs[i - Len(old)]
        BY <2>3, <4>1
      <4>4. /\ his + (i - Len(old)) - 1 \in DOMAIN numbered[o]
            /\ msgs[i - Len(old)] = numbered[o][his + (i - Len(old)) - 1]
        BY <1>2, <4>1
      <4>5. QED
        BY <4>2, <4>3, <4>4
    <3>3. QED
      BY <2>1, <3>1, <3>2
  <2>6. QED
    BY <2>3, <2>4, <2>5
<1>9. DeliveredExactlyOnceInOrder'
  <2>1. /\ Len(delivered[o]) = partner[o].his_msg_id_received - FirstId[p]
        /\ \A i \in 1 .. Len(delivered[o]) :
             /\ FirstId[p] + i - 1 \in DOMAIN numbered[p]
             /\ delivered[o][i] = numbered[p][FirstId[p] + i - 1]
    BY <1>1 DEF LinkInv, DeliveredExactlyOnceInOrder
  <2>2. ASSUME NEW s \in Peers
        PROVE  LET from == Other(s)
               IN  /\ Len(delivered'[s]) = partner'[s].his_msg_id_received - FirstId[from]
                   /\ \A i \in 1 .. Len(delivered'[s]) :
                        /\ FirstId[from] + i - 1 \in DOMAIN numbered'[from]
                        /\ delivered'[s][i] = numbered'[from][FirstId[from] + i - 1]
    <3>1. CASE s = p
      BY <1>1, <1>8, <3>1
    <3>2. CASE s = o
      BY <1>1, <2>1, <3>2
    <3>3. QED
      BY <1>1, <3>1, <3>2
  <2>3. QED
    BY <2>2 DEF DeliveredExactlyOnceInOrder
<1>10. NumberedInOrder'
  <2>1. ASSUME NEW s \in Peers
        PROVE  /\ DOMAIN numbered[s] = FirstId[s] .. partner[s].my_msg_id_counter - 1
               /\ FirstId[s] <= partner[Other(s)].his_msg_id_received
               /\ \A id \in DOMAIN partner[s].messages_sent :
                    /\ id \in DOMAIN numbered[s]
                    /\ partner[s].messages_sent[id].msg = numbered[s][id]
    BY DEF LinkInv, NumberedInOrder
  <2>2. first <= r.his_msg_id_received
    BY <1>1, <1>3, <1>4, <1>5
  <2>3. ASSUME NEW s \in Peers
        PROVE  /\ DOMAIN numbered'[s] = FirstId[s] .. partner'[s].my_msg_id_counter - 1
               /\ FirstId[s] <= partner'[Other(s)].his_msg_id_received
               /\ \A id \in DOMAIN partner'[s].messages_sent :
                    /\ id \in DOMAIN numbered'[s]
                    /\ partner'[s].messages_sent[id].msg = numbered'[s][id]
    <3>1. CASE s = p
      BY <1>1, <1>2, <2>1, <3>1
    <3>2. CASE s = o
      BY <1>1, <2>1, <2>2, <3>2
    <3>3. QED
      BY <1>1, <3>1, <3>2
  <2>4. QED
    BY <2>3 DEF NumberedInOrder
<1>11. UnreceivedIsKept'
  <2>1. \A id \in partner[o].his_msg_id_received .. r.my_msg_id_counter - 1 :
          /\ id \in DOMAIN r.messages_sent
          /\ r.messages_sent[id].msg = numbered[p][id]
    <3>1. ASSUME NEW id \in partner[o].his_msg_id_received .. before.my_msg_id_counter - 1
          PROVE  /\ id \in DOMAIN r.messages_sent
                 /\ r.messages_sent[id].msg = numbered[p][id]
      <4>1. id \in DOMAIN before.messages_sent /\ before.messages_sent[id].msg = numbered[p][id]
        BY <1>1 DEF LinkInv, UnreceivedIsKept
      <4>2. id >= r.my_msg_id_received
        BY <1>1, <1>2, <1>3, <1>4
      <4>3. QED
        BY <1>2, <4>1, <4>2
    <3>2. QED
      BY <1>2, <3>1
  <2>2. \A id \in r.his_msg_id_received .. partner[o].my_msg_id_counter - 1 :
          /\ id \in DOMAIN partner[o].messages_sent
          /\ partner[o].messages_sent[id].msg = numbered[o][id]
    <3>1. \A id \in his .. partner[o].my_msg_id_counter - 1 :
            /\ id \in DOMAIN partner[o].messages_sent
            /\ partner[o].messages_sent[id].msg = numbered[o][id]
      BY <1>1 DEF LinkInv, UnreceivedIsKept
    <3>2. QED
      BY <1>1, <1>3, <1>4, <3>1
  <2>3. QED
    BY <1>1, <2>1, <2>2 DEF UnreceivedIsKept
<1>12. BufferedIsAhead'
  <2>1. \A id \in DOMAIN r.messages_received :
          /\ id > r.his_msg_id_received
          /\ id < partner[o].my_msg_id_counter
          /\ r.messages_received[id] = numbered[o][id]
    <3>1. \A id \in DOMAIN numbered[o] : id \in Nat /\ id < partner[o].my_msg_id_counter
      BY <1>1, <1>3, <1>5
    <3>2. QED
      BY <1>2, <1>4, <3>1
  <2>2. \A id \in DOMAIN partner[o].messages_received :
          /\ id > partner[o].his_msg_id_received
          /\ id < r.my_msg_id_counter
          /\ partner[o].messages_received[id] = numbered[p][id]
    BY <1>1, <1>2 DEF LinkInv, BufferedIsAhead
  <2>3. QED
    BY <1>1, <2>1, <2>2 DEF BufferedIsAhead
<1>13. WindowFits'
  <2>1. \A s \in Peers : /\ partner[s].ack_window_size + 1 <= msg_id_end \div 2
                         /\ count_unacknowledged_messages(partner[s]) <= msg_id_end \div 2
    BY DEF LinkInv, WindowFits
  <2>2. count_unacknowledged_messages(r) <= msg_id_end \div 2
    <3>1. msg_id_end \div 2 \in Nat
      BY MsgIdEndAssumption
    <3>2. count_unacknowledged_messages(before) <= msg_id_end \div 2
      BY <2>1
    <3>3. QED
      BY <1>2, <1>3, <1>4, <3>1, <3>2 DEF count_unacknowledged_messages
  <2>3. QED
    BY <1>1, <1>2, <2>1, <2>2 DEF WindowFits
<1>14. NetworkTellsTheTruth'
  <2>1. ASSUME NEW s \in Peers, NEW d \in net[s]
        PROVE  /\ d.receiver_msg_id <= partner'[Other(s)].his_msg_id_received
               /\ d.msg_kind = "m" => /\ d.sender_msg_id \in DOMAIN numbered[Other(s)]
                                      /\ d.data = numbered[Other(s)][d.sender_msg_id]
    <3>1. /\ d.receiver_msg_id <= partner[Other(s)].his_msg_id_received
          /\ d.msg_kind = "m" => /\ d.sender_msg_id \in DOMAIN numbered[Other(s)]
                                 /\ d.data = numbered[Other(s)][d.sender_msg_id]
      BY DEF LinkInv, NetworkTellsTheTruth
    <3>2. d.receiver_msg_id \in Nat
      BY WireType DEF LinkInv, TypeOK
    <3>3. partner[Other(s)].his_msg_id_received <= partner'[Other(s)].his_msg_id_received
      BY <1>1, <1>3, <1>4
    <3>4. partner'[Other(s)].his_msg_id_received \in Nat
          /\ partner[Other(s)].his_msg_id_received \in Nat
      BY <1>1, <1>3, <1>4
    <3>5. QED
      BY <3>1, <3>2, <3>3, <3>4
  <2>2. QED
    BY <1>1, <2>1 DEF NetworkTellsTheTruth
<1>15. TypeOK'
  <2>1. partner' = [s \in Peers |-> partner'[s]] /\ \A s \in Peers : PartnerOK(partner'[s])
    BY <1>1, <1>2 DEF LinkInv, TypeOK, Gets
  <2>2. delivered' \in [Peers -> Seq(Bodies)]
    BY <1>8 DEF LinkInv, TypeOK, Gets, all
  <2>3. receiving' \in [Peers -> BOOLEAN]
    BY DEF LinkInv, TypeOK, Gets
  <2>4. QED
    BY <2>1, <2>2, <2>3 DEF LinkInv, TypeOK, Gets
<1>16. \A s \in Peers :
         /\ partner'[s].my_msg_id_received >= partner[s].my_msg_id_received
         /\ partner'[s].his_msg_id_received >= partner[s].his_msg_id_received
  <2>1. ASSUME NEW s \in Peers
        PROVE  /\ partner'[s].my_msg_id_received >= partner[s].my_msg_id_received
               /\ partner'[s].his_msg_id_received >= partner[s].his_msg_id_received
    <3>1. CASE s = p
      BY <1>1, <1>2, <1>3, <1>4, <3>1
    <3>2. CASE s # p
      BY <1>1, <1>2, <1>3, <3>2
    <3>3. QED
      BY <3>1, <3>2
  <2>2. QED
    BY <2>1
<1>17. QED
  BY <1>7, <1>9, <1>10, <1>11, <1>12, <1>13, <1>14, <1>15, <1>16 DEF LinkInv

-----------------------------------------------------------------------------

\* A new connection satisfies the invariant.
LEMMA InitInv == Init => LinkInv
<1> SUFFICES ASSUME Init PROVE LinkInv
  OBVIOUS
<1>1. \A p \in Peers : /\ FirstId[p] \in Nat
                       /\ partner[p] = NewPartner(FirstId[p], FirstId[Other(p)])
                       /\ net[p] = {} /\ numbered[p] = EmptyMap /\ delivered[p] = << >>
                       /\ Other(p) \in Peers /\ Other(Other(p)) = p
  BY LinkAssumption, Others DEF Init
<1>2. \A p \in Peers : /\ partner[p].his_msg_id_received = FirstId[Other(p)]
                       /\ partner[p].my_msg_id_received = FirstId[p]
                       /\ partner[p].my_msg_id_counter = FirstId[p]
                       /\ partner[p].ack_window_size = AckWindowInit
                       /\ DOMAIN partner[p].messages_sent = {}
                       /\ DOMAIN partner[p].messages_received = {}
                       /\ PartnerOK(partner[p])
                       /\ DOMAIN numbered[p] = {}
  <2>1. DOMAIN EmptyMap = {}
    BY DEF EmptyMap
  <2>2. ASSUME NEW p \in Peers
        PROVE  /\ partner[p].his_msg_id_received = FirstId[Other(p)]
               /\ partner[p].my_msg_id_received = FirstId[p]
               /\ partner[p].my_msg_id_counter = FirstId[p]
               /\ partner[p].ack_window_size = AckWindowInit
               /\ partner[p].messages_sent = EmptyMap
               /\ partner[p].messages_received = EmptyMap
    <3>1. partner[p] = NewPartner(FirstId[p], FirstId[Other(p)])
      BY <1>1
    <3>2. QED
      BY <3>1 DEF NewPartner
  <2>3. \A p \in Peers : PartnerOK(partner[p])
    BY <1>1, NewPartnerOK
  <2>4. QED
    BY <1>1, <2>1, <2>2, <2>3
<1>3. \A p \in Peers : FirstId[p] .. FirstId[p] - 1 = {}
  BY <1>1
<1>4. TypeOK
  <2>1. IsMap(EmptyMap, Bodies)
    BY DEF IsMap, EmptyMap
  <2>2. << >> \in Seq(Bodies)
    OBVIOUS
  <2>3. QED
    BY <1>1, <1>2, <2>1, <2>2 DEF Init, TypeOK
<1>5. AcknowledgedWasReceived
  BY <1>1, <1>2 DEF AcknowledgedWasReceived
<1>6. DeliveredExactlyOnceInOrder
  <2>1. Len(<< >>) = 0 /\ (1 .. 0) = {} /\ \A p \in Peers : FirstId[p] - FirstId[p] = 0
    BY <1>1
  <2>2. QED
    BY <1>1, <1>2, <2>1 DEF DeliveredExactlyOnceInOrder
<1>7. UnreceivedIsKept
  <2>1. ASSUME NEW p \in Peers
        PROVE  partner[Other(p)].his_msg_id_received .. partner[p].my_msg_id_counter - 1 = {}
    BY <1>1, <1>2, <1>3
  <2>2. QED
    BY <2>1 DEF UnreceivedIsKept
<1>8. BufferedIsAhead
  BY <1>2 DEF BufferedIsAhead
<1>9. NumberedInOrder
  <2>1. ASSUME NEW p \in Peers
        PROVE  /\ DOMAIN numbered[p] = FirstId[p] .. partner[p].my_msg_id_counter - 1
               /\ FirstId[p] <= partner[Other(p)].his_msg_id_received
               /\ DOMAIN partner[p].messages_sent = {}
    <3>1. partner[Other(p)].his_msg_id_received = FirstId[p] /\ FirstId[p] <= FirstId[p]
      BY <1>1, <1>2
    <3>2. QED
      BY <1>2, <1>3, <3>1
  <2>2. QED
    BY <2>1 DEF NumberedInOrder
<1>10. WindowFits
  <2>1. AckWindowInit + 1 <= msg_id_end \div 2 /\ msg_id_end \div 2 \in Nat
    BY LinkAssumption, MsgIdEndAssumption
  <2>2. \A p \in Peers : FirstId[p] - FirstId[p] = 0
    BY <1>1
  <2>3. QED
    BY <1>2, <2>1, <2>2 DEF WindowFits, count_unacknowledged_messages
<1>11. NetworkTellsTheTruth
  BY <1>1 DEF NetworkTellsTheTruth
<1>12. QED
  BY <1>4, <1>5, <1>6, <1>7, <1>8, <1>9, <1>10, <1>11 DEF LinkInv

\* Every step keeps it, and takes no acknowledgement back.
LEMMA NextInv ==
  ASSUME LinkInv, [Next]_vars
  PROVE  /\ LinkInv'
         /\ \A r \in Peers :
              /\ partner'[r].my_msg_id_received >= partner[r].my_msg_id_received
              /\ partner'[r].his_msg_id_received >= partner[r].his_msg_id_received
<1>1. CASE Next
  <2>1. PICK p \in Peers :
          \/ \E ok \in {TRUE, ~SendMayFail} : Send(p, ok)
          \/ \E d \in net[p], survive \in 0 .. HistoryMax - 1 : Receive(p, d, survive)
          \/ \E expired \in SUBSET DOMAIN partner[p].messages_sent,
                failed \in Failures(p), ping \in BOOLEAN :
               SendAll(p, expired, failed, ping, Lossy)
    BY <1>1 DEF Next
  <2>2. CASE \E ok \in {TRUE, ~SendMayFail} : Send(p, ok)
    <3>1. PICK ok \in {TRUE, ~SendMayFail} : Send(p, ok)
      BY <2>2
    <3>2. ok \in BOOLEAN
      BY LinkAssumption
    <3>3. \E q, out : Sends(p, q, out)
      BY <3>1, <3>2, SendSends DEF LinkInv
    <3>4. QED
      BY <3>3, SendsKeepsInv
  <2>3. CASE \E d \in net[p], survive \in 0 .. HistoryMax - 1 : Receive(p, d, survive)
    <3>1. PICK d \in net[p], survive \in 0 .. HistoryMax - 1 : Receive(p, d, survive)
      BY <2>3
    <3>2. survive \in Nat
      OBVIOUS
    <3>3. \E r, msgs : Gets(p, r, msgs)
      BY <3>1, <3>2, ReceiveGets
    <3>4. QED
      BY <3>3, GetsKeepsInv
  <2>4. CASE \E expired \in SUBSET DOMAIN partner[p].messages_sent,
                failed \in Failures(p), ping \in BOOLEAN :
               SendAll(p, expired, failed, ping, Lossy)
    <3>1. \E q, out : Sends(p, q, out)
      BY <2>4, SendAllSends DEF LinkInv
    <3>2. QED
      BY <3>1, SendsKeepsInv
  <2>5. QED
    BY <2>1, <2>2, <2>3, <2>4
<1>2. CASE UNCHANGED vars
  <2>1. \A r \in Peers : /\ partner[r].my_msg_id_received \in Nat
                         /\ partner[r].his_msg_id_received \in Nat
    BY DEF LinkInv, TypeOK, PartnerOK
  <2>2. LinkInv'
    BY <1>2 DEF vars, LinkInv, TypeOK, AcknowledgedWasReceived, DeliveredExactlyOnceInOrder,
                UnreceivedIsKept, BufferedIsAhead, NumberedInOrder, WindowFits,
                NetworkTellsTheTruth
  <2>3. partner' = partner
    BY <1>2 DEF vars
  <2>4. QED
    BY <2>1, <2>2, <2>3
<1>3. QED
  BY <1>1, <1>2

-----------------------------------------------------------------------------
(* Each message sent is in one place *)

\* A message goes to the end of the queue,
LEMMA PlaceQueued ==
  ASSUME NEW sent \in Nat, NEW done, NEW queue \in Seq(Bodies), HasOnePlace(sent, done, queue)
  PROVE  HasOnePlace(sent + 1, done, Append(queue, sent + 1))
<1> DEFINE after == Append(queue, sent + 1)
<1>1. /\ DOMAIN after = (DOMAIN queue) \cup {Len(queue) + 1}
      /\ Len(queue) + 1 \notin DOMAIN queue
      /\ \A i \in DOMAIN queue : after[i] = queue[i]
      /\ after[Len(queue) + 1] = sent + 1
  OBVIOUS
<1>2. 1 .. sent + 1 = (1 .. sent) \cup {sent + 1} /\ sent + 1 \notin 1 .. sent
  OBVIOUS
<1> HIDE DEF after
<1>3. QED
  BY <1>1, <1>2 DEF HasOnePlace, after

\* or is numbered at once,
LEMMA PlaceNumbered ==
  ASSUME NEW sent \in Nat, NEW done, NEW queue, HasOnePlace(sent, done, queue),
         NEW c, c \notin DOMAIN done, NEW after,
         after = [id \in DOMAIN done \cup {c} |-> IF id = c THEN sent + 1 ELSE done[id]]
  PROVE  HasOnePlace(sent + 1, after, queue)
<1>1. /\ DOMAIN after = DOMAIN done \cup {c}
      /\ after[c] = sent + 1
      /\ \A id \in DOMAIN done : after[id] = done[id]
  OBVIOUS
<1>2. 1 .. sent + 1 = (1 .. sent) \cup {sent + 1} /\ sent + 1 \notin 1 .. sent
  OBVIOUS
<1>3. QED
  BY <1>1, <1>2 DEF HasOnePlace

\* and the first n of the queue are numbered later.
LEMMA PlaceDrained ==
  ASSUME NEW sent \in Nat, NEW done, NEW queue \in Seq(Bodies), HasOnePlace(sent, done, queue),
         NEW n \in 0 .. Len(queue), NEW c \in Nat, NEW after,
         DOMAIN done \cap (c .. c + n - 1) = {},
         after = [id \in DOMAIN done \cup (c .. c + n - 1) |->
                    IF id \in c .. c + n - 1 THEN queue[id - c + 1] ELSE done[id]]
  PROVE  HasOnePlace(sent, after, SubSeq(queue, n + 1, Len(queue)))
<1> DEFINE fresh == c .. c + n - 1
           rest == SubSeq(queue, n + 1, Len(queue))
           at(id) == id - c + 1
<1>1. /\ DOMAIN rest = 1 .. Len(queue) - n
      /\ DOMAIN queue = 1 .. Len(queue)
      /\ Len(queue) \in Nat
      /\ \A i \in 1 .. Len(queue) - n : rest[i] = queue[n + i]
  BY SubSeqProperties
<1>2. /\ DOMAIN after = DOMAIN done \cup fresh
      /\ \A id \in DOMAIN done : after[id] = done[id]
      /\ \A id \in fresh : after[id] = queue[at(id)]
  OBVIOUS
<1>3. \A id \in fresh : at(id) \in DOMAIN queue /\ at(id) \in 1 .. n
  BY <1>1
<1>4. \A id, other \in fresh : at(id) = at(other) => id = other
  OBVIOUS
<1>5. \A i \in DOMAIN rest : /\ n + i \in DOMAIN queue /\ n + i \notin 1 .. n
                             /\ rest[i] = queue[n + i]
  BY <1>1
<1>6. \A i, j \in DOMAIN rest : n + i = n + j => i = j
  BY <1>1
<1>7. ASSUME NEW i \in DOMAIN queue
      PROVE  \/ \E id \in fresh : after[id] = queue[i]
             \/ \E k \in DOMAIN rest : rest[k] = queue[i]
  <2>1. CASE i <= n
    <3>1. c + i - 1 \in fresh /\ at(c + i - 1) = i
      BY <1>1, <2>1
    <3>2. QED
      BY <1>2, <3>1
  <2>2. CASE i > n
    <3>1. i - n \in DOMAIN rest /\ rest[i - n] = queue[i]
      BY <1>1, <2>2
    <3>2. QED
      BY <3>1
  <2>3. i <= n \/ i > n
    BY <1>1
  <2>4. QED
    BY <2>1, <2>2, <2>3
<1> HIDE DEF rest, fresh, at
<1>8. \A id, other \in DOMAIN after : after[id] = after[other] => id = other
  BY <1>2, <1>3, <1>4 DEF HasOnePlace
<1>9. \A i, j \in DOMAIN rest : rest[i] = rest[j] => i = j
  BY <1>5, <1>6 DEF HasOnePlace
<1>10. \A id \in DOMAIN after, i \in DOMAIN rest : after[id] # rest[i]
  <2>1. ASSUME NEW i \in DOMAIN rest, NEW id \in DOMAIN done PROVE after[id] # rest[i]
    BY <1>2, <1>5 DEF HasOnePlace
  <2>2. ASSUME NEW i \in DOMAIN rest, NEW id \in fresh PROVE after[id] # rest[i]
    BY <1>2, <1>3, <1>5 DEF HasOnePlace
  <2>3. QED
    BY <1>2, <2>1, <2>2
<1>11. /\ \A id \in DOMAIN after : after[id] \in 1 .. sent
       /\ \A i \in DOMAIN rest : rest[i] \in 1 .. sent
  BY <1>2, <1>3, <1>5 DEF HasOnePlace
<1>12. ASSUME NEW k \in 1 .. sent
       PROVE  \/ \E id \in DOMAIN after : after[id] = k
              \/ \E i \in DOMAIN rest : rest[i] = k
  <2>1. CASE \E id \in DOMAIN done : done[id] = k
    BY <1>2, <2>1
  <2>2. CASE \E i \in DOMAIN queue : queue[i] = k
    <3>1. PICK i \in DOMAIN queue : queue[i] = k
      BY <2>2
    <3>2. \/ \E id \in fresh : after[id] = k
          \/ \E j \in DOMAIN rest : rest[j] = k
      BY <1>7, <3>1
    <3>3. QED
      BY <1>2, <3>2
  <2>3. QED
    BY <2>1, <2>2 DEF HasOnePlace
<1>13. QED
  BY <1>8, <1>9, <1>10, <1>11, <1>12 DEF HasOnePlace, rest

\* A step of p moves none of the other side's messages.
LEMMA PlacesOf ==
  ASSUME TypeOK, QueuedOrNumbered, NEW p \in Peers, NEW q, NEW sent, NEW done,
         partner' = [partner EXCEPT ![p] = q],
         submitted' = [submitted EXCEPT ![p] = sent],
         numbered' = [numbered EXCEPT ![p] = done],
         HasOnePlace(sent, done, q.queue_to_send)
  PROVE  QueuedOrNumbered'
<1> SUFFICES ASSUME NEW o \in Peers
             PROVE  HasOnePlace(submitted'[o], numbered'[o], partner'[o].queue_to_send)
  BY DEF QueuedOrNumbered
<1>1. CASE o = p
  <2>1. submitted'[o] = sent /\ numbered'[o] = done /\ partner'[o] = q
    BY <1>1 DEF TypeOK
  <2>2. QED
    BY <2>1
<1>2. CASE o # p
  <2>1. submitted'[o] = submitted[o] /\ numbered'[o] = numbered[o] /\ partner'[o] = partner[o]
    BY <1>2 DEF TypeOK
  <2>2. QED
    BY <2>1 DEF QueuedOrNumbered
<1>3. QED
  BY <1>1, <1>2

\* send() numbers the message or queues it.
LEMMA SendKeepsPlaces ==
  ASSUME LinkInv, QueuedOrNumbered, NEW p \in Peers, NEW ok \in BOOLEAN, Send(p, ok)
  PROVE  QueuedOrNumbered'
<1> DEFINE sent == submitted[p]
           body == sent + 1
           before == partner[p]
           done == numbered[p]
           one == prepare_messages_to_send(before, <<body>>)
           id == before.my_msg_id_counter
<1>1. /\ TypeOK /\ PartnerOK(before) /\ sent \in Nat /\ body \in Bodies /\ id \in Nat
      /\ <<body>> \in Seq(Bodies) /\ Len(<<body>>) = 1 /\ <<body>>[1] = body
  BY DEF LinkInv, TypeOK, PartnerOK, Bodies
<1>2. HasOnePlace(sent, done, before.queue_to_send)
  BY DEF QueuedOrNumbered
<1>3. id \notin DOMAIN done
  <2>1. DOMAIN done = FirstId[p] .. id - 1
    BY DEF LinkInv, NumberedInOrder
  <2>2. FirstId[p] \in Nat
    BY LinkAssumption
  <2> HIDE DEF id, done
  <2>3. QED
    BY <1>1, <2>1, <2>2
<1>4. submitted' = [submitted EXCEPT ![p] = body]
  BY DEF Send
<1>5. CASE can_send_messages(before)
  <2> DEFINE q == IF ok THEN note_sent(one, {id}) ELSE one
  <2>1. Become(p, q)
    BY <1>5 DEF Send
  <2>2. /\ PartnerOK(one)
        /\ one.my_msg_id_counter = id + 1
        /\ one.queue_to_send = before.queue_to_send
        /\ id \in DOMAIN one.messages_sent
        /\ one.messages_sent[id].msg = body
    <3> DEFINE bodies == <<body>>
    <3>1. id \in id .. id + 1 - 1 /\ id - id + 1 = 1
      BY <1>1
    <3>2. bodies \in Seq(Bodies) /\ Len(bodies) = 1 /\ bodies[1] = body
      BY <1>1
    <3>3. one = prepare_messages_to_send(before, bodies)
      OBVIOUS
    <3> HIDE DEF bodies, one, before
    <3>4. /\ PartnerOK(one)
          /\ one.my_msg_id_counter = id + 1
          /\ one.queue_to_send = before.queue_to_send
      BY <1>1, <3>2, <3>3, PrepareOK, PrepareNumbers
    <3>5. \A k \in id .. id + 1 - 1 : /\ k \in DOMAIN one.messages_sent
                                     /\ one.messages_sent[k].msg = bodies[k - id + 1]
      BY <1>1, <3>2, <3>3, PrepareNumbers
    <3>6. QED
      BY <3>1, <3>2, <3>4, <3>5
  <2> HIDE DEF one
  <2>3. /\ q.my_msg_id_counter = id + 1
        /\ q.queue_to_send = before.queue_to_send
        /\ q.messages_sent[id].msg = body
    BY <2>2, NoteSentOK, BookkeepingKeepsQueue
  <2> HIDE DEF q
  <2> DEFINE after == [k \in DOMAIN done \cup {id} |-> IF k = id THEN sent + 1 ELSE done[k]]
  <2>4. /\ partner' = [partner EXCEPT ![p] = q]
        /\ numbered' = [numbered EXCEPT ![p] =
             [k \in DOMAIN @ \cup (id .. q.my_msg_id_counter - 1) |->
                IF k \in id .. q.my_msg_id_counter - 1 THEN q.messages_sent[k].msg ELSE @[k]]]
    BY <2>1 DEF Become
  <2>5. id .. q.my_msg_id_counter - 1 = {id}
    BY <1>1, <2>3
  <2>6. numbered' = [numbered EXCEPT ![p] = after]
    BY <2>3, <2>4, <2>5
  <2>7. after = [k \in DOMAIN done \cup {id} |-> IF k = id THEN sent + 1 ELSE done[k]]
    OBVIOUS
  <2> HIDE DEF after
  <2>9. HasOnePlace(body, after, q.queue_to_send)
    <3> HIDE DEF sent, done, id
    <3>1. HasOnePlace(sent + 1, after, before.queue_to_send)
      BY <1>1, <1>2, <1>3, <2>7, PlaceNumbered
    <3>2. QED
      BY <2>3, <3>1
  <2>8. QED
    BY <1>1, <1>4, <2>4, <2>6, <2>9, PlacesOf
<1>6. CASE ~can_send_messages(before)
  <2> DEFINE queue == Append(before.queue_to_send, body)
             q == [before EXCEPT !.queue_to_send = queue]
  <2>1. Become(p, q)
    BY <1>6 DEF Send
  <2>2. q.queue_to_send = queue /\ q.my_msg_id_counter = id
    BY <1>1 DEF PartnerOK, IsPartner
  <2>3. HasOnePlace(body, done, queue)
    BY <1>1, <1>2, PlaceQueued DEF PartnerOK
  <2> HIDE DEF q, queue
  <2>4. /\ partner' = [partner EXCEPT ![p] = q]
        /\ numbered' = [numbered EXCEPT ![p] =
             [k \in DOMAIN @ \cup (id .. q.my_msg_id_counter - 1) |->
                IF k \in id .. q.my_msg_id_counter - 1 THEN q.messages_sent[k].msg ELSE @[k]]]
    BY <2>1 DEF Become
  <2>5. id .. q.my_msg_id_counter - 1 = {}
    BY <1>1, <2>2
  <2>6. done = [k \in DOMAIN done |-> done[k]]
    BY <1>1 DEF TypeOK, IsMap
  <2>7. numbered' = [numbered EXCEPT ![p] = done]
    BY <2>4, <2>5, <2>6
  <2>8. HasOnePlace(body, done, q.queue_to_send)
    BY <2>2, <2>3
  <2>9. QED
    BY <1>1, <1>4, <2>4, <2>7, <2>8, PlacesOf
<1>7. QED
  BY <1>5, <1>6

\* An iteration of the receiving thread numbers the first of the queue.
LEMMA SendAllKeepsPlaces ==
  ASSUME LinkInv, QueuedOrNumbered, NEW p \in Peers, NEW expired, NEW failed,
         NEW ping \in BOOLEAN, NEW lossy, SendAll(p, expired, failed, ping, lossy)
  PROVE  QueuedOrNumbered'
<1> DEFINE sent == submitted[p]
           before == partner[p]
           done == numbered[p]
           queue == before.queue_to_send
           drained == drain_queue_to_send(before)
           id == before.my_msg_id_counter
<1>1. /\ TypeOK /\ PartnerOK(before) /\ sent \in Nat /\ id \in Nat /\ queue \in Seq(Bodies)
  BY DEF LinkInv, TypeOK, PartnerOK
<1>2. HasOnePlace(sent, done, queue)
  BY DEF QueuedOrNumbered
<1>3. DOMAIN done = FirstId[p] .. id - 1 /\ FirstId[p] \in Nat
  BY LinkAssumption DEF LinkInv, NumberedInOrder
<1>4. PICK due, ids :
        Become(p, note_sent(IF failed = {} THEN update_window(drained, due) ELSE drained, ids))
  BY DEF SendAll
<1>5. submitted' = submitted
  BY DEF SendAll
<1>6. PartnerOK(drained)
  BY <1>1, DrainOK
<1>7. PICK n \in 0 .. Len(queue) :
        /\ drained.my_msg_id_counter = id + n
        /\ drained.queue_to_send = SubSeq(queue, n + 1, Len(queue))
        /\ \A k \in id .. id + n - 1 : /\ k \in DOMAIN drained.messages_sent
                                       /\ drained.messages_sent[k].msg = queue[k - id + 1]
  BY <1>1, DrainNumbers
<1> HIDE DEF drained
<1> DEFINE w == IF failed = {} THEN update_window(drained, due) ELSE drained
           q == note_sent(w, ids)
<1>8. /\ PartnerOK(w)
      /\ w.my_msg_id_counter = drained.my_msg_id_counter
      /\ w.queue_to_send = drained.queue_to_send
      /\ w.messages_sent = drained.messages_sent
  BY <1>6, UpdateWindowOK, BookkeepingKeepsQueue
<1> HIDE DEF w
<1>9. /\ q.my_msg_id_counter = w.my_msg_id_counter
      /\ q.queue_to_send = w.queue_to_send
      /\ \A k \in DOMAIN w.messages_sent : q.messages_sent[k].msg = w.messages_sent[k].msg
  BY <1>8, NoteSentOK, BookkeepingKeepsQueue
<1>10. Become(p, q)
  BY <1>4 DEF w
<1> HIDE DEF q
<1> DEFINE after == [k \in DOMAIN done \cup (id .. id + n - 1) |->
                       IF k \in id .. id + n - 1 THEN queue[k - id + 1] ELSE done[k]]
<1>11. /\ partner' = [partner EXCEPT ![p] = q]
       /\ numbered' = [numbered EXCEPT ![p] =
            [k \in DOMAIN @ \cup (id .. q.my_msg_id_counter - 1) |->
               IF k \in id .. q.my_msg_id_counter - 1 THEN q.messages_sent[k].msg ELSE @[k]]]
  BY <1>10 DEF Become
<1>12. \A k \in id .. id + n - 1 : q.messages_sent[k].msg = queue[k - id + 1]
  BY <1>7, <1>8, <1>9
<1>13. numbered' = [numbered EXCEPT ![p] = after]
  <2>1. q.my_msg_id_counter = id + n
    BY <1>7, <1>8, <1>9
  <2> HIDE DEF id, queue
  <2> DEFINE upTo(last) == [k \in DOMAIN done \cup (id .. last) |->
                              IF k \in id .. last THEN q.messages_sent[k].msg ELSE done[k]]
  <2>2. numbered' = [numbered EXCEPT ![p] = upTo(q.my_msg_id_counter - 1)]
    BY <1>11
  <2>3. upTo(id + n - 1) = after
    BY <1>12
  <2>4. q.my_msg_id_counter - 1 = id + n - 1
    <3>1. Len(queue) \in Nat
      BY <1>1, LenProperties
    <3>2. QED
      BY <1>1, <2>1, <3>1
  <2> DEFINE last == q.my_msg_id_counter - 1
             end == id + n - 1
  <2> HIDE DEF after, upTo, last, end
  <2>5. numbered' = [numbered EXCEPT ![p] = upTo(last)] /\ upTo(end) = after /\ last = end
    BY <2>2, <2>3, <2>4 DEF last, end
  <2>6. QED
    BY <2>5
<1>14. DOMAIN done \cap (id .. id + n - 1) = {}
  <2> HIDE DEF id, done
  <2>1. QED
    BY <1>1, <1>3
<1>15. HasOnePlace(sent, after, q.queue_to_send)
  <2>1. after = [k \in DOMAIN done \cup (id .. id + n - 1) |->
                   IF k \in id .. id + n - 1 THEN queue[k - id + 1] ELSE done[k]]
    OBVIOUS
  <2>2. q.queue_to_send = SubSeq(queue, n + 1, Len(queue))
    BY <1>7, <1>8, <1>9
  <2> HIDE DEF after, id, queue, sent, done
  <2>3. HasOnePlace(sent, after, SubSeq(queue, n + 1, Len(queue)))
    BY <1>1, <1>2, <1>14, <2>1, PlaceDrained
  <2>4. QED
    BY <2>2, <2>3
<1> HIDE DEF after
<1>16. submitted' = [submitted EXCEPT ![p] = sent]
  BY <1>1, <1>5 DEF TypeOK
<1>17. QED
  BY <1>1, <1>11, <1>13, <1>15, <1>16, PlacesOf

\* Whatever arrives numbers nothing and takes nothing out of the queue.
LEMMA ReceiveKeepsPlaces ==
  ASSUME LinkInv, QueuedOrNumbered, NEW p \in Peers, NEW d \in net[p], NEW survive \in Nat,
         Receive(p, d, survive)
  PROVE  QueuedOrNumbered'
<1> DEFINE before == partner[p]
           r == handle_valid_message(before, Wire(d), survive).partner
<1>1. TypeOK /\ PartnerOK(before) /\ submitted' = submitted /\ Become(p, r)
  BY DEF LinkInv, TypeOK, Receive
<1>2. r.queue_to_send = before.queue_to_send
  BY <1>1, ReceivingKeepsQueue
<1> HIDE DEF r
<1>3. PICK s, msgs : Gets(p, s, msgs)
  BY ReceiveGets
<1>4. numbered' = numbered
  BY <1>3 DEF Gets
<1>5. partner' = [partner EXCEPT ![p] = r]
  BY <1>1 DEF Become
<1>6. /\ submitted' = [submitted EXCEPT ![p] = submitted[p]]
      /\ numbered' = [numbered EXCEPT ![p] = numbered[p]]
  BY <1>1, <1>4 DEF TypeOK
<1>7. HasOnePlace(submitted[p], numbered[p], r.queue_to_send)
  BY <1>2 DEF QueuedOrNumbered
<1>8. QED
  BY <1>1, <1>5, <1>6, <1>7, PlacesOf

\* The invariant of the connection, for every value of the constants.
THEOREM LinkIsSafe == Spec => []LinkInv
<1>1. LinkInv /\ [Next]_vars => LinkInv'
  BY NextInv
<1>2. QED
  BY InitInv, <1>1, PTL DEF Spec

\* Type correctness of struct Partner, the datagrams and what the users see.
THEOREM TypeCorrect == Spec => []TypeOK
<1>1. LinkInv => TypeOK
  BY DEF LinkInv
<1>2. QED
  BY LinkIsSafe, <1>1, PTL

\* Whatever the network does, what p takes for acknowledged the other side has
\* received, and what it has received p has numbered.
THEOREM AcknowledgementsAreTrue == Spec => []AcknowledgedWasReceived
<1>1. LinkInv => AcknowledgedWasReceived
  BY DEF LinkInv
<1>2. QED
  BY LinkIsSafe, <1>1, PTL

\* The user gets every numbered message once, in the order of the numbers.
THEOREM DeliveryIsExact == Spec => []DeliveredExactlyOnceInOrder
<1>1. LinkInv => DeliveredExactlyOnceInOrder
  BY DEF LinkInv
<1>2. QED
  BY LinkIsSafe, <1>1, PTL

\* A message the other side has not received is never dropped by the sender.
THEOREM NothingIsLost == Spec => []UnreceivedIsKept
<1>1. LinkInv => UnreceivedIsKept
  BY DEF LinkInv
<1>2. QED
  BY LinkIsSafe, <1>1, PTL

\* compute_missing_count's assertion holds, and only true messages are buffered.
THEOREM BufferIsAhead == Spec => []BufferedIsAhead
<1>1. LinkInv => BufferedIsAhead
  BY DEF LinkInv
<1>2. QED
  BY LinkIsSafe, <1>1, PTL

\* However the window and the queue change, no message is forgotten on the way to
\* the wire and none is sent under two numbers.
THEOREM NoMessageIsForgotten == Spec => []QueuedOrNumbered
<1>1. Init => QueuedOrNumbered
  <2> SUFFICES ASSUME Init, NEW p \in Peers
               PROVE  HasOnePlace(submitted[p], numbered[p], partner[p].queue_to_send)
    BY DEF QueuedOrNumbered
  <2>1. submitted[p] = 0 /\ DOMAIN numbered[p] = {} /\ partner[p].queue_to_send = << >>
    BY DEF Init, EmptyMap, NewPartner
  <2>2. QED
    BY <2>1 DEF HasOnePlace
<1>2. LinkInv /\ QueuedOrNumbered /\ [Next]_vars => QueuedOrNumbered'
  <2> SUFFICES ASSUME LinkInv, QueuedOrNumbered, [Next]_vars PROVE QueuedOrNumbered'
    OBVIOUS
  <2>1. CASE UNCHANGED vars
    BY <2>1 DEF vars, QueuedOrNumbered
  <2>2. ASSUME NEW p \in Peers, NEW ok \in {TRUE, ~SendMayFail}, Send(p, ok)
        PROVE  QueuedOrNumbered'
    <3>1. ok \in BOOLEAN
      BY LinkAssumption
    <3>2. QED
      BY <2>2, <3>1, SendKeepsPlaces
  <2>3. ASSUME NEW p \in Peers, NEW d \in net[p], NEW survive \in 0 .. HistoryMax - 1,
               Receive(p, d, survive)
        PROVE  QueuedOrNumbered'
    BY <2>3, ReceiveKeepsPlaces
  <2>4. ASSUME NEW p \in Peers, NEW expired, NEW failed, NEW ping \in BOOLEAN,
               SendAll(p, expired, failed, ping, Lossy)
        PROVE  QueuedOrNumbered'
    BY <2>4, SendAllKeepsPlaces
  <2>5. QED
    BY <2>1, <2>2, <2>3, <2>4 DEF Next
<1>3. QED
  BY <1>1, <1>2, LinkIsSafe, PTL DEF Spec

\* No datagram, however old, takes an acknowledgement back.
THEOREM NothingIsTakenBack == Spec => NeverGoesBack
<1>1. LinkInv /\ [Next]_vars
        => [\A p \in Peers :
              /\ partner'[p].my_msg_id_received >= partner[p].my_msg_id_received
              /\ partner'[p].his_msg_id_received >= partner[p].his_msg_id_received]_vars
  BY NextInv
<1>2. QED
  BY LinkIsSafe, <1>1, PTL DEF Spec, NeverGoesBack

=============================================================================
