----------------------------- MODULE UdpPartner -----------------------------
(***************************************************************************)
(* What one side of a UDP connection knows of the other: struct Partner of *)
(* lib/LibCM/cm_ip_udp_partner.hh, and the functions of cm_ip_udp.cc that  *)
(* update it, as operators on a record.  The modules that compose partners *)
(* with a network (UdpLink, UdpSession) turn the calls into actions.       *)
(*                                                                         *)
(* Time is abstracted: which resend timers have expired, whether an ACK or *)
(* a PING is due, and which entries of the delay history are older than    *)
(* its 3 s are choices of the caller.  Two data are kept of it:            *)
(*   sent_times         only whether it is 0, 1 or more (the code compares *)
(*                      it with 0 and 1 only);                             *)
(*   ack_delay_history  for each entry whether it is a measured delay      *)
(*                      (FALSE) or the time since 1970 (TRUE), which       *)
(*                      erase_acknowledged_messages records when none of   *)
(*                      the acknowledged messages was sent exactly once:   *)
(*                      its minimum starts as the present value 0.         *)
(***************************************************************************)
EXTENDS MsgId, Sequences

CONSTANTS
  AckWindowInit,    \* initial ack_window_size: 2
  WindowLimit,      \* the literal 512 of send_partners_messages
  UnsignedEnd,      \* number_of_datagrams_without_loss is an unsigned: 2^32
  MissingCountMax,  \* missing_count travels in a byte: 255
  HistoryMax        \* bound of the model: entries kept in ack_delay_history

ASSUME PartnerAssumption ==
  /\ AckWindowInit \in Nat
  /\ WindowLimit \in Nat
  /\ UnsignedEnd \in Nat \ {0}
  /\ MissingCountMax \in Nat
  /\ HistoryMax \in Nat \ {0}

std_min(a, b) == IF a < b THEN a ELSE b
std_max(a, b) == IF a < b THEN b ELSE a

\* The largest window send_partners_messages may set.
WindowCap == std_max(WindowLimit, max_sent_messages)

-----------------------------------------------------------------------------

EmptyMap == [id \in {} |-> 0]

\* A partner as it is when a connection is made: `mine` is the number of our
\* first message, `his` the number of his first message.
NewPartner(mine, his) ==
  [ his_msg_id_received              |-> his,
    my_msg_id_received               |-> mine,
    my_msg_id_counter                |-> mine,
    ack_window_size                  |-> AckWindowInit,
    number_of_datagrams_without_loss |-> 0,
    messages_sent                    |-> EmptyMap,
    ack_delay_history                |-> << >>,
    queue_to_send                    |-> << >>,
    messages_received                |-> EmptyMap ]

SentMessage(body) == [msg |-> body, marked_as_missing |-> FALSE, sent_times |-> 0]

count_unacknowledged_messages(p) == p.my_msg_id_counter - p.my_msg_id_received

can_send_messages(p) == count_unacknowledged_messages(p) <= p.ack_window_size

\* 2 * median exceeds any time the connection will live: no timer expires.
\* With an even number of entries the median is the mean of the middle two.
resend_delay_is_endless(p) ==
  LET h == p.ack_delay_history
      n == Len(h)
  IN  /\ n > 0
      /\ \/ h[n \div 2 + 1]
         \/ n % 2 = 0 /\ h[n \div 2]

compute_missing_count(p) ==
  LET gap(id) == id - p.his_msg_id_received
      first   == CHOOSE id \in DOMAIN p.messages_received :
                   \A other \in DOMAIN p.messages_received : id <= other
  IN  IF p.messages_received = EmptyMap \/ gap(first) > MissingCountMax
        THEN 0
        ELSE gap(first)

-----------------------------------------------------------------------------
(* Sending *)

\* Numbers the bodies, in order, and appends them to messages_sent.
prepare_messages_to_send(p, bodies) ==
  LET first == p.my_msg_id_counter
      fresh == first .. first + Len(bodies) - 1
  IN  [p EXCEPT
        !.my_msg_id_counter = first + Len(bodies),
        !.messages_sent = [id \in DOMAIN p.messages_sent \cup fresh |->
             IF id \in fresh THEN SentMessage(bodies[id - first + 1])
                             ELSE p.messages_sent[id]]]

\* Mutated form: the queue is cleared when a part of it was numbered.
drain_queue_to_send_clear(p) ==
  LET room == std_max(0, p.ack_window_size + 1 - count_unacknowledged_messages(p))
      n    == std_min(room, Len(p.queue_to_send))
  IN  [prepare_messages_to_send(p, SubSeq(p.queue_to_send, 1, n))
         EXCEPT !.queue_to_send = << >>]

\* The loop of recv_main that numbers queued messages while the window is open.
drain_queue_to_send(p) ==
  LET room == std_max(0, p.ack_window_size + 1 - count_unacknowledged_messages(p))
      n    == std_min(room, Len(p.queue_to_send))
  IN  [prepare_messages_to_send(p, SubSeq(p.queue_to_send, 1, n))
         EXCEPT !.queue_to_send = SubSeq(p.queue_to_send, n + 1, Len(p.queue_to_send))]

\* Mutated form: a ping acknowledges the message it still waits for.
send_ping_message_next(p) ==
  [ msg_kind        |-> "p",
    receiver_msg_id |-> p.his_msg_id_received + 1,
    missing_count   |-> compute_missing_count(p) ]

\* The datagrams.  They hold the numbers the sender means; Wire is what of them
\* travels, and all that a receiver sees.
send_ping_message(p) ==
  [ msg_kind        |-> "p",
    receiver_msg_id |-> p.his_msg_id_received,
    missing_count   |-> compute_missing_count(p) ]

send_regular_message(p, id) ==
  [ msg_kind        |-> "m",
    sender_msg_id   |-> id,
    receiver_msg_id |-> p.his_msg_id_received,
    missing_count   |-> compute_missing_count(p),
    data            |-> p.messages_sent[id].msg ]

Wire(d) ==
  IF d.msg_kind = "m"
    THEN [d EXCEPT !.sender_msg_id   = convert_msg_to_rem(@),
                   !.receiver_msg_id = convert_msg_to_rem(@)]
    ELSE [d EXCEPT !.receiver_msg_id = convert_msg_to_rem(@)]

\* Mutated form: the resend timer is not looked at.
messages_to_resend_untimed(p, expired) ==
  {id \in DOMAIN p.messages_sent :
     LET m == p.messages_sent[id]
     IN  \/ m.sent_times = 0
         \/ m.sent_times = 1 /\ m.marked_as_missing}

\* The messages send_partners_messages sends when the timers of `expired` did.
messages_to_resend(p, expired) ==
  {id \in DOMAIN p.messages_sent :
     LET m == p.messages_sent[id]
     IN  \/ id \in expired /\ ~resend_delay_is_endless(p)
         \/ m.sent_times = 0
         \/ m.sent_times = 1 /\ m.marked_as_missing}

\* sendto() accepted the messages of `ids`.
note_sent(p, ids) ==
  [p EXCEPT !.messages_sent = [id \in DOMAIN p.messages_sent |->
     IF id \in ids
       THEN [p.messages_sent[id] EXCEPT !.sent_times = std_min(2, @ + 1),
                                        !.marked_as_missing = FALSE]
       ELSE p.messages_sent[id]]]

\* Mutated form: the window grows without a limit.
update_window_uncapped(p, ids) ==
  LET loss == \E id \in ids : p.messages_sent[id].sent_times > 0
      n    == p.number_of_datagrams_without_loss
      w    == p.ack_window_size
  IN  IF loss
        THEN [p EXCEPT !.number_of_datagrams_without_loss = 0,
                       !.ack_window_size = IF w > 2 THEN w \div 2 ELSE w]
        ELSE [p EXCEPT !.ack_window_size = IF n > w THEN n ELSE w]

\* The window after a pass that sent `ids` and met no error.
update_window(p, ids) ==
  LET loss == \E id \in ids : p.messages_sent[id].sent_times > 0
      n    == p.number_of_datagrams_without_loss
      w    == p.ack_window_size
  IN  IF loss
        THEN [p EXCEPT !.number_of_datagrams_without_loss = 0,
                       !.ack_window_size = IF w > 2 THEN w \div 2 ELSE w]
        ELSE [p EXCEPT !.ack_window_size = IF n > w THEN std_min(n, WindowCap) ELSE w]

-----------------------------------------------------------------------------
(* Receiving *)

\* `survive` of the earlier entries are not yet too old.
push_ack_delay(p, measured, survive) ==
  LET h == p.ack_delay_history
      n == std_min(survive, Len(h))
  IN  Append(SubSeq(h, Len(h) - n + 1, Len(h)), ~measured)

\* Mutated form: the message waited for next counts as acknowledged.
acknowledged_inclusive(p) == {id \in DOMAIN p.messages_sent : id <= p.my_msg_id_received}

acknowledged(p) == {id \in DOMAIN p.messages_sent : id < p.my_msg_id_received}

erase_acknowledged_messages(p, survive) ==
  LET acked == acknowledged(p)
  IN  [p EXCEPT
        !.ack_delay_history =
           push_ack_delay(p, \E id \in acked : p.messages_sent[id].sent_times = 1, survive),
        !.messages_sent =
           [id \in DOMAIN p.messages_sent \ acked |-> p.messages_sent[id]]]

mark_missing(p, missing_count) ==
  LET missing == p.my_msg_id_received .. p.my_msg_id_received + missing_count - 1
  IN  [p EXCEPT !.messages_sent = [id \in DOMAIN p.messages_sent |->
        IF id \in missing
          THEN [p.messages_sent[id] EXCEPT !.marked_as_missing = TRUE]
          ELSE p.messages_sent[id]]]

\* Mutated form: any acknowledgement that differs is taken over.
confirms_more_any(p, abs) == abs # p.my_msg_id_received

\* Mutated form: a confirmation of one message is no news.
confirms_more_than_one(p, abs) == abs > p.my_msg_id_received + 1

confirms_more(p, abs) == abs > p.my_msg_id_received

handle_message_acknowledge(p, receiver_msg_id_rel, missing_count, survive) ==
  LET abs     == convert_msg_id_to_abs(receiver_msg_id_rel, p.my_msg_id_counter)
      counted == [p EXCEPT !.number_of_datagrams_without_loss =
                    (@ + (abs - p.my_msg_id_received)) % UnsignedEnd]
      acked   == IF confirms_more(p, abs)
                   THEN erase_acknowledged_messages(
                          [counted EXCEPT !.my_msg_id_received = abs], survive)
                   ELSE counted
  IN  IF abs > p.my_msg_id_counter THEN p ELSE mark_missing(acked, missing_count)

\* The first number after `id` that is not among the buffered messages.
first_missing(p, id) ==
  CHOOSE n \in {id + 1} \cup {k + 1 : k \in DOMAIN p.messages_received} :
    /\ n \notin DOMAIN p.messages_received
    /\ \A k \in id + 1 .. n - 1 : k \in DOMAIN p.messages_received

\* Mutated form: no message is taken for a duplicate.
is_duplicate_never(p, abs) == FALSE

is_duplicate(p, abs) == abs < p.his_msg_id_received

\* What handle_data_message makes of the partner, and the bodies it hands to
\* the user, in order.
handle_data_message(p, sender_msg_id_rel, body) ==
  LET abs     == convert_msg_id_to_abs(sender_msg_id_rel, p.his_msg_id_received)
      his     == p.his_msg_id_received
      invalid == \/ his - abs >= (3 * msg_id_end) \div 4
                 \/ abs - his >= (3 * msg_id_end) \div 4
      buffer  == p.messages_received
      next    == first_missing(p, his)
  IN  IF invalid \/ is_duplicate(p, abs) \/ (abs > his /\ abs \in DOMAIN buffer)
        THEN [partner |-> p, messages |-> << >>]
      ELSE IF abs > his
        THEN [partner  |-> [p EXCEPT !.messages_received =
                              [id \in DOMAIN buffer \cup {abs} |->
                                 IF id = abs THEN body ELSE buffer[id]]],
              messages |-> << >>]
        ELSE [partner  |-> [p EXCEPT
                              !.his_msg_id_received = next,
                              !.messages_received =
                                 [id \in {k \in DOMAIN buffer : k >= next} |-> buffer[id]]],
              messages |-> << body >> \o [i \in 1 .. next - his - 1 |-> buffer[his + i]]]

\* handle_valid_message, for a ping or a message.
handle_valid_message(p, rm, survive) ==
  LET acked == handle_message_acknowledge(p, rm.receiver_msg_id, rm.missing_count, survive)
  IN  IF rm.msg_kind = "m"
        THEN handle_data_message(acked, rm.sender_msg_id, rm.data)
        ELSE [partner |-> acked, messages |-> << >>]

-----------------------------------------------------------------------------
(* Types *)

Bodies == Nat \ {0}

\* f is a map from message numbers to S.
IsMap(f, S) == DOMAIN f \subseteq Nat /\ f \in [DOMAIN f -> S]

\* The assertion of compute_missing_count: the buffered messages are ahead of
\* what was received; and there is a last one.
IsAhead(buffer, received) ==
  /\ \A id \in DOMAIN buffer : received < id
  /\ \E last \in {received} \cup DOMAIN buffer : \A id \in DOMAIN buffer : id <= last

SentMessages == [msg : Bodies, marked_as_missing : BOOLEAN, sent_times : 0 .. 2]

Datagrams ==
  [msg_kind : {"p"}, receiver_msg_id : Nat, missing_count : 0 .. MissingCountMax]
  \cup [msg_kind : {"m"}, sender_msg_id : Nat, receiver_msg_id : Nat,
        missing_count : 0 .. MissingCountMax, data : Bodies]

\* p has the fields of a partner, and no other.
IsPartner(p) ==
  p = [ his_msg_id_received              |-> p.his_msg_id_received,
        my_msg_id_received               |-> p.my_msg_id_received,
        my_msg_id_counter                |-> p.my_msg_id_counter,
        ack_window_size                  |-> p.ack_window_size,
        number_of_datagrams_without_loss |-> p.number_of_datagrams_without_loss,
        messages_sent                    |-> p.messages_sent,
        ack_delay_history                |-> p.ack_delay_history,
        queue_to_send                    |-> p.queue_to_send,
        messages_received                |-> p.messages_received ]

PartnerOK(p) ==
  /\ IsPartner(p)
  /\ p.his_msg_id_received \in Nat
  /\ p.my_msg_id_received \in Nat
  /\ p.my_msg_id_counter \in Nat
  /\ p.ack_window_size \in Nat
  /\ p.number_of_datagrams_without_loss \in 0 .. UnsignedEnd - 1
  /\ IsMap(p.messages_sent, SentMessages)
  /\ p.ack_delay_history \in Seq(BOOLEAN)
  /\ p.queue_to_send \in Seq(Bodies)
  /\ IsMap(p.messages_received, Bodies)
  /\ IsAhead(p.messages_received, p.his_msg_id_received)

=============================================================================
