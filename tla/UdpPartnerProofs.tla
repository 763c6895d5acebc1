-------------------------- MODULE UdpPartnerProofs --------------------------
(***************************************************************************)
(* The reconstruction of message numbers from their remainders is exact    *)
(* for every modulus, as long as the number is within half a cycle of the  *)
(* reference; and what the operators on a partner preserve and return, for *)
(* every value of the constants.                                           *)
(***************************************************************************)
EXTENDS UdpPartner, SequenceTheorems, WellFoundedInduction, TLAPS

-----------------------------------------------------------------------------
(* Numbers on the wire *)

\* Division with remainder, for any positive divisor.
LEMMA DivMod ==
  ASSUME NEW a \in Int, NEW m \in Nat \ {0}
  PROVE  /\ a \div m \in Int
         /\ a % m \in 0 .. m - 1
         /\ a = m * (a \div m) + (a % m)
  OBVIOUS

\* Two multiples of m that differ by less than m are equal.
LEMMA MultiplesApart ==
  ASSUME NEW m \in Nat \ {0}, NEW j \in Int, NEW k \in Int,
         m * j < m * k + m
  PROVE  j <= k
  OBVIOUS

\* find_nearest_mod: a number within half a cycle of the reference is recovered
\* from its remainder, on whichever cycle the reference is.
THEOREM FindNearestMod ==
  ASSUME NEW m \in Nat \ {0}, NEW x \in Nat, NEW reference \in Nat,
         reference - x <= m \div 2,
         x - reference < m - (m \div 2)
  PROVE  find_nearest_mod(x % m, reference, m) = x
<1> DEFINE y == x % m
           q == x \div m
           k == (reference - y) \div m
           r == (reference - y) % m
           h == m \div 2
<1>1. /\ q \in Int /\ y \in 0 .. m - 1 /\ x = m * q + y
      /\ h \in Nat /\ h <= m - h /\ h < m
  <2>1. q \in Int /\ y \in 0 .. m - 1 /\ x = m * q + y
    BY DivMod
  <2>2. h \in Nat /\ h <= m - h /\ h < m
    OBVIOUS
  <2>3. QED
    BY <2>1, <2>2
<1>2. k \in Int /\ r \in 0 .. m - 1 /\ reference - y = m * k + r
  <2>1. reference - y \in Int
    BY <1>1
  <2>2. QED
    BY <2>1, DivMod
<1>3. CASE reference <= y
  <2>1. m * q < m * 0 + m
    BY <1>1, <1>3
  <2>2. q <= 0
    BY <2>1, <1>1, MultiplesApart
  <2>3. m * 0 < m * q + m
    BY <1>1
  <2>4. 0 <= q
    BY <2>3, <1>1, MultiplesApart
  <2>5. x = y
    <3>1. q = 0
      BY <1>1, <2>2, <2>4
    <3>2. m * q = 0
      BY <3>1
    <3>3. QED
      BY <1>1, <3>2
  <2>6. QED
    BY <1>3, <2>5 DEF find_nearest_mod
<1>4. CASE reference > y
  <2> DEFINE base == k * m + y
  <2>1. base \in Int /\ base = m * k + y /\ reference = base + r
    BY <1>1, <1>2
  <2>2. CASE x <= reference
    <3>1. m * k < m * q + m
      BY <1>1, <1>2, <2>1, <2>2
    <3>2. m * q < m * k + m
      BY <1>1, <1>2, <2>1, <2>2
    <3>3. k <= q /\ q <= k
      BY <3>1, <3>2, <1>1, <1>2, MultiplesApart
    <3>4. base = x
      <4>1. k = q
        BY <3>3, <1>1, <1>2
      <4>2. QED
        BY <4>1, <2>1, <1>1
    <3>5. ~(base < reference - h)
      BY <3>4, <1>1
    <3>6. QED
      BY <1>4, <3>4, <3>5 DEF find_nearest_mod
  <2>3. CASE x > reference
    <3>1. m * k + m = m * (k + 1)
      BY <1>2
    <3>2. m * q < m * (k + 1) + m
      BY <1>1, <1>2, <2>1, <2>3, <3>1
    <3>3. m * (k + 1) < m * q + m
      BY <1>1, <1>2, <2>1, <2>3, <3>1
    <3>4. q = k + 1
      <4>1. k + 1 \in Int
        BY <1>2
      <4>2. q <= k + 1 /\ k + 1 <= q
        BY <3>2, <3>3, <4>1, <1>1, MultiplesApart
      <4>3. QED
        BY <4>1, <4>2, <1>1
    <3>5. base + m = x
      <4>1. m * q = m * k + m
        BY <3>1, <3>4
      <4>2. QED
        BY <4>1, <2>1, <1>1
    <3>6. base < reference - h
      BY <3>5, <1>1, <2>1
    <3>7. QED
      BY <1>4, <3>5, <3>6 DEF find_nearest_mod
  <2>4. QED
    BY <2>2, <2>3
<1>5. QED
  BY <1>1, <1>3, <1>4

\* convert_msg_id_to_abs undoes convert_msg_to_rem for a number that is near
\* enough to the reference number of the process that converts.
THEOREM WireRoundTrip ==
  ASSUME NEW x \in Nat, NEW reference \in Nat,
         reference - x <= msg_id_end \div 2,
         x - reference < msg_id_end - (msg_id_end \div 2)
  PROVE  convert_msg_id_to_abs(convert_msg_to_rem(x), reference) = x
  BY FindNearestMod, MsgIdEndAssumption DEF convert_msg_id_to_abs, convert_msg_to_rem

\* A set of natural numbers that is not empty has a least element.
LEMMA LeastNat ==
  ASSUME NEW T, T \subseteq Nat, T # {}
  PROVE  \E x \in T : \A y \in T : x <= y
<1> DEFINE R == {ss \in Nat \X Nat : ss[1] < ss[2]}
<1>1. IsWellFoundedOn(R, Nat)
  BY NatLessThanWellFounded DEF OpToRel
<1>2. PICK x \in T : \A y \in T : ~(<<y, x>> \in R)
  BY <1>1, WFMin
<1>3. ASSUME NEW y \in T PROVE x <= y
  <2>1. x \in Nat /\ y \in Nat
    OBVIOUS
  <2>2. ~(y < x)
    BY <1>2, <2>1
  <2>3. QED
    BY <2>1, <2>2
<1>4. QED
  BY <1>2, <1>3

-----------------------------------------------------------------------------
(* Sending *)

\* q comes from p by numbering messages: nothing that concerns what is received
\* changes, and the bodies that were kept still are.
Numbers(p, q) ==
  /\ q.his_msg_id_received = p.his_msg_id_received
  /\ q.my_msg_id_received = p.my_msg_id_received
  /\ q.messages_received = p.messages_received
  /\ p.my_msg_id_counter <= q.my_msg_id_counter
  /\ DOMAIN q.messages_sent
       = DOMAIN p.messages_sent \cup (p.my_msg_id_counter .. q.my_msg_id_counter - 1)
  /\ \A id \in DOMAIN p.messages_sent :
       id < p.my_msg_id_counter => q.messages_sent[id].msg = p.messages_sent[id].msg

\* A partner starts well-formed.
LEMMA NewPartnerOK ==
  ASSUME NEW mine \in Nat, NEW his \in Nat
  PROVE  PartnerOK(NewPartner(mine, his))
<1>1. IsMap(EmptyMap, SentMessages) /\ IsMap(EmptyMap, Bodies)
  BY DEF IsMap, EmptyMap
<1>2. << >> \in Seq(BOOLEAN) /\ << >> \in Seq(Bodies)
  BY EmptySeq
<1>3. QED
  BY <1>1, <1>2, PartnerAssumption DEF PartnerOK, IsPartner, IsAhead, NewPartner, EmptyMap

\* The gap fits the byte it travels in, and is never negative.
LEMMA MissingCountType ==
  ASSUME NEW p, PartnerOK(p)
  PROVE  compute_missing_count(p) \in 0 .. MissingCountMax
<1> DEFINE T == DOMAIN p.messages_received
           first == CHOOSE id \in T : \A other \in T : id <= other
<1>1. CASE p.messages_received = EmptyMap
  BY <1>1, PartnerAssumption DEF compute_missing_count
<1>2. CASE p.messages_received # EmptyMap
  <2>1. T # {}
    <3>1. SUFFICES ASSUME T = {} PROVE p.messages_received = EmptyMap
      BY <1>2
    <3>2. p.messages_received \in [T -> Bodies]
      BY DEF PartnerOK, IsMap
    <3>3. QED
      BY <3>1, <3>2 DEF EmptyMap
  <2>2. T \subseteq Nat
    BY DEF PartnerOK, IsMap
  <2>3. first \in T
    BY <2>1, <2>2, LeastNat
  <2>4. first \in Nat /\ p.his_msg_id_received \in Nat /\ p.his_msg_id_received < first
    BY <2>2, <2>3 DEF PartnerOK, IsAhead
  <2>5. HIDE DEF first
  <2>6. QED
    BY <1>2, <2>4, PartnerAssumption DEF compute_missing_count, first
<1>3. QED
  BY <1>1, <1>2

\* Numbering keeps a partner well-formed and advances the counter, and that is
\* all it does.
LEMMA PrepareOK ==
  ASSUME NEW p, PartnerOK(p), NEW bodies \in Seq(Bodies)
  PROVE  LET q == prepare_messages_to_send(p, bodies)
         IN  /\ PartnerOK(q)
             /\ Numbers(p, q)
             /\ q.my_msg_id_counter = p.my_msg_id_counter + Len(bodies)
             /\ q.ack_window_size = p.ack_window_size
<1> DEFINE q == prepare_messages_to_send(p, bodies)
           fresh == p.my_msg_id_counter .. p.my_msg_id_counter + Len(bodies) - 1
<1>1. p.my_msg_id_counter \in Nat /\ Len(bodies) \in Nat
  BY LenProperties DEF PartnerOK
<1>2. /\ IsMap(q.messages_sent, SentMessages)
      /\ DOMAIN q.messages_sent = DOMAIN p.messages_sent \cup fresh
      /\ \A id \in DOMAIN p.messages_sent :
           id < p.my_msg_id_counter => q.messages_sent[id] = p.messages_sent[id]
  <2>1. DOMAIN p.messages_sent \subseteq Nat
        /\ p.messages_sent \in [DOMAIN p.messages_sent -> SentMessages]
    BY DEF PartnerOK, IsMap
  <2>2. ASSUME NEW id \in fresh
        PROVE  SentMessage(bodies[id - p.my_msg_id_counter + 1]) \in SentMessages
    <3>1. id - p.my_msg_id_counter + 1 \in 1 .. Len(bodies)
      BY <1>1
    <3>2. bodies[id - p.my_msg_id_counter + 1] \in Bodies
      BY <3>1, ElementOfSeq
    <3>3. QED
      BY <3>2 DEF SentMessage, SentMessages
  <2>3. q.messages_sent = [id \in DOMAIN p.messages_sent \cup fresh |->
             IF id \in fresh THEN SentMessage(bodies[id - p.my_msg_id_counter + 1])
                             ELSE p.messages_sent[id]]
    BY DEF prepare_messages_to_send, PartnerOK, IsPartner
  <2>4. q.messages_sent \in [DOMAIN p.messages_sent \cup fresh -> SentMessages]
    BY <2>1, <2>2, <2>3
  <2>5. fresh \subseteq Nat
    BY <1>1
  <2>6. \A id \in DOMAIN p.messages_sent : id < p.my_msg_id_counter => id \notin fresh
    BY <1>1, <2>1
  <2>7. QED
    BY <2>1, <2>3, <2>4, <2>5, <2>6 DEF IsMap
<1>3. q = [p EXCEPT !.my_msg_id_counter = p.my_msg_id_counter + Len(bodies),
                    !.messages_sent = q.messages_sent]
  BY DEF prepare_messages_to_send, PartnerOK, IsPartner
<1>4. q.my_msg_id_counter = p.my_msg_id_counter + Len(bodies)
  BY <1>3 DEF PartnerOK, IsPartner
<1>5. PartnerOK(q)
  <2>1. IsPartner(q)
    BY <1>3 DEF PartnerOK, IsPartner
  <2>2. q.messages_received = p.messages_received
        /\ q.his_msg_id_received = p.his_msg_id_received
    BY <1>3 DEF PartnerOK, IsPartner
  <2>3. /\ q.ack_delay_history = p.ack_delay_history
        /\ q.queue_to_send = p.queue_to_send
        /\ q.my_msg_id_received = p.my_msg_id_received
        /\ q.ack_window_size = p.ack_window_size
        /\ q.number_of_datagrams_without_loss = p.number_of_datagrams_without_loss
    BY <1>3 DEF PartnerOK, IsPartner
  <2>4. q.my_msg_id_counter \in Nat
    BY <1>1, <1>4
  <2>5. QED
    BY <1>2, <2>1, <2>2, <2>3, <2>4 DEF PartnerOK
<1>6. Numbers(p, q)
  <2>1. /\ q.his_msg_id_received = p.his_msg_id_received
        /\ q.my_msg_id_received = p.my_msg_id_received
        /\ q.messages_received = p.messages_received
    BY <1>3 DEF PartnerOK, IsPartner
  <2>2. HIDE DEF q
  <2>3. QED
    BY <1>1, <1>2, <1>4, <2>1 DEF Numbers
<1>7. q.ack_window_size = p.ack_window_size
  BY <1>3 DEF PartnerOK, IsPartner
<1>8. QED
  BY <1>4, <1>5, <1>6, <1>7

\* So does the loop that numbers the head of the queue, which leaves no more
\* unacknowledged than there were, or than the window allows.
LEMMA DrainOK ==
  ASSUME NEW p, PartnerOK(p)
  PROVE  LET q == drain_queue_to_send(p)
         IN  /\ PartnerOK(q)
             /\ Numbers(p, q)
             /\ q.ack_window_size = p.ack_window_size
             /\ \/ q.my_msg_id_counter = p.my_msg_id_counter
                \/ count_unacknowledged_messages(q) <= p.ack_window_size + 1
<1> DEFINE room == std_max(0, p.ack_window_size + 1 - count_unacknowledged_messages(p))
           n == std_min(room, Len(p.queue_to_send))
           head == SubSeq(p.queue_to_send, 1, n)
           tail == SubSeq(p.queue_to_send, n + 1, Len(p.queue_to_send))
           numbered == prepare_messages_to_send(p, head)
           q == drain_queue_to_send(p)
<1>1. /\ Len(p.queue_to_send) \in Nat /\ n \in 0 .. Len(p.queue_to_send)
      /\ n = 0 \/ n <= p.ack_window_size + 1 - count_unacknowledged_messages(p)
  <2>1. p.ack_window_size + 1 - count_unacknowledged_messages(p) \in Int
    BY DEF PartnerOK, count_unacknowledged_messages
  <2>2. /\ room \in Nat
        /\ room = 0 \/ room = p.ack_window_size + 1 - count_unacknowledged_messages(p)
    BY <2>1 DEF std_max
  <2>3. Len(p.queue_to_send) \in Nat
    BY LenProperties DEF PartnerOK
  <2> HIDE DEF room
  <2>4. \/ n = room /\ n <= Len(p.queue_to_send)
        \/ n = Len(p.queue_to_send) /\ n <= room
    BY <2>2, <2>3 DEF std_min
  <2> HIDE DEF n
  <2>5. QED
    BY <2>1, <2>2, <2>3, <2>4
<1>2. head \in Seq(Bodies) /\ Len(head) = n /\ tail \in Seq(Bodies)
  <2>1. \A i \in 1 .. Len(p.queue_to_send) : p.queue_to_send[i] \in Bodies
    BY ElementOfSeq DEF PartnerOK
  <2>2. \A i \in 1 .. n : p.queue_to_send[i] \in Bodies
    BY <1>1, <2>1
  <2>3. \A i \in n + 1 .. Len(p.queue_to_send) : p.queue_to_send[i] \in Bodies
    BY <1>1, <2>1
  <2>4. QED
    BY <1>1, <2>2, <2>3, SubSeqProperties
<1>3. /\ PartnerOK(numbered)
      /\ Numbers(p, numbered)
      /\ numbered.my_msg_id_counter = p.my_msg_id_counter + n
      /\ numbered.ack_window_size = p.ack_window_size
  BY <1>2, PrepareOK
<1>4. q = [numbered EXCEPT !.queue_to_send = tail]
  BY DEF drain_queue_to_send
<1>5. HIDE DEF numbered, q, tail
<1>6. IsPartner(q)
  BY <1>3, <1>4 DEF PartnerOK, IsPartner
<1>7. /\ q.his_msg_id_received = numbered.his_msg_id_received
      /\ q.my_msg_id_received = numbered.my_msg_id_received
      /\ q.my_msg_id_counter = numbered.my_msg_id_counter
      /\ q.ack_window_size = numbered.ack_window_size
      /\ q.number_of_datagrams_without_loss = numbered.number_of_datagrams_without_loss
      /\ q.messages_sent = numbered.messages_sent
      /\ q.ack_delay_history = numbered.ack_delay_history
      /\ q.queue_to_send = tail
      /\ q.messages_received = numbered.messages_received
  BY <1>3, <1>4 DEF PartnerOK, IsPartner
<1>8. PartnerOK(q)
  BY <1>2, <1>3, <1>6, <1>7 DEF PartnerOK
<1>9. Numbers(p, q)
  BY <1>3, <1>7 DEF Numbers
<1>10. \/ q.my_msg_id_counter = p.my_msg_id_counter
       \/ count_unacknowledged_messages(q) <= p.ack_window_size + 1
  <2>1. /\ q.my_msg_id_counter = p.my_msg_id_counter + n
        /\ q.my_msg_id_received = p.my_msg_id_received
    BY <1>3, <1>7 DEF Numbers
  <2>2. p.my_msg_id_counter \in Nat /\ p.my_msg_id_received \in Nat /\ p.ack_window_size \in Nat
    BY DEF PartnerOK
  <2>3. HIDE DEF n
  <2>4. QED
    BY <1>1, <2>1, <2>2 DEF count_unacknowledged_messages
<1>11. QED
  BY <1>3, <1>7, <1>8, <1>9, <1>10 DEF q

\* The bookkeeping of what was sent changes no counter and no body.
LEMMA NoteSentOK ==
  ASSUME NEW p, PartnerOK(p), NEW ids
  PROVE  LET q == note_sent(p, ids)
         IN  /\ PartnerOK(q)
             /\ Numbers(p, q)
             /\ q.my_msg_id_counter = p.my_msg_id_counter
             /\ q.ack_window_size = p.ack_window_size
             /\ \A id \in DOMAIN p.messages_sent :
                  q.messages_sent[id].msg = p.messages_sent[id].msg
<1> DEFINE sent == [id \in DOMAIN p.messages_sent |->
                     IF id \in ids
                       THEN [p.messages_sent[id] EXCEPT !.sent_times = std_min(2, @ + 1),
                                                        !.marked_as_missing = FALSE]
                       ELSE p.messages_sent[id]]
           q == note_sent(p, ids)
<1>1. DOMAIN p.messages_sent \subseteq Nat
      /\ \A id \in DOMAIN p.messages_sent : p.messages_sent[id] \in SentMessages
  BY DEF PartnerOK, IsMap
<1>2. ASSUME NEW m \in SentMessages
      PROVE  [m EXCEPT !.sent_times = std_min(2, @ + 1), !.marked_as_missing = FALSE]
               \in SentMessages
  <2>1. m.sent_times \in 0 .. 2 /\ m.msg \in Bodies
    BY DEF SentMessages
  <2>2. std_min(2, m.sent_times + 1) \in 0 .. 2
    BY <2>1 DEF std_min
  <2>3. QED
    BY <2>1, <2>2 DEF SentMessages
<1>3. /\ IsMap(sent, SentMessages)
      /\ DOMAIN sent = DOMAIN p.messages_sent
      /\ \A id \in DOMAIN p.messages_sent : sent[id].msg = p.messages_sent[id].msg
  <2>1. \A id \in DOMAIN p.messages_sent : sent[id] \in SentMessages
    BY <1>1, <1>2
  <2>2. \A m \in SentMessages :
          [m EXCEPT !.sent_times = std_min(2, @ + 1), !.marked_as_missing = FALSE].msg = m.msg
    BY DEF SentMessages
  <2>3. QED
    BY <1>1, <2>1, <2>2 DEF IsMap
<1>4. q = [p EXCEPT !.messages_sent = sent]
  BY DEF note_sent
<1>5. HIDE DEF sent, q
<1>6. IsPartner(q)
  BY <1>4 DEF PartnerOK, IsPartner
<1>7. /\ q.his_msg_id_received = p.his_msg_id_received
      /\ q.my_msg_id_received = p.my_msg_id_received
      /\ q.my_msg_id_counter = p.my_msg_id_counter
      /\ q.ack_window_size = p.ack_window_size
      /\ q.number_of_datagrams_without_loss = p.number_of_datagrams_without_loss
      /\ q.messages_sent = sent
      /\ q.ack_delay_history = p.ack_delay_history
      /\ q.queue_to_send = p.queue_to_send
      /\ q.messages_received = p.messages_received
  BY <1>4 DEF PartnerOK, IsPartner
<1>8. PartnerOK(q)
  BY <1>3, <1>6, <1>7 DEF PartnerOK
<1>9. p.my_msg_id_counter .. p.my_msg_id_counter - 1 = {} /\ p.my_msg_id_counter \in Nat
  BY DEF PartnerOK
<1>10. Numbers(p, q)
  BY <1>3, <1>7, <1>9 DEF Numbers
<1>11. QED
  BY <1>3, <1>7, <1>8, <1>10 DEF q

\* Adjusting the window changes the window only, and not beyond its cap.
LEMMA UpdateWindowOK ==
  ASSUME NEW p, PartnerOK(p), NEW ids
  PROVE  LET q == update_window(p, ids)
         IN  /\ PartnerOK(q)
             /\ Numbers(p, q)
             /\ q.my_msg_id_counter = p.my_msg_id_counter
             /\ q.messages_sent = p.messages_sent
             /\ q.ack_window_size <= p.ack_window_size \/ q.ack_window_size <= WindowCap
<1> DEFINE q == update_window(p, ids)
<1>1. WindowCap \in Nat
  BY PartnerAssumption, MsgIdEndAssumption DEF WindowCap, std_max, max_sent_messages
<1>2. PICK n \in 0 .. UnsignedEnd - 1, w \in Nat :
        /\ q = [p EXCEPT !.number_of_datagrams_without_loss = n, !.ack_window_size = w]
        /\ w <= p.ack_window_size \/ w <= WindowCap
  <2>1. p.number_of_datagrams_without_loss \in 0 .. UnsignedEnd - 1
        /\ p.ack_window_size \in Nat /\ 0 \in 0 .. UnsignedEnd - 1
    BY PartnerAssumption DEF PartnerOK
  <2>2. /\ std_min(p.number_of_datagrams_without_loss, WindowCap) \in Nat
        /\ std_min(p.number_of_datagrams_without_loss, WindowCap) <= WindowCap
    BY <1>1, <2>1 DEF std_min
  <2>3. p.ack_window_size \div 2 \in Nat /\ p.ack_window_size \div 2 <= p.ack_window_size
    BY <2>1
  <2>4. CASE \E id \in ids : p.messages_sent[id].sent_times > 0
    <3> DEFINE w == IF p.ack_window_size > 2 THEN p.ack_window_size \div 2
                                             ELSE p.ack_window_size
    <3>1. q = [p EXCEPT !.number_of_datagrams_without_loss = 0, !.ack_window_size = w]
      BY <2>4 DEF update_window
    <3>2. w \in Nat /\ w <= p.ack_window_size
      BY <2>1, <2>3
    <3>3. HIDE DEF q, w
    <3>4. QED
      BY <2>1, <3>1, <3>2
  <2>5. CASE ~ \E id \in ids : p.messages_sent[id].sent_times > 0
    <3> DEFINE w == IF p.number_of_datagrams_without_loss > p.ack_window_size
                      THEN std_min(p.number_of_datagrams_without_loss, WindowCap)
                      ELSE p.ack_window_size
    <3>1. q = [p EXCEPT !.ack_window_size = w]
      BY <2>5 DEF update_window
    <3>2. w \in Nat /\ (w <= p.ack_window_size \/ w <= WindowCap)
      BY <2>1, <2>2
    <3>3. HIDE DEF q, w
    <3>4. q = [p EXCEPT !.number_of_datagrams_without_loss = p.number_of_datagrams_without_loss,
                        !.ack_window_size = w]
      BY <3>1 DEF PartnerOK, IsPartner
    <3>5. QED
      BY <2>1, <3>2, <3>4
  <2>6. QED
    BY <2>4, <2>5
<1>3. HIDE DEF q
<1>4. IsPartner(q)
  BY <1>2 DEF PartnerOK, IsPartner
<1>5. /\ q.his_msg_id_received = p.his_msg_id_received
      /\ q.my_msg_id_received = p.my_msg_id_received
      /\ q.my_msg_id_counter = p.my_msg_id_counter
      /\ q.ack_window_size = w
      /\ q.number_of_datagrams_without_loss = n
      /\ q.messages_sent = p.messages_sent
      /\ q.ack_delay_history = p.ack_delay_history
      /\ q.queue_to_send = p.queue_to_send
      /\ q.messages_received = p.messages_received
  BY <1>2 DEF PartnerOK, IsPartner
<1>6. PartnerOK(q)
  BY <1>4, <1>5 DEF PartnerOK
<1>7. p.my_msg_id_counter .. p.my_msg_id_counter - 1 = {} /\ p.my_msg_id_counter \in Nat
  BY DEF PartnerOK
<1>8. Numbers(p, q)
  BY <1>5, <1>7 DEF Numbers
<1>9. QED
  BY <1>2, <1>5, <1>6, <1>8 DEF q

-----------------------------------------------------------------------------
(* Receiving *)

\* q comes from p by an acknowledgement of the messages before abs: nothing is
\* taken back, and what is not acknowledged stays, with its body.
Acknowledges(p, q, abs) ==
  /\ q.his_msg_id_received = p.his_msg_id_received
  /\ q.messages_received = p.messages_received
  /\ q.my_msg_id_counter = p.my_msg_id_counter
  /\ q.ack_window_size = p.ack_window_size
  /\ q.my_msg_id_received \in {p.my_msg_id_received, abs}
  /\ p.my_msg_id_received <= q.my_msg_id_received
  /\ \A id \in DOMAIN q.messages_sent :
       id \in DOMAIN p.messages_sent /\ q.messages_sent[id].msg = p.messages_sent[id].msg
  /\ \A id \in DOMAIN p.messages_sent :
       id >= q.my_msg_id_received => id \in DOMAIN q.messages_sent

\* k is the number of body among the buffered messages and the one that came.
Holds(p, abs, body, k, b) ==
  \/ k = abs /\ b = body
  \/ k \in DOMAIN p.messages_received /\ b = p.messages_received[k]

\* q comes from p by the message `abs` with its body, msgs goes to the user:
\* the run of messages that starts with the one waited for.
Receives(p, q, msgs, abs, body) ==
  /\ q.my_msg_id_received = p.my_msg_id_received
  /\ q.my_msg_id_counter = p.my_msg_id_counter
  /\ q.ack_window_size = p.ack_window_size
  /\ q.messages_sent = p.messages_sent
  /\ Len(msgs) = q.his_msg_id_received - p.his_msg_id_received
  /\ \A i \in 1 .. Len(msgs) : Holds(p, abs, body, p.his_msg_id_received + i - 1, msgs[i])
  /\ \A id \in DOMAIN q.messages_received : Holds(p, abs, body, id, q.messages_received[id])

\* A number reconstructed from the wire is an integer.
LEMMA ConvertType ==
  ASSUME NEW rel \in Nat, NEW reference \in Nat
  PROVE  convert_msg_id_to_abs(rel, reference) \in Int
<1>1. (reference - rel) \div msg_id_end \in Int
  BY MsgIdEndAssumption
<1>2. ((reference - rel) \div msg_id_end) * msg_id_end \in Int
  BY <1>1, MsgIdEndAssumption
<1>3. QED
  BY <1>2, MsgIdEndAssumption DEF convert_msg_id_to_abs, find_nearest_mod

\* Dropping what was acknowledged, and the delay it leaves in the history.
LEMMA EraseOK ==
  ASSUME NEW p, PartnerOK(p), NEW survive \in Nat
  PROVE  LET q == erase_acknowledged_messages(p, survive)
         IN  PartnerOK(q) /\ Acknowledges(p, q, p.my_msg_id_received)
<1> DEFINE kept == [id \in DOMAIN p.messages_sent \ acknowledged(p) |-> p.messages_sent[id]]
           measured == \E id \in acknowledged(p) : p.messages_sent[id].sent_times = 1
           history == push_ack_delay(p, measured, survive)
           q == erase_acknowledged_messages(p, survive)
<1>1. IsMap(kept, SentMessages)
  <2>1. DOMAIN p.messages_sent \subseteq Nat
        /\ \A id \in DOMAIN p.messages_sent : p.messages_sent[id] \in SentMessages
    BY DEF PartnerOK, IsMap
  <2>2. \A id \in DOMAIN kept : kept[id] \in SentMessages
    BY <2>1
  <2>3. DOMAIN kept \subseteq Nat
    BY <2>1
  <2>4. kept \in [DOMAIN kept -> SentMessages]
    BY <2>2
  <2>5. QED
    BY <2>3, <2>4 DEF IsMap
<1>2. history \in Seq(BOOLEAN)
  <2> DEFINE h == p.ack_delay_history
             n == std_min(survive, Len(h))
             recent == SubSeq(h, Len(h) - n + 1, Len(h))
  <2>1. h \in Seq(BOOLEAN) /\ Len(h) \in Nat
    BY LenProperties DEF PartnerOK
  <2>2. n \in 0 .. Len(h)
    BY <2>1 DEF std_min
  <2>3. \A i \in Len(h) - n + 1 .. Len(h) : h[i] \in BOOLEAN
    BY <2>1, <2>2, ElementOfSeq
  <2>4. recent \in Seq(BOOLEAN)
    BY <2>1, <2>2, <2>3, SubSeqProperties
  <2>5. (~measured) \in BOOLEAN
    OBVIOUS
  <2>6. Append(recent, ~measured) \in Seq(BOOLEAN)
    BY <2>4, <2>5, AppendProperties
  <2>7. QED
    BY <2>6 DEF push_ack_delay
<1>3. /\ \A id \in DOMAIN kept :
           id \in DOMAIN p.messages_sent /\ kept[id].msg = p.messages_sent[id].msg
      /\ \A id \in DOMAIN p.messages_sent : id >= p.my_msg_id_received => id \in DOMAIN kept
  <2>1. p.my_msg_id_received \in Nat /\ DOMAIN p.messages_sent \subseteq Nat
    BY DEF PartnerOK, IsMap
  <2>2. \A id \in DOMAIN p.messages_sent : id >= p.my_msg_id_received => id \notin acknowledged(p)
    BY <2>1 DEF acknowledged
  <2>3. QED
    BY <2>2
<1>4. q = [p EXCEPT !.ack_delay_history = history, !.messages_sent = kept]
  BY DEF erase_acknowledged_messages
<1>5. HIDE DEF kept, history, q
<1>6. IsPartner(q)
  BY <1>4 DEF PartnerOK, IsPartner
<1>7. /\ q.his_msg_id_received = p.his_msg_id_received
      /\ q.my_msg_id_received = p.my_msg_id_received
      /\ q.my_msg_id_counter = p.my_msg_id_counter
      /\ q.ack_window_size = p.ack_window_size
      /\ q.number_of_datagrams_without_loss = p.number_of_datagrams_without_loss
      /\ q.messages_sent = kept
      /\ q.ack_delay_history = history
      /\ q.queue_to_send = p.queue_to_send
      /\ q.messages_received = p.messages_received
  BY <1>4 DEF PartnerOK, IsPartner
<1>8. PartnerOK(q)
  BY <1>1, <1>2, <1>6, <1>7 DEF PartnerOK
<1>9. p.my_msg_id_received <= p.my_msg_id_received
  BY DEF PartnerOK
<1>10. Acknowledges(p, q, p.my_msg_id_received)
  BY <1>3, <1>7, <1>9 DEF Acknowledges
<1>11. QED
  BY <1>8, <1>10 DEF q

\* Marking what the other side misses.
LEMMA MarkMissingOK ==
  ASSUME NEW p, PartnerOK(p), NEW missing_count
  PROVE  LET q == mark_missing(p, missing_count)
         IN  PartnerOK(q) /\ Acknowledges(p, q, p.my_msg_id_received)
<1> DEFINE missing == p.my_msg_id_received .. p.my_msg_id_received + missing_count - 1
           marked == [id \in DOMAIN p.messages_sent |->
                       IF id \in missing
                         THEN [p.messages_sent[id] EXCEPT !.marked_as_missing = TRUE]
                         ELSE p.messages_sent[id]]
           q == mark_missing(p, missing_count)
<1>1. /\ IsMap(marked, SentMessages)
      /\ DOMAIN marked = DOMAIN p.messages_sent
      /\ \A id \in DOMAIN p.messages_sent : marked[id].msg = p.messages_sent[id].msg
  <2>1. DOMAIN p.messages_sent \subseteq Nat
        /\ \A id \in DOMAIN p.messages_sent : p.messages_sent[id] \in SentMessages
    BY DEF PartnerOK, IsMap
  <2>2. ASSUME NEW m \in SentMessages
        PROVE  /\ [m EXCEPT !.marked_as_missing = TRUE] \in SentMessages
               /\ [m EXCEPT !.marked_as_missing = TRUE].msg = m.msg
    BY DEF SentMessages
  <2>3. \A id \in DOMAIN p.messages_sent :
          marked[id] \in SentMessages /\ marked[id].msg = p.messages_sent[id].msg
    BY <2>1, <2>2
  <2>4. QED
    BY <2>1, <2>3 DEF IsMap
<1>2. q = [p EXCEPT !.messages_sent = marked]
  BY DEF mark_missing
<1>3. HIDE DEF marked, q
<1>4. IsPartner(q)
  BY <1>2 DEF PartnerOK, IsPartner
<1>5. /\ q.his_msg_id_received = p.his_msg_id_received
      /\ q.my_msg_id_received = p.my_msg_id_received
      /\ q.my_msg_id_counter = p.my_msg_id_counter
      /\ q.ack_window_size = p.ack_window_size
      /\ q.number_of_datagrams_without_loss = p.number_of_datagrams_without_loss
      /\ q.messages_sent = marked
      /\ q.ack_delay_history = p.ack_delay_history
      /\ q.queue_to_send = p.queue_to_send
      /\ q.messages_received = p.messages_received
  BY <1>2 DEF PartnerOK, IsPartner
<1>6. PartnerOK(q)
  BY <1>1, <1>4, <1>5 DEF PartnerOK
<1>7. p.my_msg_id_received <= p.my_msg_id_received
  BY DEF PartnerOK
<1>8. Acknowledges(p, q, p.my_msg_id_received)
  BY <1>1, <1>5, <1>7 DEF Acknowledges
<1>9. QED
  BY <1>6, <1>8 DEF q

\* An acknowledgement keeps a partner well-formed, whatever it says: the counter
\* of what is confirmed can only grow.
LEMMA HandleAckOK ==
  ASSUME NEW p, PartnerOK(p), NEW rel \in Nat, NEW missing_count, NEW survive \in Nat
  PROVE  LET q == handle_message_acknowledge(p, rel, missing_count, survive)
         IN  /\ PartnerOK(q)
             /\ Acknowledges(p, q, convert_msg_id_to_abs(rel, p.my_msg_id_counter))
<1> DEFINE abs == convert_msg_id_to_abs(rel, p.my_msg_id_counter)
           n == (p.number_of_datagrams_without_loss + (abs - p.my_msg_id_received)) % UnsignedEnd
           counted == [p EXCEPT !.number_of_datagrams_without_loss = n]
           news == [counted EXCEPT !.my_msg_id_received = abs]
<1>1. p.my_msg_id_counter \in Nat /\ abs \in Int
  BY ConvertType DEF PartnerOK
<1>2. n \in 0 .. UnsignedEnd - 1
  <2> DEFINE all == p.number_of_datagrams_without_loss + (abs - p.my_msg_id_received)
  <2>1. /\ p.number_of_datagrams_without_loss \in Int
        /\ p.my_msg_id_received \in Int
    BY DEF PartnerOK
  <2>2. all \in Int
    BY <1>1, <2>1
  <2> HIDE DEF all
  <2>3. all % UnsignedEnd \in 0 .. UnsignedEnd - 1
    BY <2>2, PartnerAssumption
  <2>4. QED
    BY <2>3 DEF all
<1>3. HIDE DEF n, abs
<1>4. /\ PartnerOK(counted)
      /\ counted.his_msg_id_received = p.his_msg_id_received
      /\ counted.my_msg_id_received = p.my_msg_id_received
      /\ counted.my_msg_id_counter = p.my_msg_id_counter
      /\ counted.ack_window_size = p.ack_window_size
      /\ counted.messages_sent = p.messages_sent
      /\ counted.messages_received = p.messages_received
  <2>1. IsPartner(counted)
    <3>1. IsPartner(p)
      BY DEF PartnerOK
    <3>2. QED
      BY <3>1 DEF IsPartner
  <2>2. /\ counted.his_msg_id_received = p.his_msg_id_received
        /\ counted.my_msg_id_received = p.my_msg_id_received
        /\ counted.my_msg_id_counter = p.my_msg_id_counter
        /\ counted.ack_window_size = p.ack_window_size
        /\ counted.number_of_datagrams_without_loss = n
        /\ counted.messages_sent = p.messages_sent
        /\ counted.ack_delay_history = p.ack_delay_history
        /\ counted.queue_to_send = p.queue_to_send
        /\ counted.messages_received = p.messages_received
    BY DEF PartnerOK, IsPartner
  <2>3. HIDE DEF counted
  <2>4. QED
    BY <1>2, <2>1, <2>2 DEF PartnerOK
<1>5. ASSUME confirms_more(p, abs)
      PROVE  LET q == erase_acknowledged_messages(news, survive)
             IN  PartnerOK(q) /\ Acknowledges(p, q, abs)
  <2>1. abs \in Nat
    <3>1. p.my_msg_id_received \in Nat
      BY DEF PartnerOK
    <3>2. abs > p.my_msg_id_received
      BY <1>5 DEF confirms_more
    <3>3. QED
      BY <1>1, <3>1, <3>2
  <2>2. news = [counted EXCEPT !.my_msg_id_received = abs]
    OBVIOUS
  <2>3. HIDE DEF counted, news
  <2>4. IsPartner(news)
    BY <1>4, <2>2 DEF PartnerOK, IsPartner
  <2>5. /\ news.his_msg_id_received = counted.his_msg_id_received
        /\ news.my_msg_id_received = abs
        /\ news.my_msg_id_counter = counted.my_msg_id_counter
        /\ news.ack_window_size = counted.ack_window_size
        /\ news.number_of_datagrams_without_loss = counted.number_of_datagrams_without_loss
        /\ news.messages_sent = counted.messages_sent
        /\ news.ack_delay_history = counted.ack_delay_history
        /\ news.queue_to_send = counted.queue_to_send
        /\ news.messages_received = counted.messages_received
    BY <1>4, <2>2 DEF PartnerOK, IsPartner
  <2>6. PartnerOK(news)
    BY <1>4, <2>1, <2>4, <2>5 DEF PartnerOK
  <2> DEFINE q == erase_acknowledged_messages(news, survive)
  <2>7. PartnerOK(q) /\ Acknowledges(news, q, abs)
    BY <2>5, <2>6, EraseOK
  <2>8. p.my_msg_id_received <= abs
    BY <2>1, <1>5 DEF confirms_more, PartnerOK
  <2>9. HIDE DEF q
  <2>10. Acknowledges(p, q, abs)
    BY <1>4, <2>5, <2>7, <2>8 DEF Acknowledges
  <2>11. QED
    BY <2>7, <2>10 DEF q
<1>6. handle_message_acknowledge(p, rel, missing_count, survive)
        = IF abs > p.my_msg_id_counter THEN p
          ELSE mark_missing(IF confirms_more(p, abs)
                              THEN erase_acknowledged_messages(news, survive)
                              ELSE counted, missing_count)
  BY DEF handle_message_acknowledge, abs, n
<1> DEFINE q == handle_message_acknowledge(p, rel, missing_count, survive)
<1>7. CASE abs > p.my_msg_id_counter
  <2>1. q = p
    BY <1>6, <1>7
  <2>2. p.my_msg_id_received <= p.my_msg_id_received
    BY DEF PartnerOK
  <2>3. HIDE DEF q
  <2>4. PartnerOK(q) /\ Acknowledges(p, q, abs)
    BY <2>1, <2>2 DEF Acknowledges
  <2>5. QED
    BY <2>4 DEF q, abs
<1>8. CASE ~(abs > p.my_msg_id_counter)
  <2> DEFINE erased == IF confirms_more(p, abs)
                         THEN erase_acknowledged_messages(news, survive)
                         ELSE counted
  <2>1. q = mark_missing(erased, missing_count)
    BY <1>6, <1>8
  <2>2. Acknowledges(p, counted, abs)
    <3>1. p.my_msg_id_received <= p.my_msg_id_received
      BY DEF PartnerOK
    <3>2. HIDE DEF counted
    <3>3. QED
      BY <1>4, <3>1 DEF Acknowledges
  <2>3. PartnerOK(erased) /\ Acknowledges(p, erased, abs)
    <3>1. HIDE DEF counted, news
    <3>2. QED
      BY <1>4, <1>5, <2>2
  <2>4. HIDE DEF erased, q
  <2>5. PartnerOK(q) /\ Acknowledges(erased, q, erased.my_msg_id_received)
    BY <2>1, <2>3, MarkMissingOK
  <2>6. Acknowledges(p, q, abs)
    BY <2>3, <2>5 DEF Acknowledges
  <2>7. QED
    BY <2>5, <2>6 DEF q, abs
<1>9. QED
  BY <1>7, <1>8

\* first_missing finds the number after the longest run of buffered messages.
LEMMA FirstMissing ==
  ASSUME NEW p, PartnerOK(p)
  PROVE  LET n == first_missing(p, p.his_msg_id_received)
         IN  /\ n \in Nat
             /\ n > p.his_msg_id_received
             /\ n \notin DOMAIN p.messages_received
             /\ \A k \in p.his_msg_id_received + 1 .. n - 1 : k \in DOMAIN p.messages_received
<1> DEFINE D == DOMAIN p.messages_received
           his == p.his_msg_id_received
           candidates == {his + 1} \cup {k + 1 : k \in D}
           Right(n) == n \notin D /\ \A k \in his + 1 .. n - 1 : k \in D
           free == {n \in Nat : n > his /\ n \notin D}
<1>1. D \subseteq Nat /\ his \in Nat /\ \A id \in D : his < id
  BY DEF PartnerOK, IsMap, IsAhead
<1>2. PICK last \in {his} \cup D : \A id \in D : id <= last
  BY DEF PartnerOK, IsAhead
<1>3. last + 1 \in free
  <2>1. last \in Nat /\ last >= his
    BY <1>1, <1>2
  <2>2. last + 1 \notin D
    BY <1>1, <1>2, <2>1
  <2>3. QED
    BY <1>1, <2>1, <2>2
<1>4. PICK n \in free : \A other \in free : n <= other
  BY <1>3, LeastNat
<1>5. n \in candidates /\ Right(n)
  <2>1. ASSUME NEW k \in his + 1 .. n - 1, k \notin D PROVE FALSE
    <3>1. k \in free
      BY <1>1, <1>4, <2>1
    <3>2. n <= k
      BY <1>4, <3>1
    <3>3. QED
      BY <1>1, <1>4, <3>2
  <2>2. Right(n)
    BY <1>4, <2>1
  <2>3. n \in candidates
    <3>1. CASE n = his + 1
      BY <3>1
    <3>2. CASE n # his + 1
      <4>1. n - 1 \in his + 1 .. n - 1 /\ n = (n - 1) + 1
        BY <1>1, <1>4, <3>2
      <4>2. n - 1 \in D
        BY <2>2, <4>1
      <4>3. QED
        BY <4>1, <4>2
    <3>3. QED
      BY <3>1, <3>2
  <2>4. QED
    BY <2>2, <2>3
<1> DEFINE chosen == CHOOSE c \in candidates : Right(c)
<1>6. chosen \in candidates /\ Right(chosen)
  BY <1>5
<1>7. first_missing(p, his) = chosen
  BY DEF first_missing
<1>8. chosen \in Nat /\ chosen > his
  <2>1. \A c \in candidates : c \in Nat /\ c > his
    BY <1>1
  <2>2. QED
    BY <1>6, <2>1
<1>9. QED
  BY <1>6, <1>7, <1>8

\* Any data message keeps a partner well-formed, and hands bodies to the user.
LEMMA HandleDataOK ==
  ASSUME NEW p, PartnerOK(p), NEW rel \in Nat, NEW body \in Bodies
  PROVE  LET result == handle_data_message(p, rel, body)
         IN  /\ PartnerOK(result.partner)
             /\ result.messages \in Seq(Bodies)
             /\ Receives(p, result.partner, result.messages,
                         convert_msg_id_to_abs(rel, p.his_msg_id_received), body)
<1> DEFINE abs == convert_msg_id_to_abs(rel, p.his_msg_id_received)
           his == p.his_msg_id_received
           buffer == p.messages_received
           next == first_missing(p, his)
           result == handle_data_message(p, rel, body)
           longer == [id \in DOMAIN buffer \cup {abs} |->
                        IF id = abs THEN body ELSE buffer[id]]
           rest == [id \in {k \in DOMAIN buffer : k >= next} |-> buffer[id]]
           run == [i \in 1 .. next - his - 1 |-> buffer[his + i]]
<1>1. his \in Nat /\ abs \in Int
  BY ConvertType DEF PartnerOK
<1>2. /\ DOMAIN buffer \subseteq Nat
      /\ \A id \in DOMAIN buffer : buffer[id] \in Bodies
      /\ \A id \in DOMAIN buffer : his < id
  BY DEF PartnerOK, IsMap, IsAhead
<1>3. /\ next \in Nat
      /\ next > his
      /\ next \notin DOMAIN buffer
      /\ \A k \in his + 1 .. next - 1 : k \in DOMAIN buffer
  BY FirstMissing
<1>4. PICK last \in {his} \cup DOMAIN buffer : \A id \in DOMAIN buffer : id <= last
  BY DEF PartnerOK, IsAhead
<1>5. \/ result = [partner |-> p, messages |-> << >>]
      \/ /\ abs > his
         /\ result = [partner  |-> [p EXCEPT !.messages_received = longer],
                      messages |-> << >>]
      \/ /\ abs = his
         /\ result = [partner  |-> [p EXCEPT !.his_msg_id_received = next,
                                             !.messages_received = rest],
                      messages |-> <<body>> \o run]
  <2>1. \/ is_duplicate(p, abs) \/ abs > his \/ abs = his
    BY <1>1 DEF is_duplicate
  <2>2. HIDE DEF abs, next
  <2>3. QED
    BY <2>1 DEF handle_data_message, abs, next
<1>6. HIDE DEF abs, next, result
<1>7. abs > his => (IsMap(longer, Bodies) /\ IsAhead(longer, his))
  <2>1. SUFFICES ASSUME abs > his PROVE IsMap(longer, Bodies) /\ IsAhead(longer, his)
    OBVIOUS
  <2>2. abs \in Nat
    BY <1>1, <2>1
  <2>3. \A id \in DOMAIN longer : longer[id] \in Bodies
    BY <1>2
  <2>4. IsMap(longer, Bodies)
    BY <1>2, <2>2, <2>3 DEF IsMap
  <2>5. \A id \in DOMAIN longer : his < id
    BY <1>2, <2>1
  <2>6. \E l \in {his} \cup DOMAIN longer : \A id \in DOMAIN longer : id <= l
    <3>1. last \in Nat
      BY <1>1, <1>2, <1>4
    <3>2. CASE abs <= last
      <4>1. \A id \in DOMAIN longer : id <= last
        BY <1>4, <3>2
      <4>2. last \in {his} \cup DOMAIN longer
        BY <1>4
      <4>3. QED
        BY <4>1, <4>2
    <3>3. CASE abs > last
      <4>1. \A id \in DOMAIN longer : id <= abs
        BY <1>2, <1>4, <2>2, <3>1, <3>3
      <4>2. abs \in DOMAIN longer
        OBVIOUS
      <4>3. QED
        BY <4>1, <4>2
    <3>4. QED
      BY <2>2, <3>1, <3>2, <3>3
  <2>7. QED
    BY <2>4, <2>5, <2>6 DEF IsAhead
<1>8. IsMap(rest, Bodies) /\ IsAhead(rest, next)
  <2>1. DOMAIN rest \subseteq Nat /\ \A id \in DOMAIN rest : rest[id] \in Bodies
    BY <1>2
  <2>2. IsMap(rest, Bodies)
    BY <2>1 DEF IsMap
  <2>3. \A id \in DOMAIN rest : next < id
    BY <1>2, <1>3
  <2>4. \E l \in {next} \cup DOMAIN rest : \A id \in DOMAIN rest : id <= l
    <3>1. last \in Nat
      BY <1>1, <1>2, <1>4
    <3>2. CASE last >= next
      <4>1. last \in DOMAIN rest
        BY <1>1, <1>3, <1>4, <3>1, <3>2
      <4>2. \A id \in DOMAIN rest : id <= last
        BY <1>4
      <4>3. QED
        BY <4>1, <4>2
    <3>3. CASE last < next
      <4>1. DOMAIN rest = {}
        BY <1>2, <1>3, <1>4, <3>1, <3>3
      <4>2. QED
        BY <4>1
    <3>4. QED
      BY <1>3, <3>1, <3>2, <3>3
  <2>5. QED
    BY <2>2, <2>3, <2>4 DEF IsAhead
<1>9. /\ <<body>> \o run \in Seq(Bodies)
      /\ Len(<<body>> \o run) = next - his
      /\ \A i \in 1 .. next - his :
           (<<body>> \o run)[i] = IF i = 1 THEN body ELSE buffer[his + i - 1]
  <2>1. \A i \in 1 .. next - his - 1 : buffer[his + i] \in Bodies
    <3>1. \A i \in 1 .. next - his - 1 : his + i \in his + 1 .. next - 1
      BY <1>1, <1>3
    <3>2. QED
      BY <1>2, <1>3, <3>1
  <2>2. next - his - 1 \in Nat
    BY <1>1, <1>3
  <2>3. run \in Seq(Bodies) /\ Len(run) = next - his - 1
    BY <2>1, <2>2
  <2>4. <<body>> \in Seq(Bodies) /\ Len(<<body>>) = 1 /\ <<body>>[1] = body
    OBVIOUS
  <2>5. /\ <<body>> \o run \in Seq(Bodies)
        /\ Len(<<body>> \o run) = 1 + (next - his - 1)
        /\ \A i \in 1 .. 1 + (next - his - 1) :
             (<<body>> \o run)[i] = IF i <= 1 THEN <<body>>[i] ELSE run[i - 1]
    <3> DEFINE one == <<body>>
               size == next - his - 1
    <3>1. one \in Seq(Bodies) /\ Len(one) = 1 /\ run \in Seq(Bodies) /\ Len(run) = size
      BY <2>3, <2>4
    <3>2. HIDE DEF one, size, run
    <3>3. /\ one \o run \in Seq(Bodies)
          /\ Len(one \o run) = 1 + size
          /\ \A i \in 1 .. 1 + size :
               (one \o run)[i] = IF i <= 1 THEN one[i] ELSE run[i - 1]
      <4>1. /\ one \o run \in Seq(Bodies)
            /\ Len(one \o run) = Len(one) + Len(run)
            /\ \A i \in 1 .. Len(one) + Len(run) :
                 (one \o run)[i] = IF i <= Len(one) THEN one[i] ELSE run[i - Len(one)]
        BY <3>1, ConcatProperties, Zenon
      <4>2. QED
        BY <3>1, <4>1, Zenon
    <3>4. QED
      BY <3>3, Zenon DEF one, size
  <2>6. 1 + (next - his - 1) = next - his
    BY <1>1, <1>3
  <2>7. ASSUME NEW i \in 1 .. next - his
        PROVE  (<<body>> \o run)[i] = IF i = 1 THEN body ELSE buffer[his + i - 1]
    <3>1. CASE i = 1
      BY <2>4, <2>5, <2>6, <3>1
    <3>2. CASE i # 1
      <4>1. i - 1 \in 1 .. next - his - 1 /\ his + (i - 1) = his + i - 1 /\ ~(i <= 1)
        BY <1>1, <1>3, <3>2
      <4>2. (<<body>> \o run)[i] = run[i - 1]
        BY <2>5, <2>6, <4>1
      <4>3. run[i - 1] = buffer[his + (i - 1)]
        BY <4>1
      <4>4. QED
        BY <3>2, <4>1, <4>2, <4>3
    <3>3. QED
      BY <3>1, <3>2
  <2>8. QED
    BY <2>5, <2>6, <2>7
<1>10. /\ DOMAIN longer = DOMAIN buffer \cup {abs}
       /\ \A id \in DOMAIN longer : longer[id] = IF id = abs THEN body ELSE buffer[id]
       /\ DOMAIN rest \subseteq DOMAIN buffer
       /\ \A id \in DOMAIN rest : rest[id] = buffer[id]
  OBVIOUS
<1> DEFINE all == <<body>> \o run
<1>11. HIDE DEF longer, rest, all
<1>12. ASSUME NEW q,
              \/ q = [p EXCEPT !.messages_received = longer] /\ abs > his
              \/ q = [p EXCEPT !.his_msg_id_received = next, !.messages_received = rest]
       PROVE  /\ PartnerOK(q)
              /\ q.my_msg_id_received = p.my_msg_id_received
              /\ q.my_msg_id_counter = p.my_msg_id_counter
              /\ q.ack_window_size = p.ack_window_size
              /\ q.messages_sent = p.messages_sent
              /\ \/ q.his_msg_id_received = his /\ q.messages_received = longer /\ abs > his
                 \/ q.his_msg_id_received = next /\ q.messages_received = rest
  <2>1. IsPartner(q)
    BY <1>12 DEF PartnerOK, IsPartner
  <2>2. /\ q.my_msg_id_received = p.my_msg_id_received
        /\ q.my_msg_id_counter = p.my_msg_id_counter
        /\ q.ack_window_size = p.ack_window_size
        /\ q.number_of_datagrams_without_loss = p.number_of_datagrams_without_loss
        /\ q.messages_sent = p.messages_sent
        /\ q.ack_delay_history = p.ack_delay_history
        /\ q.queue_to_send = p.queue_to_send
    BY <1>12 DEF PartnerOK, IsPartner
  <2>3. \/ q.his_msg_id_received = his /\ q.messages_received = longer /\ abs > his
        \/ q.his_msg_id_received = next /\ q.messages_received = rest
    BY <1>12 DEF PartnerOK, IsPartner
  <2>4. q.his_msg_id_received \in Nat /\ IsMap(q.messages_received, Bodies)
        /\ IsAhead(q.messages_received, q.his_msg_id_received)
    BY <1>1, <1>3, <1>7, <1>8, <2>3
  <2>5. PartnerOK(q)
    BY <2>1, <2>2, <2>4 DEF PartnerOK
  <2>6. QED
    BY <2>2, <2>3, <2>5
<1> DEFINE q == result.partner
           msgs == result.messages
<1>13. PartnerOK(q) /\ msgs \in Seq(Bodies) /\ Receives(p, q, msgs, abs, body)
  <2>1. << >> \in Seq(Bodies) /\ Len(<< >>) = 0 /\ his - his = 0 /\ (1 .. 0) = {}
    BY <1>1
  <2>2. CASE result = [partner |-> p, messages |-> << >>]
    <3>1. q = p /\ msgs = << >>
      BY <2>2
    <3>2. HIDE DEF q, msgs
    <3>3. QED
      BY <2>1, <3>1 DEF Receives, Holds
  <2>3. CASE /\ abs > his
             /\ result = [partner  |-> [p EXCEPT !.messages_received = longer],
                          messages |-> << >>]
    <3>1. q = [p EXCEPT !.messages_received = longer] /\ msgs = << >>
      BY <2>3
    <3>2. HIDE DEF q, msgs
    <3>3. q.his_msg_id_received = his /\ q.messages_received = longer
      BY <3>1 DEF PartnerOK, IsPartner
    <3>4. \A id \in DOMAIN longer : Holds(p, abs, body, id, longer[id])
      BY <1>10 DEF Holds
    <3>5. /\ PartnerOK(q)
          /\ q.my_msg_id_received = p.my_msg_id_received
          /\ q.my_msg_id_counter = p.my_msg_id_counter
          /\ q.ack_window_size = p.ack_window_size
          /\ q.messages_sent = p.messages_sent
      BY <1>12, <2>3, <3>1
    <3>6. QED
      BY <2>1, <3>1, <3>3, <3>4, <3>5 DEF Receives
  <2>4. CASE /\ abs = his
             /\ result = [partner  |-> [p EXCEPT !.his_msg_id_received = next,
                                                 !.messages_received = rest],
                          messages |-> all]
    <3>1. /\ q = [p EXCEPT !.his_msg_id_received = next, !.messages_received = rest]
          /\ msgs = all
      BY <2>4
    <3>2. HIDE DEF q, msgs
    <3>3. q.his_msg_id_received = next /\ q.messages_received = rest
      BY <3>1 DEF PartnerOK, IsPartner
    <3>4. \A id \in DOMAIN rest : Holds(p, abs, body, id, rest[id])
      BY <1>10 DEF Holds
    <3>5. /\ PartnerOK(q)
          /\ q.my_msg_id_received = p.my_msg_id_received
          /\ q.my_msg_id_counter = p.my_msg_id_counter
          /\ q.ack_window_size = p.ack_window_size
          /\ q.messages_sent = p.messages_sent
      BY <1>12, <3>1
    <3>6. /\ all \in Seq(Bodies)
          /\ Len(all) = next - his
          /\ \A i \in 1 .. next - his : all[i] = IF i = 1 THEN body ELSE buffer[his + i - 1]
      BY <1>9 DEF all
    <3>7. ASSUME NEW i \in 1 .. Len(all)
          PROVE  Holds(p, abs, body, his + i - 1, all[i])
      <4>1. CASE i = 1
        <5>1. his + i - 1 = abs
          BY <1>1, <2>4, <4>1
        <5>2. QED
          BY <3>6, <4>1, <5>1 DEF Holds
      <4>2. CASE i # 1
        <5>1. his + i - 1 \in his + 1 .. next - 1
          BY <1>1, <1>3, <3>6, <4>2
        <5>2. QED
          BY <1>3, <3>6, <4>2, <5>1 DEF Holds
      <4>3. QED
        BY <4>1, <4>2
    <3>8. QED
      BY <3>1, <3>3, <3>4, <3>5, <3>6, <3>7 DEF Receives
  <2>5. QED
    BY <1>5, <2>2, <2>3, <2>4 DEF all
<1>14. QED
  BY <1>13 DEF result, abs

\* What travels of a datagram is typed as the datagram is.
LEMMA WireType ==
  ASSUME NEW d \in Datagrams
  PROVE  /\ Wire(d).msg_kind = d.msg_kind
         /\ d.msg_kind \in {"m", "p"}
         /\ Wire(d).missing_count = d.missing_count
         /\ Wire(d).receiver_msg_id = convert_msg_to_rem(d.receiver_msg_id)
         /\ Wire(d).receiver_msg_id \in Nat
         /\ d.receiver_msg_id \in Nat
         /\ d.msg_kind = "m" => /\ Wire(d).sender_msg_id = convert_msg_to_rem(d.sender_msg_id)
                                /\ Wire(d).sender_msg_id \in Nat
                                /\ d.sender_msg_id \in Nat
                                /\ Wire(d).data = d.data
                                /\ d.data \in Bodies
<1>1. \A id \in Nat : convert_msg_to_rem(id) \in Nat
  BY MsgIdEndAssumption DEF convert_msg_to_rem
<1>2. CASE d.msg_kind = "m"
  BY <1>1, <1>2 DEF Datagrams, Wire
<1>3. CASE d.msg_kind = "p"
  BY <1>1, <1>3 DEF Datagrams, Wire
<1>4. d.msg_kind \in {"m", "p"}
  BY DEF Datagrams
<1>5. QED
  BY <1>2, <1>3, <1>4

\* A datagram of the network keeps the partner that gets it well-formed.
LEMMA HandleValidOK ==
  ASSUME NEW p, PartnerOK(p), NEW d \in Datagrams, NEW survive \in Nat
  PROVE  LET result == handle_valid_message(p, Wire(d), survive)
             acked  == handle_message_acknowledge(p, Wire(d).receiver_msg_id,
                                                  Wire(d).missing_count, survive)
             confirmed == convert_msg_id_to_abs(convert_msg_to_rem(d.receiver_msg_id),
                                                p.my_msg_id_counter)
             abs == convert_msg_id_to_abs(convert_msg_to_rem(d.sender_msg_id),
                                          p.his_msg_id_received)
         IN  /\ PartnerOK(result.partner)
             /\ result.messages \in Seq(Bodies)
             /\ Acknowledges(p, acked, confirmed)
             /\ d.msg_kind = "m" =>
                  Receives(acked, result.partner, result.messages, abs, d.data)
             /\ d.msg_kind = "p" => result.partner = acked /\ result.messages = << >>
<1> DEFINE result == handle_valid_message(p, Wire(d), survive)
           acked == handle_message_acknowledge(p, Wire(d).receiver_msg_id,
                                               Wire(d).missing_count, survive)
           confirmed == convert_msg_id_to_abs(convert_msg_to_rem(d.receiver_msg_id),
                                              p.my_msg_id_counter)
           abs == convert_msg_id_to_abs(convert_msg_to_rem(d.sender_msg_id),
                                        p.his_msg_id_received)
<1>1. PartnerOK(acked) /\ Acknowledges(p, acked, confirmed)
  BY WireType, HandleAckOK
<1>2. acked.his_msg_id_received = p.his_msg_id_received
  <2> HIDE DEF acked, confirmed
  <2>1. QED
    BY <1>1 DEF Acknowledges
<1>3. CASE d.msg_kind = "m"
  <2>1. result = handle_data_message(acked, Wire(d).sender_msg_id, Wire(d).data)
    BY <1>3, WireType DEF handle_valid_message
  <2>2. /\ Wire(d).sender_msg_id \in Nat /\ Wire(d).data \in Bodies
        /\ Wire(d).sender_msg_id = convert_msg_to_rem(d.sender_msg_id)
        /\ Wire(d).data = d.data
    BY <1>3, WireType
  <2>3. HIDE DEF acked, result, confirmed
  <2>4. /\ PartnerOK(result.partner)
        /\ result.messages \in Seq(Bodies)
        /\ Receives(acked, result.partner, result.messages, abs, d.data)
    BY <1>1, <1>2, <2>1, <2>2, HandleDataOK
  <2>5. QED
    BY <1>1, <1>3, <2>4 DEF acked, result, confirmed
<1>4. CASE d.msg_kind = "p"
  <2>1. result = [partner |-> acked, messages |-> << >>]
    BY <1>4, WireType DEF handle_valid_message
  <2>2. << >> \in Seq(Bodies)
    OBVIOUS
  <2>3. HIDE DEF acked, result, confirmed
  <2>4. result.partner = acked /\ result.messages = << >>
    BY <2>1
  <2>5. QED
    BY <1>1, <1>4, <2>2, <2>4 DEF acked, result, confirmed
<1>5. QED
  BY <1>3, <1>4, WireType

\* What a well-formed partner sends are datagrams.
LEMMA SendType ==
  ASSUME NEW p, PartnerOK(p)
  PROVE  /\ send_ping_message(p) \in Datagrams
         /\ \A id \in DOMAIN p.messages_sent : send_regular_message(p, id) \in Datagrams
<1>1. compute_missing_count(p) \in 0 .. MissingCountMax /\ p.his_msg_id_received \in Nat
  BY MissingCountType DEF PartnerOK
<1>2. \A id \in DOMAIN p.messages_sent : id \in Nat /\ p.messages_sent[id].msg \in Bodies
  BY DEF PartnerOK, IsMap, SentMessages
<1>3. QED
  BY <1>1, <1>2 DEF send_ping_message, send_regular_message, Datagrams

\* Bookkeeping after numbering is still numbering.
LEMMA NumbersThen ==
  ASSUME NEW p, NEW q, NEW r, PartnerOK(p), PartnerOK(q), PartnerOK(r),
         Numbers(p, q), Numbers(q, r),
         r.my_msg_id_counter = q.my_msg_id_counter,
         \A id \in DOMAIN q.messages_sent : r.messages_sent[id].msg = q.messages_sent[id].msg
  PROVE  Numbers(p, r)
<1>1. q.my_msg_id_counter .. q.my_msg_id_counter - 1 = {} /\ q.my_msg_id_counter \in Nat
  BY DEF PartnerOK
<1>2. DOMAIN r.messages_sent = DOMAIN q.messages_sent
  BY <1>1 DEF Numbers
<1>3. QED
  BY <1>2 DEF Numbers

-----------------------------------------------------------------------------
(* The queue *)

\* Numbering takes nothing out of the queue and gives the bodies numbers in order.
LEMMA PrepareNumbers ==
  ASSUME NEW p, PartnerOK(p), NEW bodies \in Seq(Bodies)
  PROVE  LET q == prepare_messages_to_send(p, bodies)
             c == p.my_msg_id_counter
         IN  /\ q.my_msg_id_counter = c + Len(bodies)
             /\ q.queue_to_send = p.queue_to_send
             /\ \A k \in c .. c + Len(bodies) - 1 :
                  /\ k \in DOMAIN q.messages_sent
                  /\ q.messages_sent[k].msg = bodies[k - c + 1]
<1> DEFINE c == p.my_msg_id_counter
           fresh == c .. c + Len(bodies) - 1
           kept == p.messages_sent
           sent == [id \in DOMAIN kept \cup fresh |->
                      IF id \in fresh THEN SentMessage(bodies[id - c + 1]) ELSE kept[id]]
           q == prepare_messages_to_send(p, bodies)
<1>1. q = [p EXCEPT !.my_msg_id_counter = c + Len(bodies), !.messages_sent = sent]
  BY DEF prepare_messages_to_send
<1> HIDE DEF q
<1>2. \A k \in fresh : k \in DOMAIN sent /\ sent[k].msg = bodies[k - c + 1]
  BY DEF SentMessage
<1> HIDE DEF sent
<1>3. /\ q.my_msg_id_counter = c + Len(bodies)
      /\ q.queue_to_send = p.queue_to_send
      /\ q.messages_sent = sent
  BY <1>1 DEF PartnerOK, IsPartner
<1>4. QED
  BY <1>2, <1>3 DEF q

\* The loop numbers the first n of the queue, and the rest stays.
LEMMA DrainNumbers ==
  ASSUME NEW p, PartnerOK(p)
  PROVE  LET q == drain_queue_to_send(p)
             c == p.my_msg_id_counter
         IN  \E n \in 0 .. Len(p.queue_to_send) :
               /\ q.my_msg_id_counter = c + n
               /\ q.queue_to_send = SubSeq(p.queue_to_send, n + 1, Len(p.queue_to_send))
               /\ \A k \in c .. c + n - 1 : /\ k \in DOMAIN q.messages_sent
                                            /\ q.messages_sent[k].msg = p.queue_to_send[k - c + 1]
<1> DEFINE c == p.my_msg_id_counter
           queue == p.queue_to_send
           room == std_max(0, p.ack_window_size + 1 - count_unacknowledged_messages(p))
           n == std_min(room, Len(queue))
           head == SubSeq(queue, 1, n)
           numbered_ == prepare_messages_to_send(p, head)
           tail == SubSeq(queue, n + 1, Len(queue))
           q == drain_queue_to_send(p)
<1>1. /\ p.ack_window_size \in Nat /\ c \in Nat /\ p.my_msg_id_received \in Nat
      /\ queue \in Seq(Bodies) /\ Len(queue) \in Nat
  BY LenProperties DEF PartnerOK
<1>2. room \in Nat
  BY <1>1 DEF std_max, count_unacknowledged_messages
<1> HIDE DEF room
<1>3. n \in 0 .. Len(queue)
  BY <1>1, <1>2 DEF std_min
<1> HIDE DEF n
<1>4. /\ head \in Seq(Bodies)
      /\ Len(head) = n
      /\ \A i \in 1 .. n : head[i] = queue[i]
  BY <1>1, <1>3, SubSeqProperties
<1> HIDE DEF head
<1>5. /\ PartnerOK(numbered_)
      /\ numbered_.my_msg_id_counter = c + n
      /\ \A k \in c .. c + n - 1 : /\ k \in DOMAIN numbered_.messages_sent
                                   /\ numbered_.messages_sent[k].msg = head[k - c + 1]
  BY <1>4, PrepareNumbers, PrepareOK
<1>6. q = [numbered_ EXCEPT !.queue_to_send = tail]
  BY DEF drain_queue_to_send, head, n, room
<1> HIDE DEF numbered_, tail, q
<1>7. /\ q.my_msg_id_counter = c + n
      /\ q.queue_to_send = tail
      /\ q.messages_sent = numbered_.messages_sent
  BY <1>5, <1>6 DEF PartnerOK, IsPartner
<1>8. \A k \in c .. c + n - 1 : head[k - c + 1] = queue[k - c + 1]
  <2>1. \A k \in c .. c + n - 1 : k - c + 1 \in 1 .. n
    BY <1>1, <1>3
  <2>2. QED
    BY <1>4, <2>1
<1>9. \A k \in c .. c + n - 1 : /\ k \in DOMAIN q.messages_sent
                                /\ q.messages_sent[k].msg = queue[k - c + 1]
  BY <1>5, <1>7, <1>8
<1>10. QED
  BY <1>3, <1>7, <1>9 DEF q, tail

\* What is noted of messages that were sent leaves the queue alone,
LEMMA BookkeepingKeepsQueue ==
  ASSUME NEW p, PartnerOK(p), NEW ids
  PROVE  /\ note_sent(p, ids).queue_to_send = p.queue_to_send
         /\ update_window(p, ids).queue_to_send = p.queue_to_send
  BY DEF note_sent, update_window, PartnerOK, IsPartner

\* and so does whatever is received.
LEMMA ReceivingKeepsQueue ==
  ASSUME NEW p, PartnerOK(p), NEW rm, NEW survive
  PROVE  handle_valid_message(p, rm, survive).partner.queue_to_send = p.queue_to_send
<1> DEFINE acked == handle_message_acknowledge(p, rm.receiver_msg_id, rm.missing_count, survive)
<1> DEFINE Same(q, r) == IsPartner(r) /\ r.queue_to_send = q.queue_to_send
<1>6. ASSUME NEW q, IsPartner(q), NEW v
      PROVE  /\ Same(q, [q EXCEPT !.messages_sent = v])
             /\ Same(q, [q EXCEPT !.ack_delay_history = v])
             /\ Same(q, [q EXCEPT !.my_msg_id_received = v])
             /\ Same(q, [q EXCEPT !.number_of_datagrams_without_loss = v])
  BY <1>6 DEF IsPartner
<1>1. ASSUME NEW q, IsPartner(q), NEW count
      PROVE  Same(q, mark_missing(q, count))
  BY <1>1, <1>6 DEF mark_missing
<1>2. ASSUME NEW q, IsPartner(q)
      PROVE  Same(q, erase_acknowledged_messages(q, survive))
  <2> DEFINE delays == push_ack_delay(q, \E id \in acknowledged(q) :
                                           q.messages_sent[id].sent_times = 1, survive)
             kept == [id \in DOMAIN q.messages_sent \ acknowledged(q) |-> q.messages_sent[id]]
             r == [q EXCEPT !.ack_delay_history = delays]
  <2>1. erase_acknowledged_messages(q, survive) = [r EXCEPT !.messages_sent = kept]
    BY DEF erase_acknowledged_messages
  <2> HIDE DEF delays, kept
  <2>2. Same(q, r)
    BY <1>2, <1>6
  <2> HIDE DEF r
  <2>3. Same(r, [r EXCEPT !.messages_sent = kept])
    BY <1>6, <2>2
  <2>4. QED
    BY <2>1, <2>2, <2>3
<1>3. IsPartner(acked) /\ acked.queue_to_send = p.queue_to_send
  <2> DEFINE abs == convert_msg_id_to_abs(rm.receiver_msg_id, p.my_msg_id_counter)
             n == (p.number_of_datagrams_without_loss + (abs - p.my_msg_id_received)) % UnsignedEnd
             counted == [p EXCEPT !.number_of_datagrams_without_loss = n]
             news == [counted EXCEPT !.my_msg_id_received = abs]
             erased == IF confirms_more(p, abs) THEN erase_acknowledged_messages(news, survive)
                                                ELSE counted
  <2>1. acked = IF abs > p.my_msg_id_counter THEN p ELSE mark_missing(erased, rm.missing_count)
    BY DEF handle_message_acknowledge
  <2> HIDE DEF abs, n
  <2>5. IsPartner(p) /\ Same(p, counted)
    BY <1>6 DEF PartnerOK
  <2> HIDE DEF counted
  <2>2. Same(p, counted) /\ Same(p, news)
    BY <1>6, <2>5
  <2> HIDE DEF news
  <2>3. IsPartner(erased) /\ erased.queue_to_send = p.queue_to_send
    BY <1>2, <2>2
  <2> HIDE DEF erased
  <2>4. QED
    BY <1>1, <2>1, <2>3, <2>5
<1> HIDE DEF acked
<1>4. ASSUME NEW rel, NEW body
      PROVE  handle_data_message(acked, rel, body).partner.queue_to_send = acked.queue_to_send
  BY <1>3 DEF handle_data_message, IsPartner
<1>5. QED
  BY <1>3, <1>4 DEF handle_valid_message, acked

=============================================================================
