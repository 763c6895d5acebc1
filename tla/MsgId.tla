------------------------------- MODULE MsgId -------------------------------
(***************************************************************************)
(* Message numbers of LibCM's reliable UDP transport.  Inside a process a  *)
(* message number is a 64-bit counter that never wraps in practice; on the *)
(* wire only its remainder modulo msg_id_end travels, and the receiver     *)
(* reconstructs the number from the remainder and from a reference number  *)
(* of its own (lib/LibCM/cm_ip_udp_message.cc).                            *)
(***************************************************************************)
EXTENDS Integers

CONSTANT msg_id_end        \* 0xffff in the code: the modulus of the wire numbers

ASSUME MsgIdEndAssumption == msg_id_end \in Nat \ {0}

\* An upper bound on unacknowledged messages that the window may grow to.
max_sent_messages == msg_id_end \div 4

\* The number congruent to y modulo m that is nearest to the reference;
\* y itself when the reference is not above it.
find_nearest_mod(y, reference, m) ==
  LET x == ((reference - y) \div m) * m + y
  IN  IF reference <= y THEN y
      ELSE IF x < reference - m \div 2 THEN x + m ELSE x

\* From the wire to a number of this process ...
convert_msg_id_to_abs(msg_id_rem, my_id_reference) ==
  find_nearest_mod(msg_id_rem, my_id_reference, msg_id_end)

\* ... and back to the wire.
convert_msg_to_rem(msg_id) == msg_id % msg_id_end

=============================================================================
