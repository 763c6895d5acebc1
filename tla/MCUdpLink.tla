----------------------------- MODULE MCUdpLink -----------------------------
(* UdpLink for TLC. *)
EXTENDS UdpLink

\* The client's first number is the last before the wire numbers wrap.
WrapFirstId == [client |-> msg_id_end - 1, server |-> 1]

OneWay(n) == [client |-> n, server |-> 0]
BothWays == [client |-> 1, server |-> 1]

Plans2 == {OneWay(2)}
Plans4 == {OneWay(4), BothWays}

=============================================================================
