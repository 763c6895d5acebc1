---------------------------- MODULE MCUdpSession ----------------------------
(* UdpSession for TLC. *)
EXTENDS UdpSession

Zero == [p \in Peers |-> 0]
One == [p \in Peers |-> 1]
OfClient(n) == [client |-> n, server |-> 0]
OfServer(n) == [client |-> 0, server |-> n]

Nothing == [sends |-> Zero, restarts |-> Zero, premature |-> Zero, leaves |-> Zero, again |-> 0]

\* The client's side gives up, its user leaves, a session is taken up again.
Ends == [Nothing EXCEPT !.sends = OfClient(1), !.premature = OfClient(1), !.leaves = OfClient(1),
                        !.again = 1]

\* Either process restarts once.
Crashes == [Nothing EXCEPT !.sends = OfServer(1), !.restarts = One]

EndsOrCrashes == {Ends, Crashes}

\* The server restarts, and the client gives up a partner that is there.
Reconnecting == {[Nothing EXCEPT !.restarts = OfServer(1), !.premature = OfClient(1)]}

\* The server gives up a partner that is there, and makes him again.
Again == {[Nothing EXCEPT !.sends = OfServer(2), !.premature = OfServer(1), !.again = 1]}

\* The first message has the number whose remainder is 0.
LastInitialId == {msg_id_end - 1}

=============================================================================
