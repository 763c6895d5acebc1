--------------------------- MODULE MCRoundBuffer ---------------------------
(***************************************************************************)
(* The flags the programs give their round buffers, for TLC.               *)
(***************************************************************************)
EXTENDS RoundBuffer

\* cms_client.c and cms_server_2.c, the buffer of what was received.
ClientFlags == {"READ_BLOCK", "WRITE_GROW"}

\* cms_udp.c and cms_ip.c.
UdpFlags == {"READ_BLOCK", "WRITE_GROW", "WRITE_THROW"}

BlockFlags == {ClientFlags, UdpFlags}

\* Both sides wait, or the writers throw the oldest bytes away.
PipeFlags == {{"READ_BLOCK", "READ_BLOCK_ALL", "WRITE_BLOCK"}, {"READ_BLOCK", "WRITE_BLOCK"},
              {"READ_BLOCK", "WRITE_THROW"}}

\* What a connection's buffer gets when it is closed.
ClosedOnly == {{}}

=============================================================================
