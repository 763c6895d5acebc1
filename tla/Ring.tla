-------------------------------- MODULE Ring --------------------------------
(***************************************************************************)
(* The bytes of a round buffer: data, buffer_size, free_space, free_pos    *)
(* and fill_pos of cms_round_buffer_s (lib/LibCMS/cms_buffer.h), and what  *)
(* the functions of cms_buffer.c that hold its mutex do with them.         *)
(***************************************************************************)
EXTENDS Integers, Sequences

\* What g_malloc returns.
Junk == -1

NewRing(size) ==
  [data |-> [pos \in 0 .. size - 1 |-> Junk], buffer_size |-> size, free_space |-> size,
   free_pos |-> 0, fill_pos |-> 0]

fill_space(b) == b.buffer_size - b.free_space

clear(b) == [b EXCEPT !.free_pos = 0, !.fill_pos = 0, !.free_space = b.buffer_size]

\* The two memcpy of a range that runs over the end.
at(b, pos) == IF pos >= b.buffer_size THEN b.data[pos - b.buffer_size] ELSE b.data[pos]

put(b, bytes) ==
  [b EXCEPT
     !.data = [pos \in DOMAIN b.data |->
                 IF pos >= b.free_pos /\ pos - b.free_pos < Len(bytes)
                   THEN bytes[pos - b.free_pos + 1]
                 ELSE IF pos + b.buffer_size - b.free_pos < Len(bytes)
                   THEN bytes[pos + b.buffer_size - b.free_pos + 1]
                 ELSE b.data[pos]],
     !.free_pos = (@ + Len(bytes)) % b.buffer_size,
     !.free_space = @ - Len(bytes)]

front(b, n) == [i \in 1 .. n |-> at(b, b.fill_pos + i - 1)]

skip(b, n) ==
  [b EXCEPT !.fill_pos = (@ + n) % b.buffer_size, !.free_space = @ + n]

\* Mutated form: a full ring is taken for an empty one.
copied_by_position(b) ==
  IF b.fill_pos < b.free_pos THEN b.free_pos - b.fill_pos
  ELSE IF b.free_pos < b.fill_pos THEN b.buffer_size - b.fill_pos + b.free_pos
  ELSE 0

\* How much set_size copies.  It is full if the positions are equal and there
\* is something in it.
copied(b) ==
  IF b.fill_pos < b.free_pos THEN b.free_pos - b.fill_pos
  ELSE IF b.free_space < b.buffer_size THEN b.buffer_size - b.fill_pos + b.free_pos
  ELSE 0

set_size(b, size) ==
  IF fill_space(b) > size THEN b
  ELSE [data |-> [pos \in 0 .. size - 1 |->
                    IF pos < copied(b) THEN at(b, b.fill_pos + pos) ELSE Junk],
        buffer_size |-> size,
        free_space |-> b.free_space - b.buffer_size + size,
        free_pos |-> fill_space(b),
        fill_pos |-> 0]

\* The bytes in the ring, the oldest first.
contents(b) == front(b, fill_space(b))

RingOK(b) ==
  /\ DOMAIN b = {"data", "buffer_size", "free_space", "free_pos", "fill_pos"}
  /\ b.buffer_size \in Nat \ {0}
  /\ b.data \in [0 .. b.buffer_size - 1 -> Int]
  /\ b.free_space \in 0 .. b.buffer_size
  /\ b.free_pos \in 0 .. b.buffer_size - 1
  /\ b.fill_pos \in 0 .. b.buffer_size - 1
  /\ b.free_pos = (b.fill_pos + fill_space(b)) % b.buffer_size

=============================================================================
