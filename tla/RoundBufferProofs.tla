------------------------- MODULE RoundBufferProofs -------------------------
(***************************************************************************)
(* A round buffer, shared by any number of threads, of any size and with   *)
(* any flags, implements a sequence of bytes, and its count of messages    *)
(* never falls below what is in it.  Its ring behaves like a sequence for  *)
(* every size and every position: what the functions of cms_buffer.c       *)
(* compute with positions is appending to it, dropping from its front, and *)
(* nothing.  With any kind of content no thread waits for what has already *)
(* come.  And the blocks in a buffer of blocks follow each other without a *)
(* gap, so that what is read is one written block, whole and in its order. *)
(***************************************************************************)
EXTENDS RoundBuffer, SequenceTheorems, WellFoundedInduction, TLAPS

-----------------------------------------------------------------------------
(* The ring *)

\* A position that runs over the end at most once.
LEMMA WrapsOnce ==
  ASSUME NEW m \in Nat \ {0}, NEW pos \in Nat, pos < 2 * m
  PROVE  pos % m = IF pos < m THEN pos ELSE pos - m
<1>1. pos \div m \in Int /\ pos % m \in 0 .. m - 1 /\ pos = m * (pos \div m) + (pos % m)
  OBVIOUS
<1>2. CASE pos < m
  BY <1>2
<1>3. CASE pos >= m
  <2> DEFINE q == pos \div m
  <2>1. q = 1
    <3>1. q < 2
      <4>1. SUFFICES ASSUME q >= 2 PROVE FALSE
        BY <1>1
      <4>2. m * q >= m * 2
        BY <4>1, <1>1
      <4>3. QED
        BY <4>2, <1>1
    <3>2. q > 0
      <4>1. SUFFICES ASSUME q <= 0 PROVE FALSE
        BY <1>1
      <4>2. m * q <= 0
        BY <4>1, <1>1
      <4>3. QED
        BY <4>2, <1>1, <1>3
    <3>3. QED
      BY <3>1, <3>2, <1>1
  <2>2. pos = m + (pos % m)
    BY <1>1, <2>1
  <2>3. QED
    BY <2>2, <1>1, <1>3
<1>4. QED
  BY <1>2, <1>3

\* A new buffer is empty.
LEMMA NewIsEmpty ==
  ASSUME NEW size \in Nat \ {0}
  PROVE  RingOK(NewRing(size)) /\ contents(NewRing(size)) = << >>
<1> DEFINE b == NewRing(size)
<1>1. /\ DOMAIN b = {"data", "buffer_size", "free_space", "free_pos", "fill_pos"}
      /\ b.data \in [0 .. size - 1 -> Int]
      /\ b.buffer_size = size /\ b.free_space = size /\ b.free_pos = 0 /\ b.fill_pos = 0
  BY DEF NewRing, Junk
<1>2. (0 + 0) % size = 0
  BY WrapsOnce
<1>3. RingOK(b)
  BY <1>1, <1>2 DEF RingOK, fill_space
<1>4. contents(b) = << >>
  BY <1>1 DEF contents, front, fill_space
<1>5. QED
  BY <1>3, <1>4

\* What RingOK says of each field.
LEMMA RingFacts ==
  ASSUME NEW b, RingOK(b)
  PROVE  /\ b.buffer_size \in Nat \ {0}
         /\ b.data \in [0 .. b.buffer_size - 1 -> Int]
         /\ b.free_space \in 0 .. b.buffer_size
         /\ b.fill_pos \in 0 .. b.buffer_size - 1
         /\ fill_space(b) \in 0 .. b.buffer_size
         /\ b.free_pos = IF b.fill_pos + fill_space(b) < b.buffer_size
                           THEN b.fill_pos + fill_space(b)
                           ELSE b.fill_pos + fill_space(b) - b.buffer_size
<1> DEFINE pos == b.fill_pos + fill_space(b)
           m == b.buffer_size
<1>1. /\ m \in Nat \ {0}
      /\ b.data \in [0 .. m - 1 -> Int]
      /\ b.free_space \in 0 .. m
      /\ b.fill_pos \in 0 .. m - 1
  BY DEF RingOK
<1>2. fill_space(b) \in 0 .. m
  BY <1>1 DEF fill_space
<1>3. b.free_pos = pos % m
  BY DEF RingOK
<1>4. pos \in Nat /\ pos < 2 * m
  BY <1>1, <1>2
<1>5. pos % m = IF pos < m THEN pos ELSE pos - m
  <2> HIDE DEF pos, m
  <2>1. QED
    BY <1>1, <1>4, WrapsOnce
<1>6. QED
  BY <1>1, <1>2, <1>3, <1>5

\* Clearing empties the buffer.
LEMMA ClearEmpties ==
  ASSUME NEW b, RingOK(b)
  PROVE  RingOK(clear(b)) /\ contents(clear(b)) = << >>
<1> DEFINE c == clear(b)
<1>1. /\ DOMAIN c = {"data", "buffer_size", "free_space", "free_pos", "fill_pos"}
      /\ c.data = b.data /\ c.buffer_size = b.buffer_size
      /\ c.free_space = b.buffer_size /\ c.free_pos = 0 /\ c.fill_pos = 0
  BY DEF clear, RingOK
<1>2. fill_space(c) = 0
  BY <1>1, RingFacts DEF fill_space
<1>3. (0 + 0) % b.buffer_size = 0
  BY RingFacts, WrapsOnce
<1>4. RingOK(c)
  BY <1>1, <1>2, <1>3, RingFacts DEF RingOK
<1>5. contents(c) = << >>
  BY <1>2 DEF contents, front
<1>6. QED
  BY <1>4, <1>5

\* Where the next byte goes, before and after k bytes were written.
LEMMA NextFree ==
  ASSUME NEW m \in Nat \ {0}, NEW f \in 0 .. m - 1, NEW n \in 0 .. m, NEW k \in Nat, n + k <= m,
         NEW p, p = IF f + n < m THEN f + n ELSE f + n - m
  PROVE  (p + k) % m = (f + (n + k)) % m /\ (p + k) % m \in 0 .. m - 1
<1> DEFINE rem(pos) == pos % m
<1>1. ASSUME NEW pos \in Nat, pos < 2 * m
      PROVE  rem(pos) = IF pos < m THEN pos ELSE pos - m
  BY <1>1, WrapsOnce
<1> HIDE DEF rem
<1>2. /\ p + k \in Nat /\ p + k < 2 * m
      /\ f + (n + k) \in Nat /\ f + (n + k) < 2 * m
  OBVIOUS
<1>3. /\ rem(p + k) = IF p + k < m THEN p + k ELSE p + k - m
      /\ rem(f + (n + k)) = IF f + (n + k) < m THEN f + (n + k) ELSE f + (n + k) - m
  BY <1>1, <1>2
<1>4. rem(p + k) = rem(f + (n + k)) /\ rem(p + k) \in 0 .. m - 1
  BY <1>2, <1>3
<1>5. QED
  BY <1>4 DEF rem

\* Writing appends, wherever the ring is cut.
THEOREM PutAppends ==
  ASSUME NEW b, RingOK(b), NEW bytes \in Seq(Int), Len(bytes) <= b.free_space
  PROVE  /\ RingOK(put(b, bytes))
         /\ contents(put(b, bytes)) = contents(b) \o bytes
<1> DEFINE c == put(b, bytes)
           m == b.buffer_size
           n == fill_space(b)
           k == Len(bytes)
           f == b.fill_pos
           p == b.free_pos
           data == b.data
<1>1. /\ m \in Nat \ {0} /\ n \in 0 .. m /\ f \in 0 .. m - 1
      /\ k \in Nat /\ n + k <= m
      /\ p = IF f + n < m THEN f + n ELSE f + n - m
  BY RingFacts DEF fill_space
<1>2. data \in [0 .. m - 1 -> Int]
  BY RingFacts
<1>3. \A i \in 1 .. k : bytes[i] \in Int
  OBVIOUS
<1>4. /\ DOMAIN c = {"data", "buffer_size", "free_space", "free_pos", "fill_pos"}
      /\ c.buffer_size = m /\ c.fill_pos = f
      /\ c.free_space = b.free_space - k
  BY DEF put, RingOK
<1>5. c.free_pos = (p + k) % m
  BY DEF put, RingOK
<1>6. c.data = [pos \in 0 .. m - 1 |->
                  IF pos >= p /\ pos - p < k THEN bytes[pos - p + 1]
                  ELSE IF pos + m - p < k THEN bytes[pos + m - p + 1]
                  ELSE data[pos]]
  BY <1>2 DEF put, RingOK
<1>7. fill_space(c) = n + k
  BY <1>1, <1>4, RingFacts DEF fill_space
<1>8. /\ contents(b) = [i \in 1 .. n |-> at(b, f + i - 1)]
      /\ contents(c) = [i \in 1 .. n + k |-> at(c, f + i - 1)]
  BY <1>4, <1>7 DEF contents, front
<1>9. \A pos \in Int :
         /\ at(b, pos) = IF pos >= m THEN data[pos - m] ELSE data[pos]
         /\ at(c, pos) = IF pos >= m THEN c.data[pos - m] ELSE c.data[pos]
  BY <1>4 DEF at
<1> DEFINE new == c.data
<1> HIDE DEF c, m, n, k, f, p, data, new
<1>10. new \in [0 .. m - 1 -> Int]
  <2>1. \A pos \in 0 .. m - 1 : /\ pos >= p /\ pos - p < k => pos - p + 1 \in 1 .. k
                                /\ pos + m - p < k => pos + m - p + 1 \in 1 .. k
    BY <1>1
  <2>2. QED
    BY <1>2, <1>3, <1>6, <2>1 DEF new
<1>11. RingOK(c)
  <2>1. (p + k) % m = (f + (n + k)) % m /\ (p + k) % m \in 0 .. m - 1
    BY <1>1, NextFree
  <2>2. c.free_space \in 0 .. m
    BY <1>1, <1>4, RingFacts DEF fill_space, m, n
  <2>3. QED
    BY <1>1, <1>4, <1>5, <1>7, <1>10, <2>1, <2>2 DEF RingOK, new
<1>12. ASSUME NEW i \in 1 .. n + k, NEW q \in Int, q = f + i - 1
       PROVE  \E pos \in 0 .. m - 1 : /\ pos = IF q >= m THEN q - m ELSE q
                                      /\ at(c, q) = new[pos]
                                      /\ at(b, q) = data[pos]
  <2>1. q >= 0 /\ q < 2 * m
    BY <1>1, <1>12
  <2>2. /\ at(b, q) = IF q >= m THEN data[q - m] ELSE data[q]
        /\ at(c, q) = IF q >= m THEN new[q - m] ELSE new[q]
    BY <1>9 DEF new
  <2>3. CASE q >= m
    <3>1. q - m \in 0 .. m - 1
      BY <1>1, <2>1, <2>3
    <3>2. QED
      BY <2>2, <2>3, <3>1
  <2>4. CASE ~(q >= m)
    <3>1. q \in 0 .. m - 1
      BY <1>1, <2>1, <2>4
    <3>2. QED
      BY <2>2, <2>4, <3>1
  <2>5. QED
    BY <2>3, <2>4
<1>13. ASSUME NEW i \in 1 .. n
       PROVE  at(c, f + i - 1) = at(b, f + i - 1) /\ at(b, f + i - 1) \in Int
  <2>1. i \in 1 .. n + k
    BY <1>1
  <2>2. PICK q \in Int : q = f + i - 1
    BY <1>1
  <2>3. PICK pos \in 0 .. m - 1 : /\ pos = IF q >= m THEN q - m ELSE q
                                  /\ at(c, q) = new[pos]
                                  /\ at(b, q) = data[pos]
    BY <1>12, <2>1, <2>2
  <2>4. ~(pos >= p /\ pos - p < k) /\ ~(pos + m - p < k)
    <3>1. pos = IF q >= m THEN q - m ELSE q
      BY <2>3
    <3>2. QED
      BY <1>1, <2>2, <3>1
  <2>5. new[pos] = data[pos]
    BY <1>6, <2>4 DEF new
  <2>6. data[pos] \in Int
    BY <1>2
  <2>7. QED
    BY <2>2, <2>3, <2>5, <2>6
<1>14. ASSUME NEW i \in n + 1 .. n + k
       PROVE  at(c, f + i - 1) = bytes[i - n]
  <2>1. i \in 1 .. n + k
    BY <1>1
  <2>2. PICK q \in Int : q = f + i - 1
    BY <1>1
  <2>3. PICK pos \in 0 .. m - 1 : /\ pos = IF q >= m THEN q - m ELSE q
                                  /\ at(c, q) = new[pos]
                                  /\ at(b, q) = data[pos]
    BY <1>12, <2>1, <2>2
  <2>4. \/ pos >= p /\ pos - p < k /\ pos - p + 1 = i - n
        \/ ~(pos >= p) /\ pos + m - p < k /\ pos + m - p + 1 = i - n
    <3>1. pos = IF q >= m THEN q - m ELSE q
      BY <2>3
    <3>2. QED
      BY <1>1, <2>2, <3>1
  <2>5. new[pos] = bytes[i - n]
    BY <1>6, <2>4 DEF new
  <2>6. QED
    BY <2>2, <2>3, <2>5
<1>15. contents(c) = contents(b) \o bytes
  <2> DEFINE old == contents(b)
             all == contents(c)
  <2>1. old \in Seq(Int) /\ Len(old) = n /\ \A i \in 1 .. n : old[i] = at(b, f + i - 1)
    <3>1. old = [i \in 1 .. n |-> at(b, f + i - 1)] /\ \A i \in 1 .. n : at(b, f + i - 1) \in Int
      BY <1>8, <1>13
    <3>2. n \in Nat
      BY <1>1
    <3> HIDE DEF old
    <3>3. QED
      BY <3>1, <3>2
  <2>2. all \in Seq(Int) /\ Len(all) = n + k
    <3>1. ASSUME NEW i \in 1 .. n + k PROVE at(c, f + i - 1) \in Int
      <4>1. CASE i \in 1 .. n
        BY <1>13, <4>1
      <4>2. CASE i \in n + 1 .. n + k
        <5>1. i - n \in 1 .. k
          BY <1>1, <4>2
        <5>2. QED
          BY <1>3, <1>14, <4>2, <5>1
      <4>3. QED
        BY <1>1, <4>1, <4>2
    <3>2. QED
      BY <1>1, <1>8, <3>1
  <2>3. \A i \in 1 .. n + k : all[i] = at(c, f + i - 1)
    BY <1>8
  <2> HIDE DEF old, all
  <2>4. /\ old \o bytes \in Seq(Int)
        /\ Len(old \o bytes) = n + k
        /\ \A i \in 1 .. n + k : (old \o bytes)[i] = IF i <= n THEN old[i] ELSE bytes[i - n]
    BY <2>1, ConcatProperties DEF k
  <2>5. ASSUME NEW i \in 1 .. n + k PROVE all[i] = (old \o bytes)[i]
    <3>1. CASE i <= n
      <4>1. i \in 1 .. n
        BY <1>1, <3>1
      <4>2. QED
        BY <1>13, <2>1, <2>3, <2>4, <3>1, <4>1
    <3>2. CASE ~(i <= n)
      <4>1. i \in n + 1 .. n + k
        BY <1>1, <3>2
      <4>2. QED
        BY <1>14, <2>3, <2>4, <3>2, <4>1
    <3>3. QED
      BY <3>1, <3>2
  <2>6. QED
    BY <2>2, <2>4, <2>5, SeqEqual DEF old, all
<1>16. QED
  BY <1>11, <1>15 DEF c

\* Where a position is read, and that a byte in use is a byte.
LEMMA ByteInUse ==
  ASSUME NEW b, RingOK(b), NEW q \in Nat, q < 2 * b.buffer_size
  PROVE  /\ at(b, q) = IF q >= b.buffer_size THEN b.data[q - b.buffer_size] ELSE b.data[q]
         /\ at(b, q) \in Int
<1> DEFINE m == b.buffer_size
           data == b.data
<1>1. m \in Nat \ {0} /\ data \in [0 .. m - 1 -> Int]
  BY RingFacts
<1>2. at(b, q) = IF q >= m THEN data[q - m] ELSE data[q]
  BY DEF at
<1> HIDE DEF m, data
<1>3. q < 2 * m
  BY DEF m
<1>4. CASE q >= m
  <2>1. q - m \in 0 .. m - 1
    BY <1>1, <1>3, <1>4
  <2>2. data[q - m] \in Int
    BY <1>1, <2>1
  <2>3. QED
    BY <1>2, <1>4, <2>2 DEF m, data
<1>5. CASE ~(q >= m)
  <2>1. q \in 0 .. m - 1
    BY <1>1, <1>5
  <2>2. data[q] \in Int
    BY <1>1, <2>1
  <2>3. QED
    BY <1>2, <1>5, <2>2 DEF m, data
<1>6. QED
  BY <1>4, <1>5

\* The contents are a sequence of bytes.
LEMMA ContentsType ==
  ASSUME NEW b, RingOK(b)
  PROVE  /\ contents(b) \in Seq(Int)
         /\ Len(contents(b)) = fill_space(b)
         /\ \A i \in 1 .. fill_space(b) : contents(b)[i] = at(b, b.fill_pos + i - 1)
<1> DEFINE n == fill_space(b)
           f == b.fill_pos
           m == b.buffer_size
           old == contents(b)
<1>1. n \in 0 .. m /\ f \in 0 .. m - 1 /\ m \in Nat \ {0}
  BY RingFacts
<1>2. old = [i \in 1 .. n |-> at(b, f + i - 1)]
  BY DEF contents, front
<1> HIDE DEF n, f, old, m
<1>3. ASSUME NEW i \in 1 .. n PROVE at(b, f + i - 1) \in Int
  <2>1. PICK q \in Nat : q = f + i - 1 /\ q < 2 * m
    BY <1>1
  <2>2. at(b, q) \in Int
    BY <2>1, ByteInUse DEF m
  <2>3. QED
    BY <2>1, <2>2
<1>4. old \in Seq(Int) /\ Len(old) = n /\ \A i \in 1 .. n : old[i] = at(b, f + i - 1)
  <2>1. n \in Nat
    BY <1>1
  <2>2. QED
    BY <1>2, <1>3, <2>1
<1>5. QED
  BY <1>4 DEF n, f, old

\* What is left is where it was: positions after n bytes were dropped.
LEMMA NextFill ==
  ASSUME NEW m \in Nat \ {0}, NEW f \in 0 .. m - 1, NEW filled \in 0 .. m, NEW n \in 0 .. filled,
         NEW g, g = IF f + n < m THEN f + n ELSE f + n - m
  PROVE  g \in 0 .. m - 1 /\ (f + filled) % m = (g + (filled - n)) % m
<1> DEFINE rem(pos) == pos % m
<1>1. ASSUME NEW pos \in Nat, pos < 2 * m
      PROVE  rem(pos) = IF pos < m THEN pos ELSE pos - m
  BY <1>1, WrapsOnce
<1> HIDE DEF rem
<1>2. /\ f + filled \in Nat /\ f + filled < 2 * m
      /\ g + (filled - n) \in Nat /\ g + (filled - n) < 2 * m
  OBVIOUS
<1>3. rem(f + filled) = rem(g + (filled - n))
  BY <1>1, <1>2
<1>4. QED
  BY <1>3 DEF rem

\* Reading and throwing drop bytes from the front.
THEOREM SkipDrops ==
  ASSUME NEW b, RingOK(b), NEW n \in 0 .. fill_space(b)
  PROVE  /\ RingOK(skip(b, n))
         /\ contents(skip(b, n)) = SubSeq(contents(b), n + 1, fill_space(b))
<1> DEFINE c == skip(b, n)
           m == b.buffer_size
           f == b.fill_pos
           g == c.fill_pos
           filled == fill_space(b)
<1>1. /\ m \in Nat \ {0} /\ f \in 0 .. m - 1 /\ filled \in 0 .. m
      /\ b.data \in [0 .. m - 1 -> Int]
  BY RingFacts
<1>2. b.free_pos = (f + filled) % m /\ b.free_pos \in 0 .. m - 1
  BY DEF RingOK
<1>3. /\ DOMAIN c = {"data", "buffer_size", "free_space", "free_pos", "fill_pos"}
      /\ c.data = b.data /\ c.buffer_size = m /\ c.free_pos = b.free_pos
      /\ c.free_space = b.free_space + n
  BY DEF skip, RingOK
<1>4. g = (f + n) % m
  BY DEF skip, RingOK
<1>5. fill_space(c) = filled - n /\ c.free_space \in 0 .. m
  BY <1>1, <1>3, RingFacts DEF fill_space
<1>6. n \in 0 .. filled
  OBVIOUS
<1> DEFINE new == contents(c)
           old == contents(b)
<1> HIDE DEF c, m, f, g, filled, new, old
<1>7. /\ g = IF f + n < m THEN f + n ELSE f + n - m
      /\ g \in 0 .. m - 1
      /\ (f + filled) % m = (g + (filled - n)) % m
  <2>1. PICK pos \in Nat : pos = f + n /\ pos < 2 * m
    BY <1>1, <1>6
  <2>2. g = pos % m
    BY <1>4, <2>1
  <2>3. g = IF pos < m THEN pos ELSE pos - m
    BY <1>1, <2>1, <2>2, WrapsOnce
  <2>4. g = IF f + n < m THEN f + n ELSE f + n - m
    BY <1>1, <1>6, <2>1, <2>3
  <2>5. QED
    BY <1>1, <1>6, <2>4, NextFill
<1>8. RingOK(c)
  <2>1. c.fill_pos = g
    BY DEF g
  <2>2. QED
    BY <1>1, <1>2, <1>3, <1>5, <1>7, <2>1 DEF RingOK
<1>9. /\ new \in Seq(Int) /\ Len(new) = filled - n
      /\ \A i \in 1 .. filled - n : new[i] = at(c, g + i - 1)
  BY <1>5, <1>8, ContentsType DEF new, g
<1>10. /\ old \in Seq(Int) /\ Len(old) = filled
       /\ \A i \in 1 .. filled : old[i] = at(b, f + i - 1)
  BY ContentsType DEF old, filled, f
<1>11. ASSUME NEW i \in 1 .. filled - n
       PROVE  at(c, g + i - 1) = at(b, f + (n + i) - 1)
  <2>1. PICK q \in Nat : q = g + i - 1 /\ q < 2 * m
    BY <1>1, <1>6, <1>7
  <2>2. PICK r \in Nat : r = f + (n + i) - 1 /\ r < 2 * m
    BY <1>1, <1>6
  <2>3. at(c, q) = IF q >= m THEN b.data[q - m] ELSE b.data[q]
    BY <1>3, <1>8, <2>1, ByteInUse
  <2>4. at(b, r) = IF r >= m THEN b.data[r - m] ELSE b.data[r]
    BY <2>2, ByteInUse DEF m
  <2>5. (IF q >= m THEN q - m ELSE q) = (IF r >= m THEN r - m ELSE r)
    BY <1>1, <1>6, <1>7, <2>1, <2>2
  <2>6. at(c, q) = at(b, r)
    BY <2>3, <2>4, <2>5
  <2>7. QED
    BY <2>1, <2>2, <2>6
<1>12. new = SubSeq(old, n + 1, filled)
  <2>1. n + 1 \in Int /\ filled \in Int /\ filled - (n + 1) + 1 = filled - n
    BY <1>1, <1>6
  <2>2. \A j \in n + 1 .. filled : old[j] \in Int
    BY <1>6, <1>10
  <2>3. /\ SubSeq(old, n + 1, filled) \in Seq(Int)
        /\ Len(SubSeq(old, n + 1, filled)) = filled - n
        /\ \A i \in 1 .. filled - n : SubSeq(old, n + 1, filled)[i] = old[(n + 1) + i - 1]
    BY <1>6, <2>1, <2>2, SubSeqProperties
  <2>4. ASSUME NEW i \in 1 .. filled - n PROVE new[i] = SubSeq(old, n + 1, filled)[i]
    <3>1. (n + 1) + i - 1 = n + i /\ n + i \in 1 .. filled
      BY <1>1, <1>6
    <3>2. QED
      BY <1>9, <1>10, <1>11, <2>3, <3>1
  <2>5. QED
    BY <1>9, <2>3, <2>4, SeqEqual
<1>13. QED
  BY <1>8, <1>12 DEF c, new, old, filled

\* A ring that is grown or shrunk keeps its contents, full or wrapped as it may be.
THEOREM ResizeKeeps ==
  ASSUME NEW b, RingOK(b), NEW size \in Nat \ {0}, fill_space(b) < size
  PROVE  /\ RingOK(set_size(b, size))
         /\ contents(set_size(b, size)) = contents(b)
<1> DEFINE c == set_size(b, size)
           m == b.buffer_size
           f == b.fill_pos
           filled == fill_space(b)
<1>1. /\ m \in Nat \ {0} /\ f \in 0 .. m - 1 /\ filled \in 0 .. m
      /\ b.free_space = m - filled
      /\ b.free_pos = IF f + filled < m THEN f + filled ELSE f + filled - m
  BY RingFacts DEF fill_space
<1>2. copied(b) = filled
  <2>1. copied(b) = IF f < b.free_pos THEN b.free_pos - f
                    ELSE IF b.free_space < m THEN m - f + b.free_pos
                    ELSE 0
    BY DEF copied
  <2> HIDE DEF m, f, filled
  <2>2. QED
    BY <1>1, <2>1
<1>3. c = [data |-> [pos \in 0 .. size - 1 |->
                       IF pos < filled THEN at(b, f + pos) ELSE Junk],
           buffer_size |-> size, free_space |-> b.free_space - m + size,
           free_pos |-> filled, fill_pos |-> 0]
  BY <1>1, <1>2 DEF set_size
<1> DEFINE data == c.data
           new == contents(c)
           old == contents(b)
<1>4. /\ DOMAIN c = {"data", "buffer_size", "free_space", "free_pos", "fill_pos"}
      /\ data = [pos \in 0 .. size - 1 |-> IF pos < filled THEN at(b, f + pos) ELSE Junk]
      /\ c.buffer_size = size /\ c.free_space = size - filled
      /\ c.free_pos = filled /\ c.fill_pos = 0
  BY <1>1, <1>3
<1>5. filled < size
  OBVIOUS
<1>6. fill_space(c) = filled
  BY <1>1, <1>4 DEF fill_space
<1> HIDE DEF c, m, f, filled, data, new, old
<1>7. data \in [0 .. size - 1 -> Int]
  <2>1. ASSUME NEW pos \in 0 .. size - 1, pos < filled PROVE at(b, f + pos) \in Int
    <3>1. PICK q \in Nat : q = f + pos /\ q < 2 * m
      BY <1>1, <2>1
    <3>2. at(b, q) \in Int
      BY <3>1, ByteInUse DEF m
    <3>3. QED
      BY <3>1, <3>2
  <2>2. QED
    BY <1>4, <2>1 DEF Junk
<1>8. RingOK(c)
  <2>1. (0 + filled) % size = filled
    <3>1. 0 + filled = filled /\ filled \in Nat /\ filled < 2 * size
      BY <1>1, <1>5
    <3>2. filled % size = filled
      BY <1>5, <3>1, WrapsOnce
    <3>3. QED
      BY <3>1, <3>2
  <2>2. QED
    <3>1. c.free_pos = (c.fill_pos + fill_space(c)) % c.buffer_size
      BY <1>4, <1>6, <2>1
    <3>2. /\ c.buffer_size \in Nat \ {0} /\ c.data \in [0 .. c.buffer_size - 1 -> Int]
          /\ c.free_space \in 0 .. c.buffer_size
          /\ c.free_pos \in 0 .. c.buffer_size - 1 /\ c.fill_pos \in 0 .. c.buffer_size - 1
      BY <1>1, <1>4, <1>5, <1>7 DEF data
    <3>3. QED
      BY <1>4, <3>1, <3>2 DEF RingOK
<1>9. /\ new \in Seq(Int) /\ Len(new) = filled
      /\ \A i \in 1 .. filled : new[i] = at(c, 0 + i - 1)
  BY <1>4, <1>6, <1>8, ContentsType DEF new
<1>10. /\ old \in Seq(Int) /\ Len(old) = filled
       /\ \A i \in 1 .. filled : old[i] = at(b, f + i - 1)
  BY ContentsType DEF old, filled, f
<1>11. ASSUME NEW i \in 1 .. filled PROVE new[i] = old[i]
  <2>1. PICK q \in Nat : q = 0 + i - 1 /\ q < filled
    BY <1>1
  <2>2. at(c, q) = data[q]
    <3>1. q < 2 * size /\ ~(q >= size)
      BY <1>1, <1>5, <2>1
    <3>2. QED
      BY <1>4, <1>8, <3>1, ByteInUse DEF data
  <2>3. q \in 0 .. size - 1
    BY <1>1, <1>5, <2>1
  <2>4. data[q] = at(b, f + q)
    BY <1>4, <2>1, <2>3
  <2>5. f + q = f + i - 1
    BY <1>1, <2>1
  <2>6. QED
    BY <1>9, <1>10, <2>1, <2>2, <2>4, <2>5
<1>12. QED
  BY <1>8, <1>9, <1>10, <1>11, SeqEqual DEF c, new, old

-----------------------------------------------------------------------------
(* The buffer and its threads *)

\* What a thread has called.
RequestsOK ==
  /\ request \in [Threads -> [op : {"none", "read", "write"}, size : Nat, id : Nat]]
  /\ written \in Seq(Nat)
  /\ \A t \in Threads :
       request[t].op = "write" => request[t].id \in 1 .. MaxWrites /\ request[t].size \in WriteSizes

\* The thread that has the mutex is in a call and does not wait.
HolderOK == holder # None => pc[holder] = "called" /\ holder \notin waiting

\* What the ring and its counters say of each other: buffers are only halved
\* when half of one is enough for what is in it.
CountersOK ==
  /\ fill_space(ring) <= max_fill_space
  /\ messages >= fill_space(ring)

\* The inductive invariant.
BufferInv == TypeOK /\ RequestsOK /\ HolderOK /\ CountersOK

-----------------------------------------------------------------------------

\* The initial state.
LEMMA InitInv == Init => BufferInv /\ contents(ring) = << >>
<1> SUFFICES ASSUME Init PROVE BufferInv /\ contents(ring) = << >>
  OBVIOUS
<1> USE BufferAssumption
<1>1. RingOK(ring) /\ contents(ring) = << >>
  BY NewIsEmpty DEF Init
<1>2. fill_space(ring) = 0
  BY DEF Init, fill_space, NewRing
<1>3. TypeOK
  BY <1>1 DEF Init, TypeOK
<1>4. RequestsOK
  BY DEF Init, RequestsOK, NoRequest
<1>5. HolderOK /\ CountersOK
  BY <1>2 DEF Init, HolderOK, CountersOK
<1>6. QED
  BY <1>1, <1>3, <1>4, <1>5 DEF BufferInv

-----------------------------------------------------------------------------
(* Steps that leave the bytes alone *)

\* What of the invariant concerns the threads.
ThreadsOK ==
  /\ flags \subseteq Flags
  /\ holder \in Threads \cup {None}
  /\ waiting \subseteq {t \in Threads : pc[t] = "called"}
  /\ pc \in [Threads -> {"idle", "called", "signal"}]
  /\ RequestsOK
  /\ HolderOK

\* What of it concerns the bytes.
BytesOK == RingOK(ring) /\ max_fill_space \in Nat /\ messages \in Int /\ CountersOK

\* The invariant in its two parts.
LEMMA InvParts == BufferInv <=> ThreadsOK /\ BytesOK
BY DEF BufferInv, TypeOK, ThreadsOK, BytesOK

\* The same of the next state.
LEMMA InvPartsNext == BufferInv' <=> ThreadsOK' /\ BytesOK'
BY DEF BufferInv, TypeOK, ThreadsOK, BytesOK

\* A step that leaves the ring and its counters leaves what holds of them.
LEMMA BytesStay ==
  ASSUME BytesOK, UNCHANGED <<ring, max_fill_space, messages>>
  PROVE  BytesOK'
BY DEF BytesOK, CountersOK

\* A thread calls.
LEMMA CallThreads ==
  ASSUME ThreadsOK, NEW t \in Threads,
         NEW r \in [op : {"read", "write"}, size : Nat, id : Nat],
         r.op = "write" => r.id \in 1 .. MaxWrites /\ r.size \in WriteSizes,
         Call(t, r), UNCHANGED <<flags, waiting>>, written' \in Seq(Nat)
  PROVE  ThreadsOK'
<1> USE BufferAssumption
<1>1. /\ holder' = t /\ t \in Threads
      /\ pc' = [pc EXCEPT ![t] = "called"] /\ pc[t] = "idle"
      /\ pc \in [Threads -> {"idle", "called", "signal"}]
      /\ waiting \subseteq {u \in Threads : pc[u] = "called"}
  BY DEF Call, ThreadsOK
<1>2. HolderOK' /\ waiting' \subseteq {u \in Threads : pc'[u] = "called"}
  BY <1>1 DEF HolderOK
<1>3. request' = [request EXCEPT ![t] = r]
  BY DEF Call
<1>4. RequestsOK'
  BY <1>3 DEF RequestsOK, ThreadsOK
<1>5. QED
  BY <1>1, <1>2, <1>4 DEF ThreadsOK

\* A thread that has the mutex leaves its call.
LEMMA UnlockThreads ==
  ASSUME ThreadsOK, NEW t \in Threads, holder = t, Unlock(t), UNCHANGED <<flags, waiting, calls>>
  PROVE  ThreadsOK'
<1> USE BufferAssumption
<1>1. /\ holder' = None
      /\ pc' = [pc EXCEPT ![t] = "signal"]
      /\ t # None /\ t \notin waiting
  BY DEF Unlock, after_unlock, ThreadsOK, HolderOK
<1>2. HolderOK'
  BY <1>1 DEF HolderOK
<1>3. RequestsOK'
  BY DEF ThreadsOK, RequestsOK, calls
<1>4. QED
  BY <1>1, <1>2, <1>3 DEF ThreadsOK

\* A thread goes on with the mutex, and changes nothing but the bytes.
LEMMA StayThreads ==
  ASSUME ThreadsOK, UNCHANGED <<flags, holder, waiting, pc, calls>>
  PROVE  ThreadsOK'
BY DEF ThreadsOK, RequestsOK, HolderOK, calls

\* A thread that has the mutex waits.
LEMMA WaitThreads ==
  ASSUME ThreadsOK, NEW t \in Threads, holder = t, Wait(t)
  PROVE  ThreadsOK'
<1> USE BufferAssumption
<1>1. /\ holder' = None /\ waiting' = waiting \cup {t}
      /\ pc' = pc /\ flags' = flags /\ pc[t] = "called"
  BY DEF Wait, ThreadsOK, HolderOK
<1>2. HolderOK'
  BY <1>1 DEF HolderOK
<1>3. RequestsOK'
  BY DEF Wait, ThreadsOK, RequestsOK, calls
<1>4. QED
  BY <1>1, <1>2, <1>3 DEF ThreadsOK

\* The mutex is taken again, and given a broadcast or new flags.
LEMMA OutsideThreads ==
  ASSUME ThreadsOK, NEW t \in Threads,
         \/ Resume(t)
         \/ Broadcast(t)
         \/ \E new \in LaterFlags : SetFlags(t, new)
         \/ Clear(t)
  PROVE  ThreadsOK'
<1> USE BufferAssumption
<1>1. CASE Resume(t)
  BY <1>1 DEF Resume, ThreadsOK, HolderOK, RequestsOK, calls
<1>2. CASE Broadcast(t)
  <2>1. HolderOK'
    BY <1>2 DEF Broadcast, ThreadsOK, HolderOK
  <2>2. RequestsOK'
    BY <1>2 DEF Broadcast, ThreadsOK, RequestsOK, calls
  <2>3. QED
    BY <1>2, <2>1, <2>2 DEF Broadcast, ThreadsOK
<1>3. CASE \E new \in LaterFlags : SetFlags(t, new)
  <2> PICK new \in LaterFlags : SetFlags(t, new)
    BY <1>3
  <2>1. /\ pc' = [pc EXCEPT ![t] = "signal"] /\ pc[t] = "idle"
        /\ holder = None /\ holder' = None
        /\ flags' = new /\ waiting' = waiting
        /\ request' = request /\ written' = written
    BY DEF SetFlags, after_set_flags
  <2>2. HolderOK' /\ RequestsOK'
    BY <2>1 DEF ThreadsOK, HolderOK, RequestsOK
  <2>3. new \subseteq Flags
    OBVIOUS
  <2>4. QED
    BY <2>1, <2>2, <2>3 DEF ThreadsOK
<1>4. CASE Clear(t)
  BY <1>4 DEF Clear, ThreadsOK, HolderOK, RequestsOK
<1>5. QED
  BY <1>1, <1>2, <1>3, <1>4

-----------------------------------------------------------------------------
(* Steps that change the bytes *)

\* What a step may do to the bytes.
FifoStep == [Fifo!Next]_(contents(ring))

\* Cutting n bytes off the front is a step of the abstract sequence.
LEMMA TakeStep ==
  ASSUME RingOK(ring), NEW n \in 0 .. fill_space(ring),
         contents(ring)' = SubSeq(contents(ring), n + 1, fill_space(ring))
  PROVE  FifoStep
<1>1. fill_space(ring) = Len(contents(ring))
  BY ContentsType
<1>2. Fifo!Take
  BY <1>1 DEF Fifo!Take
<1>3. QED
  BY <1>2 DEF FifoStep, Fifo!Next

\* What a raw write writes: as many bytes as were asked for.
LEMMA RawPiece ==
  ASSUME Kind = "raw", NEW id \in Nat, NEW size \in Nat
  PROVE  bytes_of(id, size) \in Seq(Int) /\ Len(bytes_of(id, size)) = size
<1>1. bytes_of(id, size) = [i \in 1 .. size |-> id]
  <2>1. header = 0
    BY DEF header
  <2>2. bytes_of(id, size)
          = [i \in 1 .. 0 + size |-> IF i <= 0 THEN shifted(size)[i - 1] % 256 ELSE id]
    BY <2>1 DEF bytes_of
  <2> HIDE DEF bytes_of
  <2>3. 0 + size = size
    OBVIOUS
  <2>4. \A i \in 1 .. size : ~(i <= 0)
    OBVIOUS
  <2>5. QED
    BY <2>2, <2>3, <2>4
<1>2. QED
  BY <1>1

\* A write appends one piece.
LEMMA WriteBytes ==
  ASSUME Kind = "raw", ThreadsOK, BytesOK, NEW t \in Threads, Write(t)
  PROVE  BytesOK' /\ FifoStep
<1> DEFINE id == request[t].id
           size == request[t].size
           piece == bytes_of(id, size)
<1>1. id \in 1 .. MaxWrites /\ size \in WriteSizes /\ size \in Nat /\ id \in Nat
  BY BufferAssumption DEF Write, Running, ThreadsOK, RequestsOK
<1>2. piece \in Seq(Int) /\ Len(piece) = size
  BY <1>1, RawPiece
<1>3. needed(t) = size
  BY <1>1 DEF needed, header
<1>4. ring' = put(ring, piece) /\ ~lacks_space(t) /\ messages' = messages + size
      /\ max_fill_space' = MAX(max_fill_space, fill_space(ring'))
  BY DEF Write, weight
<1> HIDE DEF piece, size, id
<1>5. /\ RingOK(ring) /\ ring.free_space \in Int
      /\ max_fill_space \in Nat /\ messages \in Int /\ messages >= fill_space(ring)
      /\ fill_space(ring) \in Nat
  BY RingFacts DEF BytesOK, CountersOK
<1>6. size <= ring.free_space
  BY <1>1, <1>3, <1>4, <1>5 DEF lacks_space
<1>7. RingOK(ring') /\ contents(ring') = contents(ring) \o piece
  BY <1>2, <1>4, <1>5, <1>6, PutAppends
<1>8. Len(contents(ring')) = fill_space(ring') /\ fill_space(ring') \in Nat
  BY <1>7, ContentsType, RingFacts
<1>9. Len(contents(ring) \o piece) = fill_space(ring) + size
  <2>1. contents(ring) \in Seq(Int) /\ Len(contents(ring)) = fill_space(ring)
    BY <1>5, ContentsType
  <2> HIDE DEF contents, fill_space
  <2>2. QED
    BY <1>2, <2>1, ConcatProperties
<1>10. fill_space(ring') = fill_space(ring) + size
  BY <1>7, <1>8, <1>9
<1>11. max_fill_space' \in Nat /\ fill_space(ring') <= max_fill_space'
  BY <1>4, <1>5, <1>8 DEF MAX
<1>12. messages' \in Int /\ messages' >= fill_space(ring')
  BY <1>1, <1>4, <1>5, <1>10
<1>13. BytesOK'
  BY <1>7, <1>11, <1>12 DEF BytesOK, CountersOK
<1>14. piece \in Writes
  BY <1>1 DEF piece, Writes
<1>15. Fifo!Put
  <2>1. contents(ring)' = contents(ring) \o piece
    BY <1>7
  <2>2. QED
    BY <1>14, <2>1, Zenon DEF Fifo!Put
<1>16. QED
  BY <1>13, <1>15 DEF FifoStep, Fifo!Next

\* A grown buffer holds the same bytes.
LEMMA GrowBytes ==
  ASSUME BytesOK, NEW t \in Threads, Grow(t)
  PROVE  BytesOK' /\ FifoStep
<1> DEFINE size == smaller(max_buffer_size, 2 * ring.buffer_size)
<1>1. /\ RingOK(ring) /\ ring.buffer_size \in Nat \ {0}
      /\ fill_space(ring) \in 0 .. ring.buffer_size
  BY RingFacts DEF BytesOK
<1>2. size \in Nat \ {0} /\ fill_space(ring) < size
  BY <1>1, BufferAssumption DEF Grow, can_grow, smaller
<1>3. ring' = set_size(ring, size)
  BY DEF Grow
<1> HIDE DEF size
<1>4. RingOK(ring') /\ contents(ring') = contents(ring)
  BY <1>1, <1>2, <1>3, ResizeKeeps
<1>5. fill_space(ring') = fill_space(ring)
  BY <1>1, <1>4, ContentsType
<1>6. BytesOK'
  BY <1>4, <1>5 DEF BytesOK, CountersOK, Grow
<1>7. QED
  BY <1>4, <1>6 DEF FifoStep

\* Skipping n of the bytes takes them off the front, and what is left is counted.
LEMMA SkipBytes ==
  ASSUME RingOK(ring), NEW n \in 0 .. fill_space(ring)
  PROVE  /\ RingOK(skip(ring, n))
         /\ contents(skip(ring, n)) = SubSeq(contents(ring), n + 1, fill_space(ring))
         /\ fill_space(skip(ring, n)) = fill_space(ring) - n
<1>1. fill_space(ring) \in Nat /\ ring.buffer_size \in Int /\ ring.free_space \in Int
  BY RingFacts
<1>2. RingOK(skip(ring, n))
      /\ contents(skip(ring, n)) = SubSeq(contents(ring), n + 1, fill_space(ring))
  BY SkipDrops
<1>3. skip(ring, n).buffer_size = ring.buffer_size
      /\ skip(ring, n).free_space = ring.free_space + n
  BY DEF skip, RingOK
<1>4. QED
  BY <1>1, <1>2, <1>3 DEF fill_space

\* A throw takes the oldest bytes off the front.
LEMMA ThrowBytes ==
  ASSUME Kind = "raw", ThreadsOK, BytesOK, NEW t \in Threads, Throw(t)
  PROVE  BytesOK' /\ FifoStep
<1> DEFINE n == thrown(t)
<1>1. /\ RingOK(ring) /\ fill_space(ring) \in Nat /\ ring.free_space \in Int
      /\ max_fill_space \in Nat /\ messages \in Int
      /\ fill_space(ring) <= max_fill_space /\ messages >= fill_space(ring)
  BY RingFacts DEF BytesOK, CountersOK
<1>2. needed(t) \in Nat /\ needed(t) > ring.free_space
  <2>1. request[t].size \in Nat
    BY BufferAssumption DEF Throw, Running, ThreadsOK, RequestsOK
  <2>2. needed(t) = request[t].size
    BY <2>1 DEF needed, header
  <2>3. lacks_space(t)
    BY DEF Throw
  <2>4. QED
    BY <1>1, <2>1, <2>2, <2>3 DEF lacks_space
<1>3. n = smaller(needed(t) - ring.free_space, fill_space(ring))
  BY DEF thrown
<1>4. ring' = skip(ring, n) /\ messages' = messages - n /\ max_fill_space' = max_fill_space
  BY DEF Throw, weight
<1> HIDE DEF n
<1>5. n \in 0 .. fill_space(ring)
  BY <1>1, <1>2, <1>3 DEF smaller
<1>6. /\ RingOK(ring')
      /\ contents(ring') = SubSeq(contents(ring), n + 1, fill_space(ring))
      /\ fill_space(ring') = fill_space(ring) - n
  BY <1>1, <1>4, <1>5, SkipBytes
<1>7. fill_space(ring') <= max_fill_space' /\ messages' >= fill_space(ring') /\ messages' \in Int
  BY <1>1, <1>4, <1>5, <1>6
<1>8. BytesOK'
  BY <1>1, <1>4, <1>6, <1>7 DEF BytesOK, CountersOK
<1>9. QED
  BY <1>1, <1>5, <1>6, <1>8, TakeStep

\* A read that leaves b leaves its bytes, whether the buffer is halved or not.
LEMMA LeaveBytes ==
  ASSUME max_fill_space \in Nat, NEW b, RingOK(b), fill_space(b) <= max_fill_space,
         NEW t \in Threads, Leave(t, b)
  PROVE  /\ RingOK(ring') /\ contents(ring') = contents(b)
         /\ fill_space(ring') = fill_space(b)
         /\ max_fill_space' \in Nat /\ fill_space(ring') <= max_fill_space'
<1>1. b.buffer_size \in Nat \ {0} /\ fill_space(b) \in Nat
      /\ DEFAULT_SIZE_1 \in Nat /\ DEFAULT_SIZE_2 \in Nat
  BY RingFacts, BufferAssumption
<1>2. CASE ring' = b /\ UNCHANGED max_fill_space
  BY <1>2
<1>3. CASE check_size(b)
  <2> DEFINE small == max_fill_space < b.buffer_size \div 4 /\ b.buffer_size > DEFAULT_SIZE_2
             half == b.buffer_size \div 2
  <2>1. /\ ring' = IF small THEN set_size(b, half) ELSE b
        /\ max_fill_space' = MAX(fill_space(b), DEFAULT_SIZE_1)
    BY <1>3 DEF check_size
  <2>2. small => half \in Nat \ {0} /\ fill_space(b) < half
    BY <1>1
  <2> HIDE DEF small, half
  <2>3. RingOK(ring') /\ contents(ring') = contents(b)
    BY <2>1, <2>2, ResizeKeeps
  <2>4. fill_space(ring') = fill_space(b)
    BY <2>3, ContentsType
  <2>5. max_fill_space' \in Nat /\ fill_space(b) <= max_fill_space'
    BY <1>1, <2>1 DEF MAX
  <2>6. QED
    BY <2>3, <2>4, <2>5
<1>4. QED
  BY <1>2, <1>3 DEF Leave

\* A read takes what it returns off the front.
LEMMA ReadBytes ==
  ASSUME Kind = "raw", ThreadsOK, BytesOK, NEW t \in Threads, ReadRaw(t)
  PROVE  BytesOK' /\ FifoStep
<1> DEFINE n == smaller(request[t].size, fill_space(ring))
           b == skip(ring, n)
<1>1. /\ RingOK(ring) /\ fill_space(ring) \in Nat
      /\ max_fill_space \in Nat /\ messages \in Int
      /\ fill_space(ring) <= max_fill_space /\ messages >= fill_space(ring)
  BY RingFacts DEF BytesOK, CountersOK
<1>2. request[t].size \in Nat
  BY DEF ThreadsOK, RequestsOK
<1>3. messages' = messages - n /\ Leave(t, b)
  BY DEF ReadRaw, weight
<1>4. n \in 0 .. fill_space(ring)
  BY <1>1, <1>2 DEF smaller
<1> HIDE DEF n
<1>5. /\ RingOK(b)
      /\ contents(b) = SubSeq(contents(ring), n + 1, fill_space(ring))
      /\ fill_space(b) = fill_space(ring) - n
  BY <1>1, <1>4, SkipBytes
<1> HIDE DEF b
<1>6. fill_space(b) <= max_fill_space
  BY <1>1, <1>4, <1>5
<1>7. /\ RingOK(ring') /\ contents(ring') = contents(b)
      /\ fill_space(ring') = fill_space(b)
      /\ max_fill_space' \in Nat /\ fill_space(ring') <= max_fill_space'
  BY <1>1, <1>3, <1>5, <1>6, LeaveBytes
<1>8. messages' \in Int /\ messages' >= fill_space(ring')
  BY <1>1, <1>3, <1>4, <1>5, <1>7
<1>9. BytesOK'
  BY <1>7, <1>8 DEF BytesOK, CountersOK
<1>10. QED
  BY <1>1, <1>4, <1>5, <1>7, <1>9, TakeStep

\* A read of nothing changes no byte.
LEMMA NothingBytes ==
  ASSUME Kind = "raw", BytesOK, NEW t \in Threads, ReadNothing(t)
  PROVE  BytesOK' /\ FifoStep
<1>1. Leave(t, ring) /\ messages' = messages
  BY DEF ReadNothing
<1>2. /\ RingOK(ring') /\ contents(ring') = contents(ring)
      /\ fill_space(ring') = fill_space(ring)
      /\ max_fill_space' \in Nat /\ fill_space(ring') <= max_fill_space'
  BY <1>1, LeaveBytes DEF BytesOK, CountersOK
<1>3. QED
  BY <1>1, <1>2 DEF BytesOK, CountersOK, FifoStep

\* A clear takes everything.
LEMMA ClearBytes ==
  ASSUME BytesOK, NEW t \in Threads, Clear(t)
  PROVE  BytesOK' /\ FifoStep
<1>1. /\ RingOK(ring) /\ fill_space(ring) \in Nat /\ max_fill_space \in Nat
      /\ messages \in Int /\ messages >= fill_space(ring)
      /\ max_fill_space' = max_fill_space /\ messages' = messages
  BY RingFacts DEF BytesOK, CountersOK, Clear
<1>2. RingOK(ring') /\ contents(ring') = << >>
  BY <1>1, ClearEmpties DEF Clear
<1>3. fill_space(ring') = 0
  BY <1>2, ContentsType
<1>4. BytesOK'
  BY <1>1, <1>2, <1>3 DEF BytesOK, CountersOK
<1>5. contents(ring') = SubSeq(contents(ring), fill_space(ring) + 1, fill_space(ring))
  BY <1>1, <1>2, ContentsType
<1>6. QED
  BY <1>1, <1>4, <1>5, TakeStep

-----------------------------------------------------------------------------
(* The theorems *)

\* A step of a writer.
LEMMA WriterSteps ==
  ASSUME Kind = "raw", ThreadsOK, BytesOK, NEW t \in Threads, WriterStep(t)
  PROVE  ThreadsOK' /\ BytesOK' /\ FifoStep
<1>1. CASE Grow(t)
  BY <1>1, GrowBytes, StayThreads DEF Grow
<1>2. CASE Throw(t)
  BY <1>2, ThrowBytes, StayThreads DEF Throw
<1>3. CASE WaitForSpace(t)
  <2>1. UNCHANGED <<ring, max_fill_space, messages>> /\ Wait(t) /\ holder = t
    BY <1>3 DEF WaitForSpace, Wait, Running
  <2>2. QED
    BY <2>1, WaitThreads, BytesStay DEF FifoStep
<1>4. CASE Discard(t)
  <2>1. /\ UNCHANGED <<ring, max_fill_space, messages>> /\ Unlock(t) /\ holder = t
        /\ UNCHANGED <<flags, waiting, calls>>
    BY <1>4 DEF Discard, Running
  <2>2. QED
    BY <2>1, UnlockThreads, BytesStay DEF FifoStep
<1>5. CASE Write(t)
  <2>1. Unlock(t) /\ holder = t /\ UNCHANGED <<flags, waiting, calls>>
    BY <1>5 DEF Write, Running
  <2>2. QED
    BY <1>5, <2>1, UnlockThreads, WriteBytes
<1>6. QED
  BY <1>1, <1>2, <1>3, <1>4, <1>5 DEF WriterStep

\* A step of a reader.
LEMMA ReaderSteps ==
  ASSUME Kind = "raw", ThreadsOK, BytesOK, NEW t \in Threads, ReaderStep(t)
  PROVE  ThreadsOK' /\ BytesOK' /\ FifoStep
<1>1. CASE WaitForData(t)
  <2>1. UNCHANGED <<ring, max_fill_space, messages>> /\ Wait(t) /\ holder = t
    BY <1>1 DEF WaitForData, Wait, Running
  <2>2. QED
    BY <2>1, WaitThreads, BytesStay DEF FifoStep
<1>2. CASE ReadNothing(t)
  <2>1. Unlock(t) /\ holder = t /\ UNCHANGED <<flags, waiting, calls>>
    BY <1>2 DEF ReadNothing, Leave, Running
  <2>2. QED
    BY <1>2, <2>1, UnlockThreads, NothingBytes
<1>3. CASE ReadRaw(t)
  <2>1. Unlock(t) /\ holder = t /\ UNCHANGED <<flags, waiting, calls>>
    BY <1>3 DEF ReadRaw, Leave, Running
  <2>2. QED
    BY <1>3, <2>1, UnlockThreads, ReadBytes
<1>4. CASE ReadBlock(t)
  BY <1>4 DEF ReadBlock
<1>5. QED
  BY <1>1, <1>2, <1>3, <1>4 DEF ReaderStep

\* A call is made.
LEMMA CallThreadsOnly ==
  ASSUME ThreadsOK,
         \/ \E t \in Writers, size \in WriteSizes : StartWrite(t, size)
         \/ \E t \in Readers, size \in ReadSizes : StartRead(t, size)
  PROVE  ThreadsOK' /\ UNCHANGED <<ring, max_fill_space, messages>>
<1>1. CASE \E t \in Writers, size \in WriteSizes : StartWrite(t, size)
  <2> PICK t \in Writers, size \in WriteSizes : StartWrite(t, size)
    BY <1>1
  <2> DEFINE r == [op |-> "write", size |-> size, id |-> Len(written) + 1]
  <2>1. /\ t \in Threads /\ size \in Nat
        /\ written \in Seq(Nat) /\ MaxWrites \in Nat
    BY BufferAssumption DEF Threads, ThreadsOK, RequestsOK
  <2>2. Len(written) + 1 \in 1 .. MaxWrites /\ Len(written) + 1 \in Nat
    BY <2>1 DEF StartWrite
  <2>3. r \in [op : {"read", "write"}, size : Nat, id : Nat]
    BY <2>1, <2>2
  <2>4. r.id \in 1 .. MaxWrites /\ r.size \in WriteSizes
    BY <2>2
  <2>5. Call(t, r) /\ UNCHANGED <<flags, waiting>>
    BY DEF StartWrite
  <2>6. written' \in Seq(Nat)
    BY <2>1 DEF StartWrite
  <2>7. UNCHANGED <<ring, max_fill_space, messages>>
    BY DEF StartWrite
  <2> HIDE DEF r
  <2>8. ThreadsOK'
    BY <2>1, <2>3, <2>4, <2>5, <2>6, CallThreads
  <2>9. QED
    BY <2>7, <2>8
<1>2. CASE \E t \in Readers, size \in ReadSizes : StartRead(t, size)
  <2> PICK t \in Readers, size \in ReadSizes : StartRead(t, size)
    BY <1>2
  <2> DEFINE r == [op |-> "read", size |-> size, id |-> 0]
  <2>1. t \in Threads /\ size \in Nat /\ written \in Seq(Nat)
    BY BufferAssumption DEF Threads, ThreadsOK, RequestsOK
  <2>2. r \in [op : {"read", "write"}, size : Nat, id : Nat] /\ r.op # "write"
    BY <2>1
  <2>3. Call(t, r) /\ UNCHANGED <<flags, waiting>> /\ written' \in Seq(Nat)
    BY <2>1 DEF StartRead
  <2>4. UNCHANGED <<ring, max_fill_space, messages>>
    BY DEF StartRead
  <2> HIDE DEF r
  <2>5. ThreadsOK'
    BY <2>1, <2>2, <2>3, CallThreads
  <2>6. QED
    BY <2>4, <2>5
<1>3. QED
  BY <1>1, <1>2

LEMMA CallSteps ==
  ASSUME ThreadsOK, BytesOK,
         \/ \E t \in Writers, size \in WriteSizes : StartWrite(t, size)
         \/ \E t \in Readers, size \in ReadSizes : StartRead(t, size)
  PROVE  ThreadsOK' /\ BytesOK' /\ FifoStep
<1>1. ThreadsOK' /\ UNCHANGED <<ring, max_fill_space, messages>>
  BY CallThreadsOnly
<1>2. QED
  BY <1>1, BytesStay DEF FifoStep

\* A step that needs no mutex, or takes it again.
LEMMA OtherSteps ==
  ASSUME ThreadsOK, BytesOK, NEW t \in Threads,
         \/ Resume(t)
         \/ Broadcast(t)
         \/ \E new \in LaterFlags : SetFlags(t, new)
         \/ Clear(t)
  PROVE  ThreadsOK' /\ BytesOK' /\ FifoStep
<1>1. ThreadsOK'
  BY OutsideThreads
<1>2. CASE Clear(t)
  BY <1>1, <1>2, ClearBytes
<1>3. CASE ~Clear(t)
  <2>1. UNCHANGED <<ring, max_fill_space, messages>>
    BY <1>3 DEF Resume, Broadcast, SetFlags
  <2>2. QED
    BY <1>1, <2>1, BytesStay DEF FifoStep
<1>4. QED
  BY <1>2, <1>3

\* Every step keeps the invariant, and does to the bytes what a sequence of
\* bytes allows.
LEMMA NextInv ==
  ASSUME Kind = "raw", BufferInv, [Next]_vars
  PROVE  BufferInv' /\ FifoStep
<1>1. ThreadsOK /\ BytesOK
  BY InvParts
<1>2. CASE UNCHANGED vars
  <2>1. UNCHANGED <<flags, holder, waiting, pc, calls, ring, max_fill_space, messages>>
    BY <1>2 DEF vars, calls
  <2>2. QED
    BY <1>1, <2>1, StayThreads, BytesStay, InvPartsNext DEF FifoStep
<1>3. CASE Next
  <2>1. CASE \/ \E t \in Writers, size \in WriteSizes : StartWrite(t, size)
             \/ \E t \in Readers, size \in ReadSizes : StartRead(t, size)
    BY <1>1, <2>1, CallSteps, InvPartsNext
  <2>2. ASSUME NEW t \in Threads,
               \/ Resume(t) \/ Broadcast(t)
               \/ \E new \in LaterFlags : SetFlags(t, new)
               \/ Clear(t)
        PROVE  BufferInv' /\ FifoStep
    BY <1>1, <2>2, OtherSteps, InvPartsNext
  <2>3. ASSUME NEW t \in Threads, WriterStep(t) PROVE BufferInv' /\ FifoStep
    BY <1>1, <2>3, WriterSteps, InvPartsNext
  <2>4. ASSUME NEW t \in Threads, ReaderStep(t) PROVE BufferInv' /\ FifoStep
    BY <1>1, <2>4, ReaderSteps, InvPartsNext
  <2>5. QED
    BY <1>3, <2>1, <2>2, <2>3, <2>4 DEF Next
<1>4. QED
  BY <1>2, <1>3

\* The inductive invariant of a raw buffer holds in every reachable state.
THEOREM RawBufferInv ==
  ASSUME Kind = "raw"
  PROVE  Spec => []BufferInv
<1>1. Init => BufferInv
  BY InitInv
<1>2. BufferInv /\ [Next]_vars => BufferInv'
  BY NextInv
<1>3. QED
  BY <1>1, <1>2, PTL DEF Spec

\* A raw buffer is well formed in every reachable state: its positions lie in
\* the ring and agree with its free space, and only callers wait.
THEOREM RawBufferTypeCorrect ==
  ASSUME Kind = "raw"
  PROVE  Spec => []TypeOK
<1>1. BufferInv => TypeOK
  BY DEF BufferInv
<1>2. QED
  BY <1>1, RawBufferInv, PTL

\* The unsigned count of messages of a raw buffer never falls below the number
\* of its bytes, so that no read and no throw can make it wrap.
THEOREM RawMessagesAreEnough ==
  ASSUME Kind = "raw"
  PROVE  Spec => []MessagesAreEnough
<1>1. BufferInv => MessagesAreEnough
  BY DEF BufferInv, CountersOK, MessagesAreEnough
<1>2. QED
  BY <1>1, RawBufferInv, PTL

\* Whatever the flags, sizes and threads, and however it wraps, grows, shrinks,
\* throws and is cleared: a raw buffer implements the sequence of bytes.
THEOREM RawIsFifo ==
  ASSUME Kind = "raw"
  PROVE  Spec => RingIsFifo
<1>1. Init => Fifo!Init
  BY InitInv DEF Fifo!Init
<1>2. BufferInv /\ [Next]_vars => [Fifo!Next]_(contents(ring))
  BY NextInv DEF FifoStep
<1>3. QED
  BY <1>1, <1>2, RawBufferInv, PTL DEF Spec, RingIsFifo, Fifo!Spec

-----------------------------------------------------------------------------
(* Waiting threads, for raw bytes and for blocks *)

\* The fields of the ring, and its size.
ShapeOK ==
  /\ DOMAIN ring = {"data", "buffer_size", "free_space", "free_pos", "fill_pos"}
  /\ ring.buffer_size \in Nat

\* Nobody waits for what has already come, unless somebody is about to wake him.
WaitersAreRight ==
  \A t \in waiting : MayGoOn(t) => \E u \in Threads : pc[u] = "signal"

\* The invariant for any content.
WaitInv ==
  /\ ThreadsOK
  /\ ShapeOK
  /\ Kind = "raw" => BytesOK
  /\ WaitersAreRight

\* No waiting thread may go on when none could and none can.
LEMMA StillRight ==
  ASSUME WaitersAreRight, waiting' = waiting, pc' = pc,
         \A t \in waiting : MayGoOn(t)' => MayGoOn(t)
  PROVE  WaitersAreRight'
  BY DEF WaitersAreRight

\* Somebody is about to wake all who wait.
LEMMA SignalIsRight ==
  ASSUME pc \in [Threads -> {"idle", "called", "signal"}], NEW t \in Threads,
         pc' = [pc EXCEPT ![t] = "signal"]
  PROVE  WaitersAreRight'
  BY DEF WaitersAreRight

\* Nothing changes that a waiting thread looks at.
LEMMA NothingToSee ==
  ASSUME UNCHANGED <<ring, flags, request>>, NEW t
  PROVE  MayGoOn(t)' <=> MayGoOn(t)
  BY DEF MayGoOn, lacks_space, needed, can_grow, can_throw, is_empty, fill_space

\* A ring of another size has the same fields, and is empty if it was.
LEMMA ResizeShape ==
  ASSUME NEW b, DOMAIN b = {"data", "buffer_size", "free_space", "free_pos", "fill_pos"},
         b.buffer_size \in Nat, NEW size \in Nat
  PROVE  /\ DOMAIN set_size(b, size) = DOMAIN b
         /\ set_size(b, size).buffer_size \in Nat
         /\ b.free_space = b.buffer_size =>
              set_size(b, size).free_space = set_size(b, size).buffer_size
         /\ b.free_space \in Int => fill_space(set_size(b, size)) = fill_space(b)
<1> DEFINE c == set_size(b, size)
<1>1. CASE fill_space(b) > size
  <2>1. c = b
    BY <1>1 DEF set_size
  <2>2. QED
    BY <2>1
<1>2. CASE ~(fill_space(b) > size)
  <2>1. /\ DOMAIN c = {"data", "buffer_size", "free_space", "free_pos", "fill_pos"}
        /\ c.buffer_size = size
        /\ c.free_space = b.free_space - b.buffer_size + size
    BY <1>2 DEF set_size
  <2> HIDE DEF c
  <2>2. /\ DOMAIN c = DOMAIN b
        /\ c.buffer_size \in Nat
        /\ b.free_space = b.buffer_size => c.free_space = c.buffer_size
        /\ b.free_space \in Int => fill_space(c) = fill_space(b)
    BY <2>1 DEF fill_space
  <2>3. QED
    BY <2>2 DEF c
<1>3. QED
  BY <1>1, <1>2

\* The initial state.
LEMMA WaitInit == Init => WaitInv
<1> SUFFICES ASSUME Init PROVE WaitInv
  OBVIOUS
<1>1. ThreadsOK /\ BytesOK
  BY InitInv, InvParts
<1>2. ShapeOK
  BY BufferAssumption DEF Init, NewRing, ShapeOK
<1>3. WaitersAreRight
  BY DEF Init, WaitersAreRight
<1>4. QED
  BY <1>1, <1>2, <1>3 DEF WaitInv

\* A thread waits, for what has not come.
LEMMA WaitIsRight ==
  ASSUME WaitInv, NEW t \in Threads, WaitForSpace(t) \/ WaitForData(t)
  PROVE  ShapeOK' /\ WaitersAreRight'
<1>1. ShapeOK /\ WaitersAreRight
  BY DEF WaitInv
<1>2. UNCHANGED <<ring, flags, request, pc>> /\ waiting' = waiting \cup {t}
  BY DEF WaitForSpace, WaitForData, Wait, calls
<1>3. ~MayGoOn(t)
  BY DEF MayGoOn, WaitForSpace, WaitForData, Running
<1>4. \A u \in waiting' : MayGoOn(u)' => \E v \in Threads : pc'[v] = "signal"
  BY <1>1, <1>2, <1>3, NothingToSee DEF WaitersAreRight
<1>5. QED
  BY <1>1, <1>2, <1>4 DEF ShapeOK, WaitersAreRight

\* A writer that has the mutex makes room.
LEMMA RoomIsRight ==
  ASSUME WaitInv, NEW t \in Threads, Grow(t) \/ Throw(t),
         Kind = "raw" => BytesOK'
  PROVE  ShapeOK' /\ WaitersAreRight'
<1>1. ThreadsOK /\ ShapeOK /\ WaitersAreRight /\ holder = t /\ request[t].op = "write"
  BY DEF WaitInv, Grow, Throw, Running
<1>2. CASE Grow(t)
  <2> DEFINE size == smaller(max_buffer_size, 2 * ring.buffer_size)
  <2>1. /\ ring' = set_size(ring, size)
        /\ UNCHANGED <<flags, request, pc, waiting>>
        /\ can_grow
    BY <1>2 DEF Grow, calls
  <2>2. size \in Nat
    BY <1>1, BufferAssumption DEF smaller, ShapeOK
  <2> HIDE DEF size
  <2>3. /\ ShapeOK'
        /\ is_empty => is_empty'
        /\ ring.free_space \in Int => fill_space(ring') = fill_space(ring)
    BY <1>1, <2>1, <2>2, ResizeShape DEF ShapeOK, is_empty
  <2>4. ASSUME NEW u \in waiting, MayGoOn(u)' PROVE MayGoOn(u)
    <3>1. CASE request[u].op = "write"
      BY <2>1, <3>1 DEF MayGoOn
    <3>2. CASE request[u].op # "write"
      <4>1. Kind = "raw" => ring.free_space \in Int
        BY RingFacts DEF WaitInv, BytesOK
      <4>2. QED
        BY <2>1, <2>3, <2>4, <3>2, <4>1 DEF MayGoOn
    <3>3. QED
      BY <3>1, <3>2
  <2>5. QED
    BY <1>1, <2>1, <2>3, <2>4, StillRight
<1>3. CASE Throw(t)
  <2>1. /\ ring' = skip(ring, thrown(t))
        /\ UNCHANGED <<flags, request, pc, waiting>>
        /\ can_throw
    BY <1>3 DEF Throw, calls
  <2>2. ShapeOK'
    BY <1>1, <2>1 DEF ShapeOK, skip
  <2>3. ~is_empty
    BY <1>1, <2>1 DEF can_throw, is_empty, ShapeOK
  <2>4. ASSUME NEW u \in waiting, MayGoOn(u)' PROVE MayGoOn(u)
    <3>1. CASE request[u].op = "write"
      BY <2>1, <3>1 DEF MayGoOn
    <3>2. CASE request[u].op # "write" /\ Kind # "raw"
      BY <2>3, <3>2 DEF MayGoOn
    <3>3. CASE request[u].op # "write" /\ Kind = "raw"
      <4>1. /\ BytesOK' /\ BytesOK /\ RingOK(ring)
            /\ fill_space(ring) \in Nat /\ ring.free_space \in Int
        BY <3>3, RingFacts DEF WaitInv, BytesOK
      <4>2. fill_space(ring') = fill_space(ring) - thrown(t)
            /\ thrown(t) \in Nat
        <5>1. thrown(t) = smaller(needed(t) - ring.free_space, fill_space(ring))
          BY <3>3 DEF thrown
        <5>2. needed(t) \in Nat /\ needed(t) > ring.free_space
          BY <1>1, <1>3, <3>3 DEF needed, header, ThreadsOK, RequestsOK, Throw, lacks_space
        <5>3. thrown(t) \in 0 .. fill_space(ring)
          BY <4>1, <5>1, <5>2 DEF smaller
        <5>4. QED
          BY <2>1, <4>1, <5>3, SkipBytes
      <4>3. request[u].size \in Nat
        BY <1>1 DEF ThreadsOK, RequestsOK
      <4>4. fill_space(ring') < request[u].size \/ ~(fill_space(ring) < request[u].size)
        BY <4>1, <4>2, <4>3
      <4>5. QED
        BY <2>1, <2>3, <2>4, <3>3, <4>1, <4>2, <4>3, <4>4 DEF MayGoOn
    <3>4. QED
      BY <3>1, <3>2, <3>3
  <2>5. QED
    BY <1>1, <2>1, <2>2, <2>4, StillRight
<1>4. QED
  BY <1>2, <1>3

\* A clear leaves the fields of the ring, and an empty one; nobody waits for space.
LEMMA ClearIsRight ==
  ASSUME WaitInv, NEW t \in Threads, Clear(t), "WRITE_BLOCK" \notin flags,
         Kind = "raw" => BytesOK'
  PROVE  ShapeOK' /\ WaitersAreRight'
<1>1. /\ ThreadsOK /\ ShapeOK /\ WaitersAreRight
      /\ ring' = clear(ring)
      /\ UNCHANGED <<flags, request, pc, waiting>>
  BY DEF WaitInv, Clear
<1>2. /\ DOMAIN ring' = DOMAIN ring
      /\ ring'.buffer_size = ring.buffer_size /\ ring'.free_space = ring.buffer_size
  BY <1>1 DEF clear, ShapeOK
<1>3. ShapeOK' /\ is_empty'
  BY <1>1, <1>2 DEF ShapeOK, is_empty
<1>4. ASSUME NEW u \in waiting, MayGoOn(u)' PROVE MayGoOn(u)
  <2>1. CASE request[u].op = "write"
    BY <2>1 DEF MayGoOn
  <2>2. CASE request[u].op # "write" /\ Kind # "raw"
    BY <1>1, <1>3, <1>4, <2>2 DEF MayGoOn
  <2>3. CASE request[u].op # "write" /\ Kind = "raw"
    <3>1. fill_space(ring) \in Nat /\ fill_space(ring') = 0 /\ request[u].size \in Nat
      BY <1>1, <1>2, <2>3, RingFacts
      DEF WaitInv, BytesOK, fill_space, ShapeOK, ThreadsOK, RequestsOK
    <3>2. fill_space(ring) < request[u].size => fill_space(ring') < request[u].size
      BY <3>1
    <3>3. QED
      BY <1>1, <1>3, <1>4, <2>3, <3>2 DEF MayGoOn
  <2>4. QED
    BY <2>1, <2>2, <2>3
<1>5. QED
  BY <1>1, <1>3, <1>4, StillRight

\* A thread that leaves its call tells the others.
LEMMA LeavingIsRight ==
  ASSUME WaitInv, NEW t \in Threads,
         Discard(t) \/ Write(t) \/ ReadNothing(t) \/ ReadRaw(t) \/ ReadBlock(t)
  PROVE  ThreadsOK' /\ ShapeOK' /\ WaitersAreRight'
<1>1. /\ ThreadsOK /\ ShapeOK
      /\ holder = t /\ Unlock(t) /\ UNCHANGED <<flags, waiting, calls>>
  BY DEF WaitInv, Discard, Write, ReadNothing, ReadRaw, ReadBlock, Leave, Running
<1>2. pc' = [pc EXCEPT ![t] = "signal"]
  BY <1>1 DEF Unlock, after_unlock
<1>3. ThreadsOK'
  BY <1>1, UnlockThreads
<1>4. WaitersAreRight'
  BY <1>1, <1>2, SignalIsRight DEF ThreadsOK
<1>5. ASSUME NEW b, DOMAIN b = DOMAIN ring, b.buffer_size \in Nat, Leave(t, b)
      PROVE  ShapeOK'
  <2>1. ring' = b \/ \E size \in Nat : ring' = set_size(b, size)
    <3>1. b.buffer_size \div 2 \in Nat
      BY <1>5
    <3>2. QED
      BY <1>5, <3>1 DEF Leave, check_size
  <2>2. CASE ring' = b
    BY <1>1, <1>5, <2>2 DEF ShapeOK
  <2>3. CASE \E size \in Nat : ring' = set_size(b, size)
    <3>1. PICK size \in Nat : ring' = set_size(b, size)
      BY <2>3
    <3>2. QED
      BY <1>1, <1>5, <3>1, ResizeShape DEF ShapeOK
  <2>4. QED
    BY <2>1, <2>2, <2>3
<1>6. ASSUME NEW b, DOMAIN b = DOMAIN ring, b.buffer_size \in Nat, NEW n
      PROVE  /\ DOMAIN skip(b, n) = DOMAIN ring /\ skip(b, n).buffer_size \in Nat
             /\ DOMAIN clear(b) = DOMAIN ring /\ clear(b).buffer_size \in Nat
  BY <1>1, <1>6 DEF skip, clear, ShapeOK
<1>7. ASSUME Discard(t) PROVE ShapeOK'
  BY <1>1, <1>7 DEF Discard, ShapeOK
<1>8. ASSUME Write(t) PROVE ShapeOK'
  BY <1>1, <1>8 DEF Write, ShapeOK, put
<1>9. ASSUME ReadNothing(t) PROVE ShapeOK'
  <2>1. Leave(t, ring) \/ ring' = ring
    BY <1>9 DEF ReadNothing
  <2>2. QED
    BY <1>1, <1>5, <2>1 DEF ShapeOK
<1>10. ASSUME ReadRaw(t) PROVE ShapeOK'
  <2>1. PICK n : Leave(t, skip(ring, n))
    BY <1>10 DEF ReadRaw
  <2>2. QED
    BY <1>1, <1>5, <1>6, <2>1 DEF ShapeOK
<1>11. ASSUME ReadBlock(t) PROVE ShapeOK'
  <2> DEFINE rest == skip(ring, HeaderSize)
  <2>1. Leave(t, clear(rest)) \/ Leave(t, skip(rest, block_size))
    BY <1>11 DEF ReadBlock
  <2>2. DOMAIN rest = DOMAIN ring /\ rest.buffer_size \in Nat
    BY <1>1, <1>6 DEF ShapeOK
  <2> HIDE DEF rest
  <2>3. QED
    BY <1>5, <1>6, <2>1, <2>2
<1>12. QED
  BY <1>3, <1>4, <1>7, <1>8, <1>9, <1>10, <1>11

\* A step outside the mutex, or one that takes it.
LEMMA OutsideIsRight ==
  ASSUME WaitInv, NEW t \in Threads,
         \/ Resume(t) \/ Broadcast(t)
         \/ \E new \in LaterFlags : SetFlags(t, new)
         \/ \E size \in WriteSizes : StartWrite(t, size)
         \/ \E size \in ReadSizes : StartRead(t, size)
  PROVE  ShapeOK' /\ WaitersAreRight'
<1>1. /\ ThreadsOK /\ ShapeOK /\ WaitersAreRight
      /\ pc \in [Threads -> {"idle", "called", "signal"}]
      /\ waiting \subseteq {u \in Threads : pc[u] = "called"}
      /\ ring' = ring
  BY DEF WaitInv, ThreadsOK, Resume, Broadcast, SetFlags, StartWrite, StartRead
<1>2. ShapeOK'
  BY <1>1 DEF ShapeOK
<1>3. ASSUME Resume(t) PROVE WaitersAreRight'
  BY <1>1, <1>3, NothingToSee, StillRight DEF Resume, calls
<1>4. ASSUME Broadcast(t) PROVE WaitersAreRight'
  BY <1>4 DEF Broadcast, WaitersAreRight
<1>5. ASSUME \E new \in LaterFlags : SetFlags(t, new)
      PROVE  WaitersAreRight'
  BY <1>1, <1>5, SignalIsRight DEF SetFlags, after_set_flags
<1>6. ASSUME NEW r, Call(t, r), UNCHANGED <<flags, waiting>>
      PROVE  WaitersAreRight'
  <2>1. /\ pc[t] = "idle" /\ pc' = [pc EXCEPT ![t] = "called"]
        /\ request' = [request EXCEPT ![t] = r]
        /\ request = [u \in Threads |-> request[u]]
    BY <1>1, <1>6 DEF Call, ThreadsOK, RequestsOK
  <2>2. ASSUME NEW u \in waiting PROVE MayGoOn(u)' <=> MayGoOn(u)
    <3>1. request'[u] = request[u]
      BY <1>1, <2>1, <2>2
    <3>2. QED
      BY <1>1, <1>6, <3>1
      DEF MayGoOn, lacks_space, needed, can_grow, can_throw, is_empty, fill_space
  <2>3. \A u \in Threads : pc[u] = "signal" => pc'[u] = "signal"
    BY <1>1, <2>1
  <2>4. QED
    BY <1>1, <1>6, <2>2, <2>3 DEF WaitersAreRight
<1>7. ASSUME \E size \in WriteSizes : StartWrite(t, size)
      PROVE  WaitersAreRight'
  BY <1>6, <1>7 DEF StartWrite
<1>8. ASSUME \E size \in ReadSizes : StartRead(t, size)
      PROVE  WaitersAreRight'
  BY <1>6, <1>8 DEF StartRead
<1>9. QED
  BY <1>2, <1>3, <1>4, <1>5, <1>7, <1>8

\* Nobody clears a buffer that somebody may wait for space in: clearing wakes
\* no one.
ClearsAreSafe == MaxClears = 0 \/ \A f \in FirstFlags \cup LaterFlags : "WRITE_BLOCK" \notin f

\* The flags are always of those that may be given.
FlagsGiven == flags \in FirstFlags \cup LaterFlags /\ clears \in Nat

LEMMA FlagsStayGiven == FlagsGiven /\ [Next]_vars => FlagsGiven'
<1> SUFFICES ASSUME FlagsGiven, [Next]_vars PROVE FlagsGiven'
  OBVIOUS
<1>1. ASSUME UNCHANGED <<flags, clears>> PROVE FlagsGiven'
  BY <1>1 DEF FlagsGiven
<1>2. CASE UNCHANGED vars
  BY <1>1, <1>2 DEF vars, calls
<1>3. CASE \/ \E t \in Writers, size \in WriteSizes : StartWrite(t, size)
           \/ \E t \in Readers, size \in ReadSizes : StartRead(t, size)
  BY <1>1, <1>3 DEF StartWrite, StartRead
<1>4. ASSUME NEW t \in Threads, Resume(t) \/ Broadcast(t) PROVE FlagsGiven'
  BY <1>1, <1>4 DEF Resume, Broadcast, calls
<1>5. ASSUME NEW t \in Threads, WriterStep(t) PROVE FlagsGiven'
  <2>1. UNCHANGED <<flags, clears>>
    BY <1>5 DEF WriterStep, Grow, Throw, WaitForSpace, Discard, Write, Wait, calls
  <2>2. QED
    BY <1>1, <2>1
<1>6. ASSUME NEW t \in Threads, ReaderStep(t) PROVE FlagsGiven'
  <2>1. UNCHANGED <<flags, clears>>
    BY <1>6 DEF ReaderStep, WaitForData, ReadNothing, ReadRaw, ReadBlock, Leave, Wait, calls
  <2>2. QED
    BY <1>1, <2>1
<1>7. ASSUME NEW t \in Threads, NEW new \in LaterFlags, SetFlags(t, new) PROVE FlagsGiven'
  BY <1>7 DEF SetFlags, FlagsGiven
<1>8. ASSUME NEW t \in Threads, Clear(t) PROVE FlagsGiven'
  BY <1>8 DEF Clear, FlagsGiven
<1>9. QED
  BY <1>2, <1>3, <1>4, <1>5, <1>6, <1>7, <1>8 DEF Next

\* The threads' part of the invariant, whatever is in the buffer.
LEMMA ThreadsStep ==
  ASSUME WaitInv, [Next]_vars
  PROVE  ThreadsOK'
<1>1. ThreadsOK
  BY DEF WaitInv
<1>2. CASE UNCHANGED vars
  BY <1>1, <1>2, StayThreads DEF vars, calls
<1>3. CASE \/ \E t \in Writers, size \in WriteSizes : StartWrite(t, size)
           \/ \E t \in Readers, size \in ReadSizes : StartRead(t, size)
  BY <1>1, <1>3, CallThreadsOnly
<1>4. ASSUME NEW t \in Threads,
             \/ Resume(t) \/ Broadcast(t)
             \/ \E new \in LaterFlags : SetFlags(t, new)
             \/ Clear(t)
      PROVE  ThreadsOK'
  BY <1>1, <1>4, OutsideThreads
<1>5. ASSUME NEW t \in Threads, Grow(t) \/ Throw(t)
      PROVE  ThreadsOK'
  BY <1>1, <1>5, StayThreads DEF Grow, Throw
<1>6. ASSUME NEW t \in Threads, WaitForSpace(t) \/ WaitForData(t)
      PROVE  ThreadsOK'
  BY <1>1, <1>6, WaitThreads DEF WaitForSpace, WaitForData, Running
<1>7. ASSUME NEW t \in Threads,
             Discard(t) \/ Write(t) \/ ReadNothing(t) \/ ReadRaw(t) \/ ReadBlock(t)
      PROVE  ThreadsOK'
  BY <1>7, LeavingIsRight
<1>8. QED
  BY <1>2, <1>3, <1>4, <1>5, <1>6, <1>7 DEF Next, WriterStep, ReaderStep

LEMMA WaitStep ==
  ASSUME WaitInv, [Next]_vars, ClearsAreSafe, FlagsGiven, Kind = "raw" => BytesOK'
  PROVE  WaitInv'
<1>1. ShapeOK /\ WaitersAreRight
  BY DEF WaitInv
<1>2. CASE UNCHANGED vars
  <2>1. UNCHANGED <<ring, flags, request, waiting, pc>>
    BY <1>2 DEF vars, calls
  <2>2. QED
    BY <1>1, <2>1, NothingToSee, StillRight, ThreadsStep DEF ShapeOK, WaitInv
<1>3. ASSUME NEW t \in Threads,
             \/ Resume(t) \/ Broadcast(t)
             \/ \E new \in LaterFlags : SetFlags(t, new)
             \/ \E size \in WriteSizes : StartWrite(t, size)
             \/ \E size \in ReadSizes : StartRead(t, size)
      PROVE  ShapeOK' /\ WaitersAreRight'
  BY <1>3, OutsideIsRight
<1>4. ASSUME NEW t \in Threads, Clear(t)
      PROVE  ShapeOK' /\ WaitersAreRight'
  <2>1. clears < MaxClears /\ clears \in Nat
    BY <1>4 DEF Clear, FlagsGiven
  <2>2. "WRITE_BLOCK" \notin flags
    BY <2>1 DEF ClearsAreSafe, FlagsGiven
  <2>3. QED
    BY <1>4, <2>2, ClearIsRight
<1>5. ASSUME NEW t \in Threads, WriterStep(t) \/ ReaderStep(t)
      PROVE  ShapeOK' /\ WaitersAreRight'
  BY <1>5, RoomIsRight, WaitIsRight, LeavingIsRight DEF WriterStep, ReaderStep
<1>6. Next => ShapeOK' /\ WaitersAreRight'
  BY <1>3, <1>4, <1>5 DEF Next, Threads
<1>7. QED
  BY <1>2, <1>6, ThreadsStep DEF WaitInv

\* cms_buffer.c, _write_block: "pockame na uvolneni bufferu" - no thread waits
\* for space or data that has already come, with any number of readers and
\* writers, any sizes and flags, and whatever is in the buffer, if nobody clears
\* a buffer whose writers wait.
THEOREM NobodyWaitsInVain ==
  ASSUME ClearsAreSafe
  PROVE  Spec => []NobodyIsForgotten
<1>1. Init => WaitInv /\ FlagsGiven
  BY WaitInit DEF Init, FlagsGiven
<1>2. FlagsGiven /\ [Next]_vars => FlagsGiven'
  BY FlagsStayGiven
<1>3. WaitInv => NobodyIsForgotten
  BY DEF WaitInv, WaitersAreRight, NobodyIsForgotten
<1>4. CASE Kind = "raw"
  <2>1. BufferInv => BytesOK
    BY InvParts
  <2>2. BufferInv' => BytesOK'
    BY InvPartsNext
  <2>3. BufferInv /\ BufferInv' /\ WaitInv /\ FlagsGiven /\ [Next]_vars => WaitInv'
    BY <2>2, WaitStep
  <2>4. Spec => []BufferInv
    BY <1>4, RawBufferInv
  <2>5. QED
    BY <1>1, <1>2, <1>3, <2>3, <2>4, PTL DEF Spec
<1>5. CASE Kind # "raw"
  <2>1. WaitInv /\ FlagsGiven /\ [Next]_vars => WaitInv'
    BY <1>5, WaitStep
  <2>2. QED
    BY <1>1, <1>2, <1>3, <2>1, PTL DEF Spec
<1>6. QED
  BY <1>4, <1>5

-----------------------------------------------------------------------------
(* Blocks among bytes *)

\* A set of numbers has a least one.
LEMMA LeastNat ==
  ASSUME NEW T, T \subseteq Nat, T # {}
  PROVE  \E x \in T : \A y \in T : x <= y
<1> DEFINE R == OpToRel(<, Nat)
<1>1. IsWellFoundedOn(R, Nat)
  BY NatLessThanWellFounded
<1>2. PICK x \in T : \A y \in T : ~(<<y, x>> \in R)
  BY <1>1, WFMin
<1>3. ASSUME NEW y \in T PROVE x <= y
  <2>1. x \in Nat /\ y \in Nat
    OBVIOUS
  <2>2. ~(y < x)
    BY <1>2, <2>1 DEF OpToRel
  <2>3. QED
    BY <2>1, <2>2
<1>4. QED
  BY <1>2, <1>3

\* What holds at first, and at each step if it did at the one before, holds always.
LEMMA StepByStep ==
  ASSUME NEW T, NEW L \in Nat, 0 \in T,
         \A n \in 1 .. L : n - 1 \in T => n \in T
  PROVE  0 .. L \subseteq T
<1> DEFINE U == {n \in 0 .. L : n \notin T}
<1> SUFFICES ASSUME U # {} PROVE FALSE
  OBVIOUS
<1>1. PICK n \in U : \A m \in U : n <= m
  <2>1. U \subseteq Nat
    OBVIOUS
  <2> HIDE DEF U
  <2>2. QED
    BY <2>1, LeastNat
<1>2. n \in 1 .. L /\ n - 1 \in 0 .. L /\ n - 1 \notin U
  BY <1>1
<1>3. QED
  BY <1>1, <1>2

\* rule[<<i, f>>] needs of f only what it is at a lower rank.
Ranked(N, I, S, rank, rule) ==
  /\ N \in Nat /\ rank \in [I -> 0 .. N] /\ S # {}
  /\ rule \in [I \X [I -> S] -> S]
  /\ \A i \in I : \A f, g \in [I -> S] :
       (\A j \in I : rank[j] < rank[i] => f[j] = g[j]) => rule[<<i, f>>] = rule[<<i, g>>]

\* A rule that looks only at lower ranks is the rule of a function.
LEMMA RuledExists ==
  ASSUME NEW N, NEW I, NEW S, NEW rank, NEW rule, Ranked(N, I, S, rank, rule)
  PROVE  \E f \in [I -> S] : \A i \in I : f[i] = rule[<<i, f>>]
<1> DEFINE T == {n \in 0 .. N : \E f \in [I -> S] :
                                 \A i \in I : rank[i] <= n => f[i] = rule[<<i, f>>]}
<1> USE DEF Ranked
<1>1. \A f \in [I -> S] : [i \in I |-> rule[<<i, f>>]] \in [I -> S]
  OBVIOUS
<1>2. 0 \in T
  <2>1. PICK f \in [I -> S] : TRUE
    <3>1. PICK s \in S : TRUE
      OBVIOUS
    <3>2. [i \in I |-> s] \in [I -> S]
      OBVIOUS
    <3>3. QED
      BY <3>2
  <2> DEFINE h == [i \in I |-> rule[<<i, f>>]]
  <2>2. h \in [I -> S]
    BY <1>1
  <2>3. ASSUME NEW i \in I, rank[i] <= 0 PROVE h[i] = rule[<<i, h>>]
    <3>1. \A j \in I : ~(rank[j] < rank[i])
      BY <2>3
    <3>2. h[i] = rule[<<i, f>>]
      OBVIOUS
    <3> HIDE DEF h
    <3>3. QED
      BY <2>2, <3>1, <3>2
  <2> HIDE DEF h
  <2>4. QED
    BY <2>2, <2>3
<1>3. ASSUME NEW n \in 1 .. N, n - 1 \in T PROVE n \in T
  <2>1. PICK f \in [I -> S] : \A i \in I : rank[i] <= n - 1 => f[i] = rule[<<i, f>>]
    BY <1>3
  <2> DEFINE h == [i \in I |-> rule[<<i, f>>]]
  <2>2. h \in [I -> S]
    BY <1>1
  <2>3. \A i \in I : rank[i] <= n - 1 => h[i] = f[i]
    BY <2>1
  <2>4. ASSUME NEW i \in I, rank[i] <= n PROVE h[i] = rule[<<i, h>>]
    <3>1. h[i] = rule[<<i, f>>]
      OBVIOUS
    <3> HIDE DEF h
    <3>2. \A j \in I : rank[j] < rank[i] => f[j] = h[j]
      <4>1. ASSUME NEW j \in I, rank[j] < rank[i] PROVE rank[j] <= n - 1
        BY <2>4, <4>1
      <4>2. QED
        BY <2>3, <4>1
    <3>3. QED
      BY <2>2, <3>1, <3>2
  <2> HIDE DEF h
  <2>5. n \in 0 .. N
    OBVIOUS
  <2>6. QED
    BY <2>2, <2>4, <2>5
<1> HIDE DEF T
<1>4. N \in T
  <2>1. 0 .. N \subseteq T
    BY <1>2, <1>3, StepByStep
  <2>2. QED
    BY <2>1
<1>5. PICK f \in [I -> S] : \A i \in I : rank[i] <= N => f[i] = rule[<<i, f>>]
  BY <1>4 DEF T
<1>6. QED
  BY <1>5

-----------------------------------------------------------------------------
(* Lengths and their bytes *)

\* What is left of a length when its low bytes are taken from it one by one.
LEMMA ShiftedIs ==
  ASSUME NEW size \in Nat
  PROVE  /\ shifted(size)[0] = size
         /\ \A i \in 1 .. HeaderSize : shifted(size)[i] = shifted(size)[i - 1] \div 256
         /\ \A i \in 0 .. HeaderSize : shifted(size)[i] \in Nat
<1> DEFINE I == 0 .. HeaderSize
           next(i, f) == IF i = 0 THEN size ELSE f[i - 1] \div 256
           rule == [x \in I \X [I -> Nat] |-> next(x[1], x[2])]
           rank == [i \in I |-> i]
           F == CHOOSE f : f = [i \in I |-> next(i, f)]
<1>1. HeaderSize \in Nat
  BY BufferAssumption
<1>2. ASSUME NEW i \in I, NEW f \in [I -> Nat] PROVE next(i, f) \in Nat
  <2>1. i # 0 => i - 1 \in I
    BY <1>1
  <2>2. QED
    BY <2>1
<1>3. \A i \in I : \A f \in [I -> Nat] : rule[<<i, f>>] = next(i, f)
  OBVIOUS
<1>4. rule \in [I \X [I -> Nat] -> Nat]
  <2> HIDE DEF next
  <2>1. QED
    BY <1>2
<1>5. Ranked(HeaderSize, I, Nat, rank, rule)
  <2>0. rank \in [I -> 0 .. HeaderSize] /\ Nat # {}
    OBVIOUS
  <2> SUFFICES ASSUME NEW i \in I, NEW f \in [I -> Nat], NEW g \in [I -> Nat],
                      \A j \in I : rank[j] < rank[i] => f[j] = g[j]
               PROVE  rule[<<i, f>>] = rule[<<i, g>>]
    <3> HIDE DEF rank, rule, I
    <3>1. QED
      BY <1>1, <1>4, <2>0 DEF Ranked
  <2>1. i # 0 => i - 1 \in I /\ rank[i - 1] < rank[i]
    BY <1>1
  <2>2. next(i, f) = next(i, g)
    BY <2>1
  <2> HIDE DEF next, rule, rank, I
  <2>3. QED
    BY <1>3, <2>2
<1>6. PICK f \in [I -> Nat] : \A i \in I : f[i] = rule[<<i, f>>]
  <2> HIDE DEF rule, rank, I
  <2>1. QED
    BY <1>5, RuledExists
<1>8. f = [i \in I |-> next(i, f)]
  <2> HIDE DEF rule, next, I
  <2>1. \A i \in I : f[i] = next(i, f)
    BY <1>3, <1>6
  <2>2. QED
    BY <2>1
<1>9. F = [i \in I |-> next(i, F)]
  <2> HIDE DEF next, I
  <2>1. QED
    BY <1>8
<1>10. shifted(size) = F
  BY DEF shifted
<1> HIDE DEF F
<1>11. F[0] = size /\ \A i \in 1 .. HeaderSize : F[i] = F[i - 1] \div 256
  <2>1. \A i \in I : F[i] = next(i, F)
    <3> HIDE DEF next, I
    <3>1. QED
      BY <1>9
  <2>2. QED
    BY <1>1, <2>1
<1>12. 0 .. HeaderSize \subseteq {i \in I : F[i] \in Nat}
  <2> DEFINE T == {i \in I : F[i] \in Nat}
  <2>1. 0 \in T
    BY <1>1, <1>11
  <2>2. ASSUME NEW n \in 1 .. HeaderSize, n - 1 \in T PROVE n \in T
    <3>1. n \in I /\ F[n - 1] \in Nat /\ F[n] = F[n - 1] \div 256
      BY <1>1, <1>11, <2>2
    <3>2. \A m \in Nat : m \div 256 \in Nat
      OBVIOUS
    <3>3. QED
      BY <3>1, <3>2
  <2> HIDE DEF T
  <2>3. 0 .. HeaderSize \subseteq T
    BY <1>1, <2>1, <2>2, StepByStep
  <2>4. QED
    BY <2>3 DEF T
<1>13. QED
  BY <1>10, <1>11, <1>12

\* A length is put together from its high bytes on.
LEMMA LengthIs ==
  ASSUME NEW byte \in [0 .. HeaderSize - 1 -> Int]
  PROVE  \E F : /\ F[0] = 0
                /\ \A i \in 1 .. HeaderSize : F[i] = byte[HeaderSize - i] + 256 * F[i - 1]
                /\ length(byte) = F[HeaderSize]
<1> DEFINE I == 0 .. HeaderSize
           next(i, f) == IF i = 0 THEN 0 ELSE byte[HeaderSize - i] + 256 * f[i - 1]
           rule == [x \in I \X [I -> Int] |-> next(x[1], x[2])]
           rank == [i \in I |-> i]
           F == CHOOSE f : f = [i \in I |-> next(i, f)]
<1>1. HeaderSize \in Nat
  BY BufferAssumption
<1>2. ASSUME NEW i \in I, NEW f \in [I -> Int] PROVE next(i, f) \in Int
  <2>1. i # 0 => i - 1 \in I /\ HeaderSize - i \in 0 .. HeaderSize - 1
    BY <1>1
  <2>2. i # 0 => f[i - 1] \in Int /\ byte[HeaderSize - i] \in Int
    BY <2>1
  <2>3. QED
    BY <2>2
<1>3. \A i \in I : \A f \in [I -> Int] : rule[<<i, f>>] = next(i, f)
  OBVIOUS
<1>4. rule \in [I \X [I -> Int] -> Int]
  <2> HIDE DEF next
  <2>1. QED
    BY <1>2
<1>5. Ranked(HeaderSize, I, Int, rank, rule)
  <2>0. rank \in [I -> 0 .. HeaderSize] /\ Int # {}
    OBVIOUS
  <2> SUFFICES ASSUME NEW i \in I, NEW f \in [I -> Int], NEW g \in [I -> Int],
                      \A j \in I : rank[j] < rank[i] => f[j] = g[j]
               PROVE  rule[<<i, f>>] = rule[<<i, g>>]
    <3> HIDE DEF rank, rule, I
    <3>1. QED
      BY <1>1, <1>4, <2>0 DEF Ranked
  <2>1. i # 0 => i - 1 \in I /\ rank[i - 1] < rank[i]
    BY <1>1
  <2>2. next(i, f) = next(i, g)
    BY <2>1
  <2> HIDE DEF next, rule, rank, I
  <2>3. QED
    BY <1>3, <2>2
<1>6. PICK f \in [I -> Int] : \A i \in I : f[i] = rule[<<i, f>>]
  <2> HIDE DEF rule, rank, I
  <2>1. QED
    BY <1>5, RuledExists
<1>7. f = [i \in I |-> next(i, f)]
  <2> HIDE DEF rule, next, I
  <2>1. \A i \in I : f[i] = next(i, f)
    BY <1>3, <1>6
  <2>2. QED
    BY <2>1
<1>8. F = [i \in I |-> next(i, F)]
  <2> HIDE DEF next, I
  <2>1. QED
    BY <1>7
<1>9. length(byte) = F[HeaderSize]
  BY DEF length
<1> HIDE DEF F
<1>10. F[0] = 0 /\ \A i \in 1 .. HeaderSize : F[i] = byte[HeaderSize - i] + 256 * F[i - 1]
  <2>1. \A i \in I : F[i] = next(i, F)
    <3> HIDE DEF next, I
    <3>1. QED
      BY <1>8
  <2>2. QED
    BY <1>1, <2>1
<1>11. QED
  BY <1>9, <1>10

\* The bytes of a length give the length again.
LEMMA LengthOfItsBytes ==
  ASSUME Kind = "block", NEW size \in WriteSizes, NEW byte \in [0 .. HeaderSize - 1 -> Int],
         \A i \in 0 .. HeaderSize - 1 : byte[i] = shifted(size)[i] % 256
  PROVE  length(byte) = size
<1> DEFINE H == HeaderSize
           s == shifted(size)
<1>1. H \in Nat /\ size \in Nat
  BY BufferAssumption
<1>2. /\ s[0] = size
      /\ \A i \in 1 .. H : s[i] = s[i - 1] \div 256
      /\ \A i \in 0 .. H : s[i] \in Nat
  BY <1>1, ShiftedIs
<1>3. s[H] = 0
  BY LengthsFit
<1>4. PICK F : /\ F[0] = 0
               /\ \A i \in 1 .. H : F[i] = byte[H - i] + 256 * F[i - 1]
               /\ length(byte) = F[H]
  BY LengthIs
<1> HIDE DEF s, H
<1> DEFINE T == {i \in 0 .. H : F[i] = s[H - i]}
<1>5. 0 \in T
  BY <1>1, <1>3, <1>4
<1>6. ASSUME NEW n \in 1 .. H, n - 1 \in T PROVE n \in T
  <2>1. H - n \in 0 .. H - 1 /\ H - n + 1 \in 1 .. H /\ H - n \in 0 .. H /\ n \in 0 .. H
        /\ H - (n - 1) = H - n + 1
    BY <1>1
  <2>2. F[n - 1] = s[H - n + 1]
    BY <1>6, <2>1
  <2>3. s[H - n + 1] = s[H - n] \div 256 /\ s[H - n] \in Nat
    <3>1. H - n + 1 - 1 = H - n
      BY <2>1
    <3>2. QED
      BY <1>2, <2>1, <3>1
  <2>4. F[n] = (s[H - n] % 256) + 256 * (s[H - n] \div 256)
    <3>1. byte[H - n] = s[H - n] % 256
      BY <2>1 DEF s, H
    <3>2. F[n] = byte[H - n] + 256 * F[n - 1]
      BY <1>4
    <3>3. QED
      BY <2>2, <2>3, <3>1, <3>2
  <2>5. \A m \in Nat : (m % 256) + 256 * (m \div 256) = m
    OBVIOUS
  <2>6. QED
    BY <2>1, <2>3, <2>4, <2>5
<1> HIDE DEF T
<1>7. 0 .. H \subseteq T
  BY <1>1, <1>5, <1>6, StepByStep
<1>8. F[H] = s[H - H]
  BY <1>1, <1>7 DEF T
<1>9. QED
  BY <1>1, <1>2, <1>4, <1>8

\* A length is not negative if its bytes are not.
LEMMA LengthIsNat ==
  ASSUME NEW byte \in [0 .. HeaderSize - 1 -> Nat]
  PROVE  length(byte) \in Nat
<1>1. HeaderSize \in Nat
  BY BufferAssumption
<1>2. PICK F : /\ F[0] = 0
               /\ \A i \in 1 .. HeaderSize : F[i] = byte[HeaderSize - i] + 256 * F[i - 1]
               /\ length(byte) = F[HeaderSize]
  <2>1. byte \in [0 .. HeaderSize - 1 -> Int]
    OBVIOUS
  <2>2. QED
    BY <2>1, LengthIs
<1> DEFINE T == {i \in 0 .. HeaderSize : F[i] \in Nat}
<1>3. 0 \in T
  BY <1>1, <1>2
<1>4. ASSUME NEW n \in 1 .. HeaderSize, n - 1 \in T PROVE n \in T
  <2>1. HeaderSize - n \in 0 .. HeaderSize - 1 /\ n \in 0 .. HeaderSize
    BY <1>1
  <2>2. byte[HeaderSize - n] \in Nat /\ F[n - 1] \in Nat
    BY <1>4, <2>1
  <2>3. F[n] = byte[HeaderSize - n] + 256 * F[n - 1]
    BY <1>2
  <2>4. F[n] \in Nat
    BY <2>2, <2>3
  <2>5. QED
    BY <2>1, <2>4
<1> HIDE DEF T
<1>5. HeaderSize \in T
  <2>1. 0 .. HeaderSize \subseteq T
    BY <1>1, <1>3, <1>4, StepByStep
  <2>2. QED
    BY <1>1, <2>1
<1>6. QED
  BY <1>2, <1>5 DEF T

\* The length that a header at position i of some bytes holds.
length_in(bytes, i) == length([k \in 0 .. HeaderSize - 1 |-> bytes[i + k]])

\* How the blocks from position i on are counted, given those that follow.
counted(bytes, i, f) ==
  IF i > Len(bytes) THEN 0
  ELSE IF i + HeaderSize > Len(bytes) + 1 THEN -Len(bytes) - 1
  ELSE IF i + HeaderSize + length_in(bytes, i) > Len(bytes) + 1 THEN -Len(bytes) - 1
  ELSE 1 + f[i + HeaderSize + length_in(bytes, i)]

\* The blocks are counted from the last on.
LEMMA CountIs ==
  ASSUME NEW bytes \in Seq(Nat)
  PROVE  \A i \in 1 .. Len(bytes) + 1 :
           blocks_from(bytes)[i] = counted(bytes, i, blocks_from(bytes))
<1> DEFINE N == Len(bytes)
           I == 1 .. N + 1
           next(i, f) == counted(bytes, i, f)
           rule == [x \in I \X [I -> Int] |-> next(x[1], x[2])]
           rank == [i \in I |-> N + 1 - i]
           F == CHOOSE f : f = [i \in I |-> next(i, f)]
<1>1. N \in Nat /\ HeaderSize \in Nat \ {0}
  BY BufferAssumption
<1>2. ASSUME NEW i \in I, i + HeaderSize <= N + 1 PROVE length_in(bytes, i) \in Nat
  <2>1. \A k \in 0 .. HeaderSize - 1 : i + k \in 1 .. N
    BY <1>1, <1>2
  <2>2. \A k \in 0 .. HeaderSize - 1 : bytes[i + k] \in Nat
    BY <2>1
  <2>3. [k \in 0 .. HeaderSize - 1 |-> bytes[i + k]] \in [0 .. HeaderSize - 1 -> Nat]
    BY <2>2
  <2>4. QED
    BY <2>3, LengthIsNat DEF length_in
\* Counting goes on behind the block.
<1>3. ASSUME NEW i \in I, i + HeaderSize <= N + 1,
             i + HeaderSize + length_in(bytes, i) <= N + 1
      PROVE  /\ i + HeaderSize + length_in(bytes, i) \in I
             /\ rank[i + HeaderSize + length_in(bytes, i)] < rank[i]
  <2> DEFINE next_i == i + HeaderSize + length_in(bytes, i)
  <2>1. next_i \in I /\ next_i > i
    BY <1>1, <1>2, <1>3
  <2> HIDE DEF next_i
  <2>2. rank[next_i] < rank[i]
    BY <1>1, <2>1
  <2>3. QED
    BY <2>1, <2>2 DEF next_i
<1>4. ASSUME NEW i \in I, NEW f \in [I -> Int] PROVE next(i, f) \in Int
  <2>1. CASE i + HeaderSize <= N + 1 /\ i + HeaderSize + length_in(bytes, i) <= N + 1
    <3>1. f[i + HeaderSize + length_in(bytes, i)] \in Int
      <4>1. i + HeaderSize + length_in(bytes, i) \in I
        BY <1>3, <2>1
      <4> HIDE DEF I
      <4>2. QED
        BY <4>1
    <3>2. QED
      BY <1>1, <3>1 DEF counted
  <2>2. CASE ~(i + HeaderSize <= N + 1 /\ i + HeaderSize + length_in(bytes, i) <= N + 1)
    BY <1>1, <1>2, <2>2 DEF counted
  <2>3. QED
    BY <2>1, <2>2
<1>5. \A i \in I : \A f \in [I -> Int] : rule[<<i, f>>] = next(i, f)
  <2> HIDE DEF next, I
  <2>1. QED
    OBVIOUS
<1>6. rule \in [I \X [I -> Int] -> Int]
  <2> HIDE DEF next, I
  <2>1. QED
    BY <1>4
<1>7. Ranked(N + 1, I, Int, rank, rule)
  <2>1. rank \in [I -> 0 .. N + 1] /\ Int # {} /\ N + 1 \in Nat
    <3>1. \A i \in I : N + 1 - i \in 0 .. N + 1
      BY <1>1
    <3> HIDE DEF I
    <3>2. rank \in [I -> 0 .. N + 1]
      BY <3>1
    <3>3. QED
      BY <1>1, <3>2
  <2> SUFFICES ASSUME NEW i \in I, NEW f \in [I -> Int], NEW g \in [I -> Int],
                      \A j \in I : rank[j] < rank[i] => f[j] = g[j]
               PROVE  rule[<<i, f>>] = rule[<<i, g>>]
    <3> HIDE DEF rank, rule, I, N
    <3>1. QED
      BY <1>6, <2>1 DEF Ranked
  <2>2. next(i, f) = next(i, g)
    <3>1. CASE i + HeaderSize <= N + 1 /\ i + HeaderSize + length_in(bytes, i) <= N + 1
      <4>1. f[i + HeaderSize + length_in(bytes, i)] = g[i + HeaderSize + length_in(bytes, i)]
        <5> HIDE DEF rank, I
        <5>1. QED
          BY <1>3, <3>1
      <4>2. QED
        BY <4>1 DEF counted
    <3>2. CASE ~(i + HeaderSize <= N + 1 /\ i + HeaderSize + length_in(bytes, i) <= N + 1)
      BY <1>1, <1>2, <3>2 DEF counted
    <3>3. QED
      BY <3>1, <3>2
  <2> HIDE DEF next, rule, rank, I
  <2>3. QED
    BY <1>5, <2>2
<1>8. PICK f \in [I -> Int] : \A i \in I : f[i] = rule[<<i, f>>]
  <2> HIDE DEF rule, rank, I, N
  <2>1. QED
    BY <1>7, RuledExists
<1>9. f = [i \in I |-> next(i, f)]
  <2> HIDE DEF rule, next, I
  <2>1. \A i \in I : f[i] = next(i, f)
    BY <1>5, <1>8
  <2>2. QED
    BY <2>1
<1>10. F = [i \in I |-> next(i, F)]
  <2> HIDE DEF next, I
  <2>1. QED
    BY <1>9
<1>11. blocks_from(bytes) = F
  BY DEF blocks_from, counted, length_in
<1> HIDE DEF F
<1>12. \A i \in I : F[i] = next(i, F)
  <2> HIDE DEF next, I
  <2>1. QED
    BY <1>10
<1>13. QED
  BY <1>11, <1>12

-----------------------------------------------------------------------------
(* Blocks in the ring *)

\* What a write of a block writes: its length and as many bytes.
LEMMA BlockPiece ==
  ASSUME Kind = "block", NEW id \in Nat, NEW size \in Nat
  PROVE  /\ bytes_of(id, size) \in Seq(Nat) /\ Len(bytes_of(id, size)) = HeaderSize + size
         /\ \A i \in 1 .. HeaderSize : bytes_of(id, size)[i] = shifted(size)[i - 1] % 256
         /\ \A i \in 1 .. size : bytes_of(id, size)[HeaderSize + i] = id
<1> DEFINE H == HeaderSize
           left == shifted(size)
           byte(i) == IF i <= H THEN left[i - 1] % 256 ELSE id
           piece == [i \in 1 .. H + size |-> byte(i)]
<1>1. H \in Nat
  BY BufferAssumption
<1>2. \A i \in 0 .. H : left[i] \in Nat
  BY ShiftedIs
<1>3. bytes_of(id, size) = piece
  BY DEF bytes_of, header
<1> HIDE DEF left, H
<1>4. ASSUME NEW i \in 1 .. H + size PROVE byte(i) \in Nat
  <2>1. CASE i <= H
    <3>1. i - 1 \in 0 .. H
      BY <1>1, <2>1
    <3>2. left[i - 1] \in Nat
      BY <1>2, <3>1
    <3>3. left[i - 1] % 256 \in Nat
      BY <3>2
    <3>4. QED
      BY <2>1, <3>3
  <2>2. CASE ~(i <= H)
    BY <2>2
  <2>3. QED
    BY <2>1, <2>2
<1>5. \A i \in 1 .. H : i \in 1 .. H + size /\ byte(i) = left[i - 1] % 256
  BY <1>1
<1>6. \A i \in 1 .. size : H + i \in 1 .. H + size /\ byte(H + i) = id
  BY <1>1
<1> HIDE DEF byte
<1>7. H + size \in Nat /\ piece \in [1 .. H + size -> Nat]
  BY <1>1, <1>4
<1>8. piece \in Seq(Nat) /\ Len(piece) = H + size
  BY <1>7
<1>9. \A i \in 1 .. H : piece[i] = left[i - 1] % 256
  BY <1>5
<1>10. \A i \in 1 .. size : piece[H + i] = id
  BY <1>6
<1> HIDE DEF piece
<1>11. QED
  BY <1>3, <1>8, <1>9, <1>10 DEF left, H

\* The bytes are those of the blocks of the calls ids, which wrote these sizes, one
\* behind the other: the k-th begins starts[k] - starts[1] bytes from the front.
Laid(bytes, sizes, ids, starts) ==
  /\ bytes \in Seq(Nat) /\ sizes \in Seq(WriteSizes)
  /\ ids \in Seq(1 .. Len(sizes))
  /\ starts \in Seq(Int) /\ Len(starts) = Len(ids) + 1
  /\ starts[Len(ids) + 1] = starts[1] + Len(bytes)
  /\ \A j, k \in 1 .. Len(ids) + 1 : j <= k => starts[j] <= starts[k]
  /\ \A k \in 1 .. Len(ids) :
       /\ starts[k + 1] = starts[k] + HeaderSize + sizes[ids[k]]
       /\ \A i \in 1 .. HeaderSize + sizes[ids[k]] :
            bytes[starts[k] - starts[1] + i] = bytes_of(ids[k], sizes[ids[k]])[i]

\* A block that lies in some bytes lies in them whole, and its header holds its length.
LEMMA BlockInBytes ==
  ASSUME Kind = "block", NEW sizes \in Seq(WriteSizes), NEW bytes \in Seq(Nat),
         NEW ids, NEW starts, Laid(bytes, sizes, ids, starts), NEW k \in 1 .. Len(ids)
  PROVE  /\ ids[k] \in 1 .. Len(sizes) /\ sizes[ids[k]] \in Nat
         /\ starts[k + 1] = starts[k] + HeaderSize + sizes[ids[k]]
         /\ starts[1] <= starts[k] /\ starts[k + 1] <= starts[1] + Len(bytes)
         /\ length_in(bytes, starts[k] - starts[1] + 1) = sizes[ids[k]]
         /\ \A i \in 1 .. sizes[ids[k]] :
              bytes[starts[k] - starts[1] + HeaderSize + i] = ids[k]
<1> DEFINE id == ids[k]
           size == sizes[id]
           H == HeaderSize
           p == starts[k] - starts[1]
<1>1. H \in Nat \ {0} /\ WriteSizes \subseteq Nat
  BY BufferAssumption
<1>2. ids \in Seq(1 .. Len(sizes)) /\ Len(ids) \in Nat /\ sizes \in Seq(WriteSizes)
      /\ Len(sizes) \in Nat
  BY DEF Laid
<1>3. id \in 1 .. Len(sizes) /\ id \in Nat /\ size \in WriteSizes /\ size \in Nat
  <2>1. id \in 1 .. Len(sizes)
    BY <1>2
  <2> HIDE DEF id
  <2>2. size \in WriteSizes
    BY <1>2, <2>1
  <2>3. size \in Nat
    BY <1>1, <2>2, Zenon
  <2>4. id \in Nat
    BY <1>2, <2>1
  <2>5. QED
    BY <2>1, <2>2, <2>3, <2>4
<1>4. 1 \in 1 .. Len(ids) + 1 /\ k \in 1 .. Len(ids) + 1 /\ k + 1 \in 1 .. Len(ids) + 1
      /\ Len(ids) + 1 \in 1 .. Len(ids) + 1 /\ 1 <= k /\ k + 1 <= Len(ids) + 1
  BY <1>2
<1>5. starts[k + 1] = starts[k] + H + size
  BY DEF Laid
<1>6. starts[1] <= starts[k] /\ starts[k + 1] <= starts[1] + Len(bytes)
  BY <1>4 DEF Laid
<1>7. starts[1] \in Int /\ starts[k] \in Int /\ starts[k + 1] \in Int
  <2>1. starts \in Seq(Int) /\ Len(starts) = Len(ids) + 1
    BY DEF Laid
  <2>2. QED
    BY <1>4, <2>1
<1>8. \A i \in 1 .. H + size : bytes[p + i] = bytes_of(id, size)[i]
  BY DEF Laid
<1> DEFINE piece == bytes_of(id, size)
<1>9. /\ \A i \in 1 .. H : piece[i] = shifted(size)[i - 1] % 256
      /\ \A i \in 1 .. size : piece[H + i] = id
      /\ piece \in Seq(Nat) /\ Len(piece) = H + size
  <2> HIDE DEF id, size
  <2>1. id \in Nat /\ size \in Nat
    BY <1>3
  <2>2. /\ piece \in Seq(Nat) /\ Len(piece) = H + size
        /\ \A i \in 1 .. H : piece[i] = shifted(size)[i - 1] % 256
        /\ \A i \in 1 .. size : piece[H + i] = id
    BY <2>1, BlockPiece
  <2>3. QED
    BY <2>2
<1> DEFINE byte == [i \in 0 .. H - 1 |-> bytes[p + 1 + i]]
<1>10. length_in(bytes, p + 1) = length(byte)
  BY DEF length_in
<1> HIDE DEF id, size, H, p, piece
<1>11. p \in Nat
  BY <1>6, <1>7 DEF p
<1>12. ASSUME NEW i \in 0 .. H - 1
       PROVE  bytes[p + 1 + i] = shifted(size)[i] % 256 /\ bytes[p + 1 + i] \in Int
  <2>1. i + 1 \in 1 .. H /\ i + 1 \in 1 .. H + size /\ p + 1 + i = p + (i + 1) /\ i + 1 - 1 = i
    BY <1>1, <1>3, <1>11
  <2>2. piece[i + 1] = shifted(size)[i] % 256
    BY <1>9, <2>1
  <2>3. piece[i + 1] \in Nat
    BY <1>9, <2>1
  <2>4. bytes[p + (i + 1)] = piece[i + 1]
    BY <1>8, <2>1 DEF piece
  <2>5. QED
    BY <2>1, <2>2, <2>3, <2>4
<1>13. length(byte) = size
  <2>1. byte \in [0 .. H - 1 -> Int]
    BY <1>12
  <2>2. \A i \in 0 .. H - 1 : byte[i] = shifted(size)[i] % 256
    BY <1>12
  <2> HIDE DEF byte
  <2>3. QED
    BY <1>3, <2>1, <2>2, LengthOfItsBytes DEF H
<1>14. ASSUME NEW i \in 1 .. size PROVE bytes[p + H + i] = id
  <2>1. H + i \in 1 .. H + size /\ p + H + i = p + (H + i)
    BY <1>1, <1>3, <1>11
  <2>2. bytes[p + (H + i)] = piece[H + i]
    BY <1>8, <2>1 DEF piece
  <2>3. QED
    BY <1>9, <2>1, <2>2
<1>15. length_in(bytes, p + 1) = size
  BY <1>10, <1>13
<1>16. QED
  BY <1>3, <1>5, <1>6, <1>14, <1>15 DEF id, size, H, p

\* So many blocks follow each other from the front to the end without a gap.
LEMMA LaidIsCounted ==
  ASSUME Kind = "block", NEW sizes \in Seq(WriteSizes), NEW bytes \in Seq(Nat),
         NEW ids, NEW starts, Laid(bytes, sizes, ids, starts)
  PROVE  blocks_from(bytes)[1] = Len(ids)
<1> DEFINE L == Len(ids)
           N == Len(bytes)
           count == blocks_from(bytes)
           pos(k) == starts[k] - starts[1] + 1
           T == {n \in 0 .. L : count[pos(L + 1 - n)] = n}
<1>1. L \in Nat /\ N \in Nat /\ HeaderSize \in Nat \ {0}
  BY BufferAssumption DEF Laid
<1>2. starts[1] \in Int /\ starts[L + 1] = starts[1] + N
  <2>1. starts \in Seq(Int) /\ Len(starts) = L + 1 /\ 1 \in 1 .. L + 1
    BY <1>1 DEF Laid
  <2>2. starts[1] \in Int
    BY <2>1
  <2>3. QED
    BY <2>2 DEF Laid
<1>3. \A i \in 1 .. N + 1 : count[i] = counted(bytes, i, count)
  BY CountIs
<1> HIDE DEF count
<1>4. 0 \in T
  <2>1. L + 1 - 0 = L + 1 /\ pos(L + 1) = N + 1 /\ 0 \in 0 .. L
    BY <1>1, <1>2
  <2>2. count[N + 1] = 0
    BY <1>1, <1>3 DEF counted
  <2>3. QED
    BY <2>1, <2>2
<1>5. ASSUME NEW n \in 1 .. L, n - 1 \in T PROVE n \in T
  <2> DEFINE k == L + 1 - n
             i == pos(k)
             size == sizes[ids[k]]
  <2>1. k \in 1 .. L /\ L + 1 - (n - 1) = k + 1 /\ n \in 0 .. L
    BY <1>1
  <2>2. count[pos(k + 1)] = n - 1
    BY <1>5, <2>1
  <2> HIDE DEF k, L
  <2>3. /\ size \in Nat
        /\ starts[k + 1] = starts[k] + HeaderSize + size
        /\ starts[1] <= starts[k] /\ starts[k + 1] <= starts[1] + N
        /\ length_in(bytes, i) = size
    BY <2>1, BlockInBytes DEF L
  <2>4. starts[k] \in Int
    <3>1. starts \in Seq(Int) /\ Len(starts) = L + 1
      BY DEF Laid, L
    <3>2. k \in 1 .. L + 1
      BY <1>1, <2>1
    <3>3. QED
      BY <3>1, <3>2
  <2> HIDE DEF size
  <2>5. i \in 1 .. N + 1 /\ i + HeaderSize + size = pos(k + 1) /\ i + HeaderSize + size <= N + 1
        /\ i + HeaderSize <= N + 1 /\ i <= N
    <3>1. \A a, b, c \in Int : \A h, m, l \in Nat :
            h > 0 /\ c = b + h + m /\ a <= b /\ c <= a + l =>
              /\ b - a + 1 \in 1 .. l + 1
              /\ b - a + 1 + h + m = c - a + 1 /\ b - a + 1 + h + m <= l + 1
              /\ b - a + 1 + h <= l + 1 /\ b - a + 1 <= l
      OBVIOUS
    <3>2. starts[k + 1] \in Int
      BY <1>1, <2>3, <2>4
    <3> DEFINE a == starts[1]
               b == starts[k]
               c == starts[k + 1]
    <3>3. a \in Int /\ b \in Int /\ c \in Int /\ HeaderSize > 0 /\ c = b + HeaderSize + size
          /\ a <= b /\ c <= a + N
      BY <1>1, <1>2, <2>3, <2>4, <3>2
    <3> HIDE DEF N, a, b, c
    <3>4. /\ b - a + 1 \in 1 .. N + 1
          /\ b - a + 1 + HeaderSize + size = c - a + 1 /\ b - a + 1 + HeaderSize + size <= N + 1
          /\ b - a + 1 + HeaderSize <= N + 1 /\ b - a + 1 <= N
      BY <1>1, <2>3, <3>1, <3>3
    <3>5. QED
      BY <3>4 DEF a, b, c
  <2> HIDE DEF i, pos, N
  <2>6. counted(bytes, i, count) = 1 + count[pos(k + 1)]
    BY <1>1, <2>3, <2>5 DEF counted, N
  <2>7. count[i] = n
    BY <1>3, <2>2, <2>5, <2>6
  <2>8. QED
    BY <2>1, <2>7 DEF i, k
<1> HIDE DEF T
<1>6. L \in T
  <2>1. 0 .. L \subseteq T
    BY <1>1, <1>4, <1>5, StepByStep
  <2>2. QED
    BY <1>1, <2>1
<1>7. L + 1 - L = 1 /\ pos(1) = 1
  BY <1>1, <1>2
<1>8. count[pos(L + 1 - L)] = L
  BY <1>6 DEF T
<1> HIDE DEF L, pos
<1>9. QED
  BY <1>7, <1>8 DEF count, L

\* No blocks make no bytes.
LEMMA NothingLaid ==
  ASSUME NEW sizes \in Seq(WriteSizes)
  PROVE  Laid(<< >>, sizes, << >>, <<0>>)
<1> DEFINE ids == << >>
           starts == <<0>>
<1>1. ids \in Seq(1 .. Len(sizes)) /\ Len(ids) = 0 /\ starts \in Seq(Int) /\ Len(starts) = 1
      /\ starts[1] = 0
  OBVIOUS
<1> HIDE DEF ids, starts
<1>2. \A k \in 1 .. Len(ids) : FALSE
  BY <1>1
<1>3. \A j, k \in 1 .. Len(ids) + 1 : j = 1 /\ k = 1
  BY <1>1
<1>4. Len(<< >>) = 0 /\ << >> \in Seq(Nat)
  OBVIOUS
<1>5. Laid(<< >>, sizes, ids, starts)
  BY <1>1, <1>2, <1>3, <1>4 DEF Laid
<1>6. QED
  BY <1>5 DEF ids, starts

\* Where there are bytes there is a block.
LEMMA SomethingLaid ==
  ASSUME NEW sizes, NEW bytes \in Seq(Nat), NEW ids, NEW starts,
         Laid(bytes, sizes, ids, starts), Len(bytes) > 0
  PROVE  1 \in 1 .. Len(ids)
<1>1. Len(ids) \in Nat
  BY DEF Laid
<1>2. ASSUME Len(ids) = 0 PROVE FALSE
  <2>1. starts \in Seq(Int) /\ Len(starts) = 1
    BY <1>2 DEF Laid
  <2>2. starts[1] \in Int
    <3>1. 1 \in 1 .. Len(starts)
      BY <2>1
    <3>2. QED
      BY <2>1, <3>1, ElementOfSeq
  <2>3. starts[1] = starts[1] + Len(bytes)
    <3>1. starts[Len(ids) + 1] = starts[1] + Len(bytes) /\ Len(ids) + 1 = 1
      BY <1>2 DEF Laid
    <3>2. QED
      BY <3>1
  <2>4. QED
    BY <2>2, <2>3
<1>3. QED
  BY <1>1, <1>2

\* One more call is made, and the blocks stay where they are.
LEMMA LaidForMore ==
  ASSUME NEW sizes \in Seq(WriteSizes), NEW bytes, NEW ids, NEW starts,
         Laid(bytes, sizes, ids, starts), NEW size \in WriteSizes
  PROVE  Laid(bytes, Append(sizes, size), ids, starts)
<1> DEFINE more == Append(sizes, size)
<1>1. /\ Len(more) = Len(sizes) + 1 /\ Len(sizes) \in Nat
      /\ \A id \in 1 .. Len(sizes) : more[id] = sizes[id]
  OBVIOUS
<1> HIDE DEF more
<1>2. ids \in Seq(1 .. Len(sizes)) /\ Len(ids) \in Nat
  BY DEF Laid
<1>3. \A k \in 1 .. Len(ids) : ids[k] \in 1 .. Len(sizes)
  BY <1>2
<1>4. \A k \in 1 .. Len(ids) : more[ids[k]] = sizes[ids[k]]
  BY <1>1, <1>3
<1>5. ids \in Seq(1 .. Len(more))
  <2>1. 1 .. Len(sizes) \subseteq 1 .. Len(more)
    BY <1>1
  <2>2. \A k \in 1 .. Len(ids) : ids[k] \in 1 .. Len(more)
    BY <1>3, <2>1
  <2> HIDE DEF more
  <2>3. QED
    BY <1>2, <2>2
<1>6. Laid(bytes, more, ids, starts)
  <2>1. more \in Seq(WriteSizes)
    BY DEF more
  <2>2. QED
    BY <1>4, <1>5, <2>1 DEF Laid
<1>7. QED
  BY <1>6 DEF more

\* A block put behind the others.
LEMMA LaidBehind ==
  ASSUME Kind = "block", NEW sizes \in Seq(WriteSizes), NEW bytes \in Seq(Nat),
         NEW ids, NEW starts, Laid(bytes, sizes, ids, starts),
         NEW id \in 1 .. Len(sizes)
  PROVE  LET L == Len(ids)
         IN  Laid(bytes \o bytes_of(id, sizes[id]), sizes, Append(ids, id),
                  Append(starts, starts[L + 1] + HeaderSize + sizes[id]))
<1> DEFINE L == Len(ids)
           size == sizes[id]
           piece == bytes_of(id, size)
           all == bytes \o piece
           more == Append(ids, id)
           end == starts[L + 1] + HeaderSize + size
           ends == Append(starts, end)
           H == HeaderSize
           N == Len(bytes)
<1>1. H \in Nat \ {0} /\ WriteSizes \subseteq Nat /\ Len(sizes) \in Nat
  BY BufferAssumption
<1>2. size \in Nat /\ id \in Nat
  <2>1. size \in WriteSizes
    OBVIOUS
  <2> HIDE DEF size
  <2>2. size \in Nat
    BY <1>1, <2>1, Zenon
  <2>3. QED
    BY <1>1, <2>2
<1>3. ids \in Seq(1 .. Len(sizes)) /\ L \in Nat /\ starts \in Seq(Int) /\ Len(starts) = L + 1
  BY DEF Laid
<1>4. /\ starts[L + 1] = starts[1] + N /\ N \in Nat
      /\ \A j, k \in 1 .. L + 1 : j <= k => starts[j] <= starts[k]
  BY DEF Laid
<1>5. /\ piece \in Seq(Nat) /\ Len(piece) = H + size
  <2> HIDE DEF size
  <2>1. QED
    BY <1>2, BlockPiece
<1> HIDE DEF size, piece
<1>6. /\ all \in Seq(Nat) /\ Len(all) = N + (H + size)
      /\ \A i \in 1 .. N : all[i] = bytes[i]
      /\ \A i \in 1 .. H + size : all[N + i] = piece[i]
  <2>1. /\ all \in Seq(Nat) /\ Len(all) = N + Len(piece)
        /\ \A i \in 1 .. N + Len(piece) : all[i] = IF i <= N THEN bytes[i] ELSE piece[i - N]
    BY <1>5, ConcatProperties
  <2> HIDE DEF all, N
  <2>2. \A i \in 1 .. N : i \in 1 .. N + Len(piece) /\ i <= N
    BY <1>1, <1>2, <1>4, <1>5
  <2>3. \A i \in 1 .. N : all[i] = bytes[i]
    BY <2>1, <2>2
  <2>4. ASSUME NEW i \in 1 .. H + size PROVE all[N + i] = piece[i]
    <3> DEFINE j == N + i
    <3>1. j \in 1 .. N + Len(piece) /\ ~(j <= N) /\ j - N = i
      BY <1>1, <1>2, <1>4, <1>5
    <3> HIDE DEF j
    <3>2. all[j] = piece[j - N]
      BY <2>1, <3>1
    <3>3. QED
      BY <3>1, <3>2 DEF j
  <2>5. Len(all) = N + (H + size)
    BY <1>5, <2>1
  <2>6. QED
    BY <2>1, <2>3, <2>4, <2>5
<1>7. /\ more \in Seq(1 .. Len(sizes)) /\ Len(more) = L + 1
      /\ more[L + 1] = id /\ \A k \in 1 .. L : more[k] = ids[k]
  BY <1>3
<1>8. \A k \in 1 .. L + 1 : starts[k] \in Int
  BY <1>3
<1>9. end \in Int /\ starts[1] \in Int /\ end = starts[1] + (N + (H + size))
      /\ starts[L + 1] <= end
  <2>1. 1 \in 1 .. L + 1 /\ L + 1 \in 1 .. L + 1
    BY <1>3
  <2>2. starts[1] \in Int /\ starts[L + 1] \in Int
    BY <1>8, <2>1
  <2>3. QED
    BY <1>1, <1>2, <1>4, <2>2
<1>10. /\ ends \in Seq(Int) /\ Len(ends) = L + 2 /\ ends[L + 2] = end
       /\ \A k \in 1 .. L + 1 : ends[k] = starts[k]
  <2> HIDE DEF end
  <2>1. L + 1 + 1 = L + 2
    BY <1>3
  <2>2. QED
    BY <1>3, <1>9, <2>1
<1> HIDE DEF all, more, ends, H, N, L
<1>11. ends[L + 2] = ends[1] + Len(all) /\ ends[1] = starts[1]
  <2>1. 1 \in 1 .. L + 1
    BY <1>3
  <2>2. QED
    BY <1>6, <1>9, <1>10, <2>1
<1>12. ASSUME NEW j \in 1 .. L + 2, NEW k \in 1 .. L + 2, j <= k PROVE ends[j] <= ends[k]
  <2>1. CASE k \in 1 .. L + 1
    <3>1. j \in 1 .. L + 1
      BY <1>3, <1>12, <2>1
    <3>2. QED
      BY <1>4, <1>10, <1>12, <2>1, <3>1
  <2>2. CASE k = L + 2 /\ j \in 1 .. L + 1
    <3>1. starts[j] <= starts[L + 1] /\ L + 1 \in 1 .. L + 1
      BY <1>3, <1>4, <2>2
    <3>2. starts[j] \in Int /\ starts[L + 1] \in Int
      BY <1>8, <2>2, <3>1
    <3>3. QED
      BY <1>9, <1>10, <2>2, <3>1, <3>2
  <2>3. CASE k = L + 2 /\ j = L + 2
    BY <1>9, <1>10, <2>3
  <2>4. QED
    BY <1>3, <2>1, <2>2, <2>3
<1>13. ASSUME NEW k \in 1 .. L
       PROVE  /\ ends[k + 1] = ends[k] + H + sizes[more[k]]
              /\ \A i \in 1 .. H + sizes[more[k]] :
                   all[ends[k] - ends[1] + i] = bytes_of(more[k], sizes[more[k]])[i]
  <2>1. k \in 1 .. L + 1 /\ k + 1 \in 1 .. L + 1 /\ 1 \in 1 .. L + 1 /\ 1 <= k
        /\ L + 1 \in 1 .. L + 1 /\ k + 1 <= L + 1
    BY <1>3
  <2>2. ends[k] = starts[k] /\ ends[k + 1] = starts[k + 1] /\ ends[1] = starts[1]
        /\ more[k] = ids[k]
    BY <1>7, <1>10, <2>1
  <2>3. /\ starts[k + 1] = starts[k] + H + sizes[ids[k]]
        /\ \A i \in 1 .. H + sizes[ids[k]] :
             bytes[starts[k] - starts[1] + i] = bytes_of(ids[k], sizes[ids[k]])[i]
    BY DEF Laid, L, H
  <2>4. starts[1] <= starts[k] /\ starts[k + 1] <= starts[1] + N
    BY <1>4, <2>1
  <2>5. starts[k] \in Int /\ starts[k + 1] \in Int
    BY <1>8, <2>1
  <2>6. sizes[ids[k]] \in Nat
    <3>1. ids[k] \in 1 .. Len(sizes)
      BY <1>3 DEF L
    <3>2. sizes[ids[k]] \in WriteSizes
      BY <3>1
    <3>3. QED
      BY <1>1, <3>2, Zenon
  <2>7. ASSUME NEW i \in 1 .. H + sizes[ids[k]]
        PROVE  starts[k] - starts[1] + i \in 1 .. N
    <3> DEFINE s == sizes[ids[k]]
    <3> HIDE DEF s
    <3>1. s \in Nat /\ starts[k + 1] = starts[k] + H + s /\ i \in 1 .. H + s
      BY <2>3, <2>6, <2>7 DEF s
    <3> DEFINE a == starts[1]
               b == starts[k]
               c == starts[k + 1]
    <3>2. a \in Int /\ b \in Int /\ c = b + H + s /\ a <= b /\ c <= a + N /\ H \in Nat /\ N \in Nat
      BY <1>1, <1>4, <1>9, <2>4, <2>5, <3>1
    <3> HIDE DEF a, b, c
    <3>3. b - a + i \in 1 .. N
      BY <3>1, <3>2
    <3>4. QED
      BY <3>3 DEF a, b
  <2>8. QED
    BY <1>6, <2>2, <2>3, <2>7
<1>14. /\ ends[L + 2] = ends[L + 1] + H + sizes[more[L + 1]]
       /\ \A i \in 1 .. H + sizes[more[L + 1]] :
            all[ends[L + 1] - ends[1] + i] = bytes_of(more[L + 1], sizes[more[L + 1]])[i]
  <2>1. L + 1 \in 1 .. L + 1
    BY <1>3
  <2>2. ends[L + 1] = starts[L + 1] /\ ends[L + 2] = starts[L + 1] + H + size
    BY <1>10, <2>1 DEF H, L
  <2>3. ends[L + 1] - ends[1] = N
    BY <1>4, <1>9, <1>11, <2>2
  <2>4. sizes[more[L + 1]] = size /\ more[L + 1] = id
    BY <1>7 DEF size
  <2>5. QED
    BY <1>6, <2>2, <2>3, <2>4 DEF piece
<1>15. Len(more) + 1 = L + 2 /\ Len(ends) = Len(more) + 1
       /\ \A k \in 1 .. Len(more) : k \in 1 .. L \/ (k = L + 1 /\ k + 1 = L + 2)
  BY <1>3, <1>7, <1>10
<1>16. \A k \in 1 .. Len(more) :
         /\ ends[k + 1] = ends[k] + H + sizes[more[k]]
         /\ \A i \in 1 .. H + sizes[more[k]] :
              all[ends[k] - ends[1] + i] = bytes_of(more[k], sizes[more[k]])[i]
  BY <1>13, <1>14, <1>15
<1>17. Laid(all, sizes, more, ends)
  BY <1>6, <1>7, <1>10, <1>11, <1>12, <1>15, <1>16 DEF Laid, H
<1>18. QED
  BY <1>17 DEF all, more, ends, L, piece, size

\* The i-th byte of a block that lies at b to c, in bytes that lie at a to a + all
\* and of which n make the first block, up to d.
InLaterBlock(a, b, c, d, n, all, head, size, i) ==
  /\ {a, b, c, d, n, all, head, size, i} \subseteq Int
  /\ d = a + n /\ d <= b /\ b + head + size = c /\ c <= a + all
  /\ 1 <= i /\ i <= head + size

LEMMA BehindFirst ==
  ASSUME NEW a, NEW b, NEW c, NEW d, NEW n, NEW all, NEW head, NEW size, NEW i,
         InLaterBlock(a, b, c, d, n, all, head, size, i)
  PROVE  b - d + i \in 1 .. all - n /\ n + (b - d + i) = b - a + i
  BY DEF InLaterBlock

\* Without the bytes of the first block the others are left.
LEMMA LaidWithoutFirst ==
  ASSUME NEW sizes \in Seq(WriteSizes), NEW bytes, NEW ids, NEW starts,
         Laid(bytes, sizes, ids, starts),
         NEW n \in Nat, n = HeaderSize + sizes[ids[1]], starts[2] = starts[1] + n,
         1 \in 1 .. Len(ids), Len(bytes) \in Nat,
         NEW rest \in Seq(Nat), Len(rest) = Len(bytes) - n,
         \A i \in 1 .. Len(rest) : rest[i] = bytes[n + i]
  PROVE  Laid(rest, sizes, Tail(ids), Tail(starts))
<1> DEFINE L == Len(ids)
           left == Tail(ids)
           ends == Tail(starts)
           H == HeaderSize
           N == Len(bytes)
<1>1. /\ ids \in Seq(1 .. Len(sizes)) /\ starts \in Seq(Int) /\ Len(starts) = L + 1
      /\ starts[L + 1] = starts[1] + N
      /\ \A j, k \in 1 .. L + 1 : j <= k => starts[j] <= starts[k]
      /\ L \in Nat \ {0}
  BY DEF Laid
<1>2. /\ left \in Seq(1 .. Len(sizes)) /\ Len(left) = L - 1
      /\ \A k \in 1 .. L - 1 : left[k] = ids[k + 1]
  BY <1>1
<1>3. /\ ends \in Seq(Int) /\ Len(ends) = L
      /\ \A k \in 1 .. L : ends[k] = starts[k + 1]
  BY <1>1
<1>4. \A k \in 1 .. L + 1 : starts[k] \in Int
  BY <1>1, ElementOfSeq
<1> HIDE DEF left, ends, L, H, N
<1> DEFINE M == Len(rest)
<1>0. L \in Nat \ {0} /\ N \in Nat /\ M = N - n /\ H \in Nat
  BY <1>1, BufferAssumption DEF N, H
<1> HIDE DEF M
<1>5. 1 \in 1 .. L /\ L \in 1 .. L /\ 1 \in 1 .. L + 1 /\ 2 \in 1 .. L + 1 /\ 1 + 1 = 2
      /\ L - 1 \in Nat /\ L - 1 + 1 = L
  BY <1>0
<1>6. starts[1] \in Int /\ starts[2] \in Int /\ ends[1] = starts[2]
  BY <1>3, <1>4, <1>5
<1>7. ends[L] = ends[1] + M
  <2>1. ends[L] = starts[1] + N
    BY <1>1, <1>3, <1>5
  <2>2. \A a, b \in Int : b = a + n => a + N = b + M
    BY <1>0
  <2>3. QED
    BY <1>6, <2>1, <2>2
<1>8. ASSUME NEW j \in 1 .. L, NEW k \in 1 .. L, j <= k PROVE ends[j] <= ends[k]
  <2>1. j + 1 \in 1 .. L + 1 /\ k + 1 \in 1 .. L + 1 /\ j + 1 <= k + 1
    BY <1>0, <1>8
  <2>2. starts[j + 1] <= starts[k + 1]
    BY <1>1, <2>1
  <2>3. QED
    BY <1>3, <2>2
<1>9. ASSUME NEW k \in 1 .. L - 1
      PROVE  /\ ends[k + 1] = ends[k] + H + sizes[left[k]]
             /\ \A i \in 1 .. H + sizes[left[k]] :
                  rest[ends[k] - ends[1] + i] = bytes_of(left[k], sizes[left[k]])[i]
  <2> DEFINE m == k + 1
             size == sizes[ids[m]]
  <2>1. /\ m \in 1 .. L /\ m + 1 \in 1 .. L + 1 /\ k \in 1 .. L /\ m \in 1 .. L + 1
        /\ k + 1 = m /\ 2 <= m /\ m + 1 <= L + 1 /\ L + 1 \in 1 .. L + 1
    BY <1>0
  <2>2. left[k] = ids[m] /\ ends[k] = starts[m] /\ ends[m] = starts[m + 1]
    BY <1>2, <1>3, <2>1
  <2> HIDE DEF m
  <2>3. /\ starts[m + 1] = starts[m] + H + size
        /\ \A i \in 1 .. H + size :
             bytes[starts[m] - starts[1] + i] = bytes_of(ids[m], size)[i]
    BY <2>1 DEF Laid, H, L
  <2>4. starts[2] <= starts[m] /\ starts[m + 1] <= starts[1] + N
    BY <1>1, <1>5, <2>1
  <2>5. starts[m] \in Int /\ starts[m + 1] \in Int
    BY <1>4, <2>1
  <2>6. ASSUME NEW i \in 1 .. H + size
        PROVE  rest[ends[k] - ends[1] + i] = bytes_of(ids[m], size)[i]
    <3> DEFINE a == starts[1]
               b == starts[m]
               c == starts[m + 1]
               j == b - starts[2] + i
    <3>1. j = ends[k] - ends[1] + i
      BY <1>6, <2>2
    <3>2. size \in Int
      <4>1. ids[m] \in 1 .. Len(sizes)
        BY <1>1, <2>1, ElementOfSeq DEF L
      <4>2. size \in WriteSizes /\ WriteSizes \subseteq Nat
        BY <4>1, ElementOfSeq, BufferAssumption
      <4> HIDE DEF size
      <4>3. size \in Nat
        BY <4>2, Zenon
      <4>4. QED
        BY <4>3
    <3>3. j \in 1 .. M /\ n + j = b - a + i
      <4>1. /\ a \in Int /\ b \in Int /\ c \in Int
            /\ starts[2] = a + n /\ starts[2] <= b /\ c <= a + N /\ c = b + H + size
        BY <1>6, <2>3, <2>4, <2>5
      <4> HIDE DEF a, b, c, size
      <4> DEFINE d == starts[2]
      <4>2. i \in Nat /\ 1 <= i /\ i <= H + size
        BY <1>0, <2>6, <3>2
      <4>3. InLaterBlock(a, b, c, d, n, N, H, size, i)
        BY <1>0, <1>6, <3>2, <4>1, <4>2 DEF InLaterBlock
      <4> HIDE DEF d
      <4>4. b - d + i \in 1 .. N - n /\ n + (b - d + i) = b - a + i
        BY <4>3, BehindFirst
      <4>5. QED
        BY <1>0, <4>4 DEF d
    <3>4. bytes[b - a + i] = bytes_of(ids[m], size)[i]
      BY <2>3
    <3> HIDE DEF j
    <3>5. rest[j] = bytes[n + j]
      BY <3>3 DEF M
    <3>6. QED
      BY <3>1, <3>3, <3>4, <3>5
  <2>7. QED
    BY <2>1, <2>2, <2>3, <2>6
<1>10. Len(left) + 1 = L /\ \A k \in 1 .. Len(left) : k \in 1 .. L - 1
  BY <1>1, <1>2
<1>11. QED
  BY <1>2, <1>3, <1>7, <1>8, <1>9, <1>10 DEF Laid, left, ends, H, M

\* Skipping n of the bytes of any ring.
LEMMA SkipSpace ==
  ASSUME NEW b, RingOK(b), NEW n \in 0 .. fill_space(b)
  PROVE  /\ RingOK(skip(b, n))
         /\ contents(skip(b, n)) = SubSeq(contents(b), n + 1, fill_space(b))
         /\ fill_space(skip(b, n)) = fill_space(b) - n
<1>1. fill_space(b) \in Nat /\ b.buffer_size \in Int /\ b.free_space \in Int
  BY RingFacts
<1>2. RingOK(skip(b, n))
      /\ contents(skip(b, n)) = SubSeq(contents(b), n + 1, fill_space(b))
  BY SkipDrops
<1>3. skip(b, n).buffer_size = b.buffer_size
      /\ skip(b, n).free_space = b.free_space + n
  BY DEF skip, RingOK
<1>4. QED
  BY <1>1, <1>2, <1>3 DEF fill_space

\* The bytes behind the first n.
LEMMA Dropped ==
  ASSUME NEW bytes \in Seq(Nat), NEW n \in 0 .. Len(bytes)
  PROVE  LET rest == SubSeq(bytes, n + 1, Len(bytes))
         IN  /\ rest \in Seq(Nat) /\ Len(rest) = Len(bytes) - n
             /\ \A i \in 1 .. Len(rest) : rest[i] = bytes[n + i]
<1> DEFINE N == Len(bytes)
           rest == SubSeq(bytes, n + 1, N)
<1>1. N \in Nat /\ n \in Nat /\ n <= N
  OBVIOUS
<1>2. /\ rest \in Seq(Nat)
      /\ Len(rest) = IF n + 1 <= N THEN N - (n + 1) + 1 ELSE 0
      /\ \A i \in 1 .. N - (n + 1) + 1 : rest[i] = bytes[n + 1 + i - 1]
  BY SubSeqProperties
<1> HIDE DEF rest
<1>3. Len(rest) = N - n
  BY <1>1, <1>2
<1>4. ASSUME NEW i \in 1 .. Len(rest) PROVE rest[i] = bytes[n + i]
  <2>1. i \in 1 .. N - (n + 1) + 1 /\ n + 1 + i - 1 = n + i
    BY <1>1, <1>3
  <2>2. QED
    BY <1>2, <2>1
<1>5. QED
  BY <1>2, <1>3, <1>4 DEF rest, N

\* The first block: what its header says, what it holds, and what is left without it.
LEMMA FirstLaid ==
  ASSUME Kind = "block", NEW bytes, NEW sizes, NEW ids, NEW starts,
         Laid(bytes, sizes, ids, starts), Len(bytes) > 0
  PROVE  LET size == sizes[ids[1]]
             n == HeaderSize + size
         IN  /\ 1 \in 1 .. Len(ids) /\ size \in Nat /\ n \in 0 .. Len(bytes)
             /\ length_in(bytes, 1) = size
             /\ \A i \in 1 .. size : bytes[HeaderSize + i] = ids[1]
             /\ Laid(SubSeq(bytes, n + 1, Len(bytes)), sizes, Tail(ids), Tail(starts))
<1> DEFINE id == ids[1]
           size == sizes[id]
           H == HeaderSize
           n == H + size
           N == Len(bytes)
           other == SubSeq(bytes, n + 1, N)
<1>1. H \in Nat \ {0} /\ N \in Nat
  BY BufferAssumption DEF Laid
<1>2. bytes \in Seq(Nat) /\ sizes \in Seq(WriteSizes)
  BY DEF Laid
<1>3. 1 \in 1 .. Len(ids)
  BY <1>2, SomethingLaid
<1>4. /\ size \in Nat
      /\ starts[1 + 1] = starts[1] + H + size
      /\ starts[1 + 1] <= starts[1] + N
      /\ length_in(bytes, starts[1] - starts[1] + 1) = size
      /\ \A i \in 1 .. size : bytes[starts[1] - starts[1] + H + i] = id
  BY <1>2, <1>3, BlockInBytes
<1>5. starts[1] \in Int
  <2>1. starts \in Seq(Int) /\ Len(starts) = Len(ids) + 1 /\ Len(ids) \in Nat
    BY DEF Laid
  <2>2. 1 \in 1 .. Len(starts)
    BY <2>1
  <2>3. QED
    BY <2>1, <2>2, ElementOfSeq
<1> HIDE DEF size, id, H, N
<1>6. n \in 0 .. N /\ starts[2] = starts[1] + n /\ n \in Nat
  <2>1. size \in Nat /\ starts[2] = starts[1] + H + size /\ starts[2] <= starts[1] + N
    BY <1>4
  <2>2. QED
    BY <1>1, <1>5, <2>1
<1>7. length_in(bytes, 1) = size
  <2>1. starts[1] - starts[1] + 1 = 1
    BY <1>5
  <2>2. QED
    BY <1>4, <2>1
<1>8. ASSUME NEW i \in 1 .. size PROVE bytes[H + i] = id
  <2>1. size \in Nat
    BY <1>4
  <2>2. starts[1] - starts[1] + H + i = H + i
    BY <1>1, <1>5, <2>1
  <2>3. QED
    BY <1>4, <2>2
<1>9. /\ other \in Seq(Nat) /\ Len(other) = N - n
      /\ \A i \in 1 .. Len(other) : other[i] = bytes[n + i]
  BY <1>2, <1>6, Dropped DEF N
<1> HIDE DEF other
<1>10. n = HeaderSize + sizes[ids[1]]
  BY DEF size, id, H
<1> HIDE DEF n
<1>11. Laid(other, sizes, Tail(ids), Tail(starts))
  BY <1>1, <1>2, <1>3, <1>6, <1>9, <1>10, LaidWithoutFirst DEF N
<1>12. QED
  BY <1>3, <1>4, <1>6, <1>7, <1>8, <1>11 DEF n, other, size, id, H, N

\* The block at the front of a ring: its length is read, its bytes are returned, and
\* without it the others are left.
LEMMA FirstBlock ==
  ASSUME Kind = "block", NEW sizes, NEW b, RingOK(b),
         NEW ids, NEW starts, Laid(contents(b), sizes, ids, starts),
         ~(b.free_space = b.buffer_size)
  PROVE  LET size == sizes[ids[1]]
             n == HeaderSize + size
             rest == skip(b, HeaderSize)
         IN  /\ 1 \in 1 .. Len(ids) /\ size \in Nat /\ n \in 0 .. fill_space(b)
             /\ length([i \in 0 .. HeaderSize - 1 |-> at(b, b.fill_pos + i)]) = size
             /\ RingOK(rest) /\ fill_space(rest) = fill_space(b) - HeaderSize
             /\ front(rest, size) = [i \in 1 .. size |-> ids[1]]
             /\ size \in 0 .. fill_space(rest)
             /\ contents(skip(rest, size)) = SubSeq(contents(b), n + 1, fill_space(b))
             /\ Laid(SubSeq(contents(b), n + 1, fill_space(b)), sizes, Tail(ids), Tail(starts))
<1> DEFINE id == ids[1]
           size == sizes[id]
           H == HeaderSize
           n == H + size
           rest == skip(b, H)
           bytes == contents(b)
           N == fill_space(b)
           header_bytes == [i \in 0 .. H - 1 |-> at(b, b.fill_pos + i)]
<1>1. H \in Nat \ {0}
  BY BufferAssumption
<1>2. /\ bytes \in Seq(Nat) /\ Len(bytes) = N /\ N \in Nat
      /\ \A i \in 1 .. N : bytes[i] = at(b, b.fill_pos + i - 1)
      /\ b.fill_pos \in Nat
  BY ContentsType, RingFacts DEF Laid
<1>3. N > 0
  <2>1. b.buffer_size \in Int /\ b.free_space \in Int /\ N = b.buffer_size - b.free_space
    BY RingFacts DEF fill_space
  <2> HIDE DEF N
  <2>2. N # 0
    BY <2>1
  <2>3. QED
    BY <1>2, <2>2
<1> HIDE DEF N
<1>4. /\ 1 \in 1 .. Len(ids) /\ size \in Nat /\ n \in 0 .. N
      /\ length_in(bytes, 1) = size
      /\ \A i \in 1 .. size : bytes[H + i] = id
      /\ Laid(SubSeq(bytes, n + 1, N), sizes, Tail(ids), Tail(starts))
  <2>1. Laid(bytes, sizes, ids, starts) /\ Len(bytes) > 0
    BY <1>2, <1>3
  <2> HIDE DEF bytes
  <2>2. QED
    BY <1>2, <2>1, FirstLaid
<1> HIDE DEF id, size, bytes
<1>5. size \in Nat /\ H \in Nat /\ N \in Nat /\ n = H + size /\ n <= N /\ H \in 0 .. N
  BY <1>1, <1>2, <1>4
<1> HIDE DEF n, H
<1>6. length(header_bytes) = size
  <2>1. header_bytes = [k \in 0 .. H - 1 |-> bytes[1 + k]]
    <3>1. \A k \in 0 .. H - 1 : 1 + k \in 1 .. N /\ b.fill_pos + (1 + k) - 1 = b.fill_pos + k
      BY <1>2, <1>5
    <3>2. \A k \in 0 .. H - 1 : at(b, b.fill_pos + k) = bytes[1 + k]
      BY <1>2, <3>1
    <3>3. QED
      BY <3>2
  <2> HIDE DEF header_bytes
  <2>2. QED
    BY <1>4, <2>1 DEF length_in, H
<1>7. /\ RingOK(rest) /\ contents(rest) = SubSeq(bytes, H + 1, N)
      /\ fill_space(rest) = N - H
  BY <1>5, SkipSpace DEF N, bytes
<1> HIDE DEF rest
<1>8. size \in 0 .. fill_space(rest)
  BY <1>5, <1>7
<1>9. /\ contents(rest) \in Seq(Nat) /\ Len(contents(rest)) = N - H
      /\ \A i \in 1 .. N - H : contents(rest)[i] = bytes[H + i]
      /\ \A i \in 1 .. N - H : contents(rest)[i] = at(rest, rest.fill_pos + i - 1)
  <2> DEFINE left == contents(rest)
  <2>1. left = SubSeq(bytes, H + 1, Len(bytes)) /\ H \in 0 .. Len(bytes)
    BY <1>2, <1>5, <1>7
  <2>2. /\ left \in Seq(Nat) /\ Len(left) = N - H
        /\ \A i \in 1 .. Len(left) : left[i] = bytes[H + i]
    <3> HIDE DEF left
    <3>1. QED
      BY <1>2, <2>1, Dropped
  <2>3. \A i \in 1 .. N - H : left[i] = at(rest, rest.fill_pos + i - 1)
    BY <1>7, ContentsType
  <2>4. QED
    BY <2>2, <2>3
<1>10. front(rest, size) = [i \in 1 .. size |-> id]
  <2>1. ASSUME NEW i \in 1 .. size PROVE at(rest, rest.fill_pos + i - 1) = id
    <3>1. i \in 1 .. N - H
      BY <1>5
    <3>2. bytes[H + i] = id
      BY <1>4
    <3>3. QED
      BY <1>9, <3>1, <3>2
  <2>2. QED
    BY <2>1 DEF front
<1>11. contents(skip(rest, size)) = SubSeq(bytes, n + 1, N)
  <2> DEFINE left == contents(skip(rest, size))
             other == SubSeq(bytes, n + 1, N)
  <2>1. left = SubSeq(contents(rest), size + 1, Len(contents(rest)))
        /\ size \in 0 .. Len(contents(rest))
    BY <1>7, <1>8, <1>9, SkipSpace
  <2>2. /\ left \in Seq(Nat) /\ Len(left) = N - H - size
        /\ \A i \in 1 .. Len(left) : left[i] = contents(rest)[size + i]
    <3> HIDE DEF left
    <3>1. QED
      BY <1>9, <2>1, Dropped
  <2>3. /\ other \in Seq(Nat) /\ Len(other) = N - n
        /\ \A i \in 1 .. Len(other) : other[i] = bytes[n + i]
    <3>1. n \in 0 .. Len(bytes)
      BY <1>2, <1>4
    <3>2. QED
      BY <1>2, <3>1, Dropped
  <2> HIDE DEF left, other
  <2>4. Len(left) = Len(other)
    BY <1>5, <2>2, <2>3
  <2>5. ASSUME NEW i \in 1 .. Len(left) PROVE left[i] = other[i]
    <3>1. size + i \in 1 .. N - H /\ H + (size + i) = n + i
      BY <1>5, <2>2
    <3>2. left[i] = bytes[H + (size + i)]
      BY <1>9, <2>2, <3>1
    <3>3. other[i] = bytes[n + i]
      BY <2>3, <2>4
    <3>4. QED
      BY <3>1, <3>2, <3>3
  <2>6. left \in Seq(Nat) /\ other \in Seq(Nat) /\ \A i \in 1 .. Len(left) : left[i] = other[i]
    BY <2>2, <2>3, <2>5
  <2>7. left = other
    BY <2>4, <2>6, SeqEqual
  <2>8. QED
    BY <2>7 DEF left, other
<1> HIDE DEF header_bytes
<1>12. QED
  BY <1>4, <1>6, <1>7, <1>8, <1>10, <1>11
     DEF id, size, rest, bytes, N, header_bytes, n, H

-----------------------------------------------------------------------------
(* The order of writers *)

\* A thread has called to write and has not left.
WriteCalled(t) == pc[t] = "called" /\ request[t].op = "write"

\* Writers do not wait, or there is one: nobody overtakes a writer that waits.
WritersNeverWait == \A f \in FirstFlags \cup LaterFlags : "WRITE_BLOCK" \notin f

WritersKeepOrder == WritersNeverWait \/ \A t, u \in Writers : t = u

\* One writer at a time has called, with the last of the calls.
CallsOK ==
  /\ written \in Seq(WriteSizes)
  /\ \A t \in Threads : WriteCalled(t) =>
       /\ t \in Writers
       /\ Len(written) > 0 /\ request[t].id = Len(written)
       /\ request[t].size = written[Len(written)]
       /\ WritersNeverWait => holder = t
  /\ \A t, u \in Threads : WriteCalled(t) /\ WriteCalled(u) => t = u

\* The calls that are over.
Over(id) == id \in 1 .. Len(written) /\ \A t \in Threads : WriteCalled(t) => id < Len(written)

\* The other conjuncts of the invariant stay true of a step that calls nobody to write.
LEMMA NobodyCalls ==
  ASSUME CallsOK, written' = written, request' = request,
         \A u \in Threads : pc'[u] = "called" => pc[u] = "called",
         WritersNeverWait => \A u \in Threads : WriteCalled(u)' => holder' = u
  PROVE  CallsOK' /\ \A id : Over(id) => Over(id)'
<1>1. \A u \in Threads : WriteCalled(u)' => WriteCalled(u)
  BY DEF WriteCalled
<1>2. WritersNeverWait' = WritersNeverWait
  BY DEF WritersNeverWait
<1>3. CallsOK'
  BY <1>1, <1>2 DEF CallsOK
<1>4. \A id : Over(id) => Over(id)'
  BY <1>1 DEF Over
<1>5. QED
  BY <1>3, <1>4

\* A thread that has the mutex leaves.
LEMMA LeaverCallsNobody ==
  ASSUME ThreadsOK, CallsOK, NEW t \in Threads, holder = t, Unlock(t), UNCHANGED calls
  PROVE  CallsOK' /\ \A id : Over(id) => Over(id)'
<1>1. pc' = [pc EXCEPT ![t] = "signal"] /\ pc \in [Threads -> {"idle", "called", "signal"}]
  BY DEF Unlock, after_unlock, ThreadsOK
<1>2. \A u \in Threads : pc'[u] = "called" => pc[u] = "called" /\ u # t
  BY <1>1
<1>3. ASSUME NEW u \in Threads, WriteCalled(u)', WritersNeverWait PROVE FALSE
  <2>1. u # t /\ WriteCalled(u)
    BY <1>2, <1>3 DEF WriteCalled, calls
  <2>2. QED
    BY <1>3, <2>1 DEF CallsOK
<1>4. written' = written /\ request' = request
  BY DEF calls
<1>5. QED
  BY <1>2, <1>3, <1>4, NobodyCalls

\* A thread that has the mutex goes on.
LEMMA WorkerCallsNobody ==
  ASSUME CallsOK, UNCHANGED <<holder, pc, calls>>
  PROVE  CallsOK' /\ \A id : Over(id) => Over(id)'
<1>1. written' = written /\ request' = request /\ pc' = pc /\ holder' = holder
  BY DEF calls
<1>2. ASSUME WritersNeverWait PROVE \A u \in Threads : WriteCalled(u)' => holder' = u
  BY <1>1, <1>2 DEF CallsOK, WriteCalled
<1>3. QED
  BY <1>1, <1>2, NobodyCalls

\* A thread waits: a reader, or a writer if writers do.
LEMMA WaiterCallsNobody ==
  ASSUME ThreadsOK, CallsOK, FlagsGiven, NEW t \in Threads, WaitForSpace(t) \/ WaitForData(t)
  PROVE  CallsOK' /\ \A id : Over(id) => Over(id)'
<1>1. holder = t /\ UNCHANGED <<pc, calls>>
  BY DEF WaitForSpace, WaitForData, Wait, Running
<1>2. written' = written /\ request' = request /\ pc' = pc
  BY <1>1 DEF calls
<1>3. ASSUME NEW u \in Threads, WriteCalled(u)', WritersNeverWait PROVE FALSE
  <2>1. WriteCalled(u) /\ u = t
    BY <1>1, <1>2, <1>3 DEF WriteCalled, CallsOK
  <2>2. WaitForSpace(t)
    BY <2>1 DEF WriteCalled, WaitForData, Running
  <2>3. QED
    BY <1>3, <2>2 DEF WaitForSpace, FlagsGiven, WritersNeverWait
<1>4. QED
  BY <1>2, <1>3, NobodyCalls

\* A step outside of the loops of reading and writing.
LEMMA OutsiderCallsNobody ==
  ASSUME ThreadsOK, CallsOK, NEW t \in Threads,
         \/ Resume(t) \/ Broadcast(t)
         \/ \E new \in LaterFlags : SetFlags(t, new)
         \/ Clear(t)
  PROVE  CallsOK' /\ \A id : Over(id) => Over(id)'
<1>1. written' = written /\ request' = request
  BY DEF Resume, Broadcast, SetFlags, Clear, calls
<1>2. pc \in [Threads -> {"idle", "called", "signal"}]
  BY DEF ThreadsOK
<1>3. \A u \in Threads : pc'[u] = "called" => pc[u] = "called"
  BY <1>2 DEF Resume, Broadcast, SetFlags, after_set_flags, Clear
<1>4. ASSUME NEW u \in Threads, WriteCalled(u)', WritersNeverWait PROVE holder' = u
  <2>1. WriteCalled(u) /\ holder = u
    BY <1>1, <1>3, <1>4 DEF WriteCalled, CallsOK
  <2>2. ~Resume(t)
    BY <2>1, BufferAssumption DEF Resume
  <2>3. holder' = holder
    BY <2>2 DEF Broadcast, SetFlags, Clear
  <2>4. QED
    BY <2>1, <2>3
<1>5. QED
  BY <1>1, <1>3, <1>4, NobodyCalls

\* A reader calls.
LEMMA ReaderCalls ==
  ASSUME ThreadsOK, CallsOK, NEW t \in Readers, NEW size \in ReadSizes, StartRead(t, size)
  PROVE  CallsOK' /\ \A id : Over(id) => Over(id)'
<1>1. /\ written' = written /\ holder = None /\ t \in Threads
      /\ pc' = [pc EXCEPT ![t] = "called"]
      /\ request' = [request EXCEPT ![t] = [op |-> "read", size |-> size, id |-> 0]]
  BY DEF StartRead, Call, Threads
<1>2. pc \in [Threads -> {"idle", "called", "signal"}] /\ DOMAIN request = Threads
  BY DEF ThreadsOK, RequestsOK
<1>3. \A u \in Threads : WriteCalled(u)' => WriteCalled(u) /\ request'[u] = request[u]
  BY <1>1, <1>2 DEF WriteCalled
<1>4. WritersNeverWait => \A u \in Threads : ~WriteCalled(u)
  BY <1>1, BufferAssumption DEF CallsOK
<1>5. CallsOK'
  BY <1>1, <1>3, <1>4 DEF CallsOK, WritersNeverWait
<1>6. \A id : Over(id) => Over(id)'
  BY <1>1, <1>3 DEF Over
<1>7. QED
  BY <1>5, <1>6

\* A writer calls: nobody else has called to write.
LEMMA WriterCalls ==
  ASSUME ThreadsOK, CallsOK, WritersKeepOrder,
         NEW t \in Writers, NEW size \in WriteSizes, StartWrite(t, size)
  PROVE  /\ CallsOK' /\ \A id : Over(id) => Over(id)'
         /\ written' = Append(written, size)
<1> DEFINE r == [op |-> "write", size |-> size, id |-> Len(written) + 1]
           n == Len(written) + 1
<1>1. /\ written' = Append(written, size) /\ holder = None /\ holder' = t /\ t \in Threads
      /\ pc[t] = "idle"
      /\ pc' = [pc EXCEPT ![t] = "called"]
      /\ request' = [request EXCEPT ![t] = r]
  BY DEF StartWrite, Call, Threads
<1>2. pc \in [Threads -> {"idle", "called", "signal"}] /\ DOMAIN request = Threads
  BY DEF ThreadsOK, RequestsOK
<1>3. /\ written' \in Seq(WriteSizes) /\ Len(written') = n /\ n > 0
      /\ written'[n] = size /\ Len(written) \in Nat
  BY <1>1 DEF CallsOK
<1>4. \A u \in Threads : ~WriteCalled(u)
  <2>1. CASE WritersNeverWait
    BY <1>1, <2>1, BufferAssumption DEF CallsOK
  <2>2. CASE ~WritersNeverWait
    <3>1. ASSUME NEW u \in Threads, WriteCalled(u) PROVE FALSE
      <4>1. u = t
        BY <2>2, <3>1 DEF CallsOK, WritersKeepOrder
      <4>2. QED
        BY <1>1, <3>1, <4>1 DEF WriteCalled
    <3>2. QED
      BY <3>1
  <2>3. QED
    BY <2>1, <2>2
<1>5. ASSUME NEW u \in Threads, WriteCalled(u)' PROVE u = t
  BY <1>1, <1>2, <1>4, <1>5 DEF WriteCalled
<1>6. request'[t].id = n /\ request'[t].size = size
  BY <1>1, <1>2
<1> HIDE DEF n, r
<1>7. CallsOK'
  BY <1>1, <1>3, <1>5, <1>6 DEF CallsOK
<1>8. ASSUME NEW id, Over(id) PROVE Over(id)'
  <2>1. id \in 1 .. Len(written)
    BY <1>8 DEF Over
  <2>2. id \in 1 .. Len(written') /\ id < Len(written')
    BY <1>3, <2>1 DEF n
  <2>3. QED
    BY <2>2 DEF Over
<1>9. QED
  BY <1>1, <1>7, <1>8

-----------------------------------------------------------------------------
(* The invariant of blocks *)

\* What was read are blocks of calls that are over, in their order.
TakenOK ==
  /\ taken \in Seq(Seq(Nat))
  /\ \A k \in 1 .. Len(taken) :
       \E id \in 1 .. Len(written) : Over(id) /\ taken[k] = [i \in 1 .. written[id] |-> id]
  /\ \A j, k \in 1 .. Len(taken) :
       j < k /\ taken[j] # << >> /\ taken[k] # << >> => taken[j][1] < taken[k][1]

\* The blocks of the calls ids are in the ring: of calls that are over, in their order,
\* behind all that was read; and messages counts them.
BlocksIn(ids, starts) ==
  /\ Laid(contents(ring), written, ids, starts)
  /\ \A j, k \in 1 .. Len(ids) : j < k => ids[j] < ids[k]
  /\ \A k \in 1 .. Len(ids) : Over(ids[k])
  /\ \A j \in 1 .. Len(taken), k \in 1 .. Len(ids) : taken[j] # << >> => taken[j][1] < ids[k]
  /\ messages >= Len(ids)

\* The ring and what is counted of it.
RoomOK ==
  /\ RingOK(ring)
  /\ max_fill_space \in Nat /\ messages \in Int
  /\ fill_space(ring) <= max_fill_space

BlocksOK == RoomOK /\ TakenOK /\ \E ids, starts : BlocksIn(ids, starts)

\* The inductive invariant of a buffer of blocks.
BlockInv == ThreadsOK /\ CallsOK /\ BlocksOK

\* The calls that are over stay over, and what they wrote stays.
OverStays ==
  /\ \A id : Over(id) => Over(id)'
  /\ written' = written \/ \E size \in WriteSizes : written' = Append(written, size)

\* What is known of a call is known after more calls.
LEMMA WrittenStays ==
  ASSUME CallsOK, OverStays
  PROVE  \A id \in 1 .. Len(written) : id \in 1 .. Len(written') /\ written'[id] = written[id]
<1>1. CASE written' = written
  BY <1>1
<1>2. ASSUME NEW size \in WriteSizes, written' = Append(written, size)
      PROVE  \A id \in 1 .. Len(written) :
               id \in 1 .. Len(written') /\ written'[id] = written[id]
  <2>1. written \in Seq(WriteSizes)
    BY DEF CallsOK
  <2>2. QED
    BY <1>2, <2>1
<1>3. QED
  BY <1>1, <1>2 DEF OverStays

\* What was read stays read.
LEMMA TakenStays ==
  ASSUME CallsOK, TakenOK, OverStays, taken' = taken
  PROVE  TakenOK'
<1>1. ASSUME NEW k \in 1 .. Len(taken)
      PROVE  \E id \in 1 .. Len(written') :
               Over(id)' /\ taken[k] = [i \in 1 .. written'[id] |-> id]
  <2>1. PICK id \in 1 .. Len(written) :
          Over(id) /\ taken[k] = [i \in 1 .. written[id] |-> id]
    BY DEF TakenOK
  <2>2. id \in 1 .. Len(written') /\ written'[id] = written[id]
    BY WrittenStays
  <2>3. Over(id)'
    BY <2>1 DEF OverStays
  <2>4. QED
    BY <2>1, <2>2, <2>3
<1>2. QED
  BY <1>1 DEF TakenOK

\* Blocks stay where they are as more is called.
LEMMA LaidStays ==
  ASSUME CallsOK, OverStays, NEW bytes, NEW ids, NEW starts, Laid(bytes, written, ids, starts)
  PROVE  Laid(bytes, written', ids, starts)
<1>1. CASE written' = written
  BY <1>1
<1>2. ASSUME NEW size \in WriteSizes, written' = Append(written, size)
      PROVE  Laid(bytes, written', ids, starts)
  <2>1. written \in Seq(WriteSizes)
    BY DEF CallsOK
  <2>2. Laid(bytes, Append(written, size), ids, starts)
    BY <2>1, LaidForMore
  <2>3. QED
    BY <1>2, <2>2
<1>3. QED
  BY <1>1, <1>2 DEF OverStays

\* A step that leaves the bytes and the count leaves the blocks.
LEMMA SameBlocks ==
  ASSUME CallsOK, BlocksOK, OverStays,
         contents(ring') = contents(ring), messages' = messages, taken' = taken, RoomOK'
  PROVE  BlocksOK' /\ FifoStep
<1>1. PICK ids, starts : BlocksIn(ids, starts)
  BY DEF BlocksOK
<1>2. Laid(contents(ring), written, ids, starts)
  BY <1>1 DEF BlocksIn
<1>3. Laid(contents(ring'), written', ids, starts)
  <2> DEFINE bytes == contents(ring)
  <2>1. Laid(bytes, written, ids, starts)
    BY <1>2
  <2> HIDE DEF bytes
  <2>2. Laid(bytes, written', ids, starts)
    BY <2>1, LaidStays
  <2>3. QED
    BY <2>2 DEF bytes
<1>4. \A k \in 1 .. Len(ids) : Over(ids[k])'
  BY <1>1 DEF BlocksIn, OverStays
<1>5. BlocksIn(ids, starts)'
  BY <1>1, <1>3, <1>4 DEF BlocksIn
<1>6. TakenOK'
  BY TakenStays DEF BlocksOK
<1>7. QED
  BY <1>5, <1>6 DEF BlocksOK, FifoStep

\* A step that empties the ring.
LEMMA NoBlocks ==
  ASSUME CallsOK, BlocksOK, OverStays, written' = written,
         contents(ring') = << >>, messages' = messages, taken' = taken, RoomOK'
  PROVE  BlocksOK' /\ FifoStep
<1>1. PICK ids, starts : BlocksIn(ids, starts)
  BY DEF BlocksOK
<1>2. Len(ids) \in Nat /\ messages \in Int /\ messages >= Len(ids)
  BY <1>1 DEF BlocksIn, Laid, BlocksOK, RoomOK
<1>3. written \in Seq(WriteSizes)
  BY DEF CallsOK
<1>4. Laid(<< >>, written, << >>, <<0>>)
  BY <1>3, NothingLaid
<1>5. BlocksIn(<< >>, <<0>>)'
  <2> DEFINE none == << >>
             start == <<0>>
  <2>1. Laid(contents(ring'), written', none, start) /\ Len(none) = 0
    BY <1>4
  <2> HIDE DEF none, start
  <2>2. messages' >= Len(none) /\ \A k \in 1 .. Len(none) : FALSE
    BY <1>2, <2>1
  <2>3. BlocksIn(none, start)'
    BY <2>1, <2>2 DEF BlocksIn
  <2>4. QED
    BY <2>3 DEF none, start
<1>6. TakenOK'
  BY TakenStays DEF BlocksOK
<1>7. FifoStep
  <2>1. RingOK(ring) /\ fill_space(ring) \in Nat
    BY RingFacts DEF BlocksOK, RoomOK
  <2>2. contents(ring)' = SubSeq(contents(ring), fill_space(ring) + 1, fill_space(ring))
    BY <2>1, ContentsType
  <2>3. QED
    BY <2>1, <2>2, TakeStep
<1>8. QED
  BY <1>5, <1>6, <1>7 DEF BlocksOK

\* The room for the bytes of a write, and what holds of the counters then.
LEMMA RoomForMore ==
  ASSUME RoomOK, NEW piece \in Seq(Nat), Len(piece) <= ring.free_space,
         ring' = put(ring, piece),
         max_fill_space' = MAX(max_fill_space, fill_space(ring')),
         messages' \in Int
  PROVE  RoomOK' /\ contents(ring') = contents(ring) \o piece
<1>1. RingOK(ring) /\ max_fill_space \in Nat /\ piece \in Seq(Int)
  BY DEF RoomOK
<1>2. RingOK(ring') /\ contents(ring') = contents(ring) \o piece
  BY <1>1, PutAppends
<1>3. fill_space(ring') \in Nat
  BY <1>2, RingFacts
<1>4. max_fill_space' \in Nat /\ fill_space(ring') <= max_fill_space'
  BY <1>1, <1>3 DEF MAX
<1>5. QED
  BY <1>2, <1>4 DEF RoomOK

\* A write puts its block behind all others.
LEMMA BlockIsWritten ==
  ASSUME Kind = "block", ThreadsOK, CallsOK, BlocksOK, NEW t \in Threads, Write(t)
  PROVE  BlocksOK' /\ FifoStep
<1>0. PICK n, size : n = Len(written) /\ size = written[n]
  OBVIOUS
<1> DEFINE piece == bytes_of(n, size)
           end(ids, starts) == starts[Len(ids) + 1] + HeaderSize + size
<1>1. /\ holder = t /\ Unlock(t) /\ UNCHANGED calls /\ taken' = taken /\ written' = written
      /\ ring' = put(ring, bytes_of(request[t].id, request[t].size))
      /\ messages' = messages + 1
      /\ max_fill_space' = MAX(max_fill_space, fill_space(ring'))
      /\ ~lacks_space(t) /\ request[t].op = "write"
  BY DEF Write, Running, weight, calls
<1>2. WriteCalled(t)
  BY <1>1, BufferAssumption DEF WriteCalled, ThreadsOK, HolderOK
<1>3. /\ n > 0 /\ request[t].id = n /\ request[t].size = size
      /\ written \in Seq(WriteSizes) /\ n \in 1 .. Len(written)
      /\ request[t].id \in 1 .. MaxWrites /\ request[t].size \in WriteSizes
      /\ \A u \in Threads : WriteCalled(u) => u = t
  BY <1>0, <1>2 DEF CallsOK, ThreadsOK, RequestsOK, WriteCalled
<1>4. n \in Nat /\ size \in WriteSizes /\ size \in Nat /\ n \in 1 .. MaxWrites
  BY <1>3, BufferAssumption
<1>5. \A id : Over(id) => Over(id)'
  BY <1>1, LeaverCallsNobody
<1>6. Over(n)'
  <2>1. pc' = [pc EXCEPT ![t] = "signal"] /\ pc \in [Threads -> {"idle", "called", "signal"}]
    BY <1>1 DEF Unlock, after_unlock, ThreadsOK
  <2>2. ASSUME NEW u \in Threads, WriteCalled(u)' PROVE FALSE
    <3>1. u # t /\ WriteCalled(u)
      BY <1>1, <2>1, <2>2 DEF WriteCalled, calls
    <3>2. QED
      BY <1>3, <3>1
  <2>3. QED
    BY <1>0, <1>1, <1>3, <2>2 DEF Over
<1>7. PICK ids, starts : BlocksIn(ids, starts)
  BY DEF BlocksOK
<1>8. piece \in Seq(Nat) /\ Len(piece) = HeaderSize + size
  BY <1>4, BlockPiece
<1>9. RoomOK' /\ contents(ring') = contents(ring) \o piece
  <2>1. Len(piece) <= ring.free_space
    <3>1. needed(t) = HeaderSize + size
      BY <1>3 DEF needed, header
    <3>2. ring.free_space \in Int /\ HeaderSize + size \in Nat
      BY <1>4, RingFacts, BufferAssumption DEF BlocksOK, RoomOK
    <3>3. QED
      BY <1>1, <1>8, <3>1, <3>2 DEF lacks_space
  <2>2. ring' = put(ring, piece) /\ RoomOK /\ messages' \in Int
    BY <1>1, <1>3 DEF BlocksOK, RoomOK
  <2> HIDE DEF piece
  <2>3. QED
    BY <1>1, <1>8, <2>1, <2>2, RoomForMore
<1>10. Laid(contents(ring'), written', Append(ids, n), Append(starts, end(ids, starts)))
  <2> DEFINE bytes == contents(ring)
  <2>1. Laid(bytes, written, ids, starts) /\ bytes \in Seq(Nat)
    BY <1>7 DEF BlocksIn, Laid
  <2> HIDE DEF bytes
  <2>2. Laid(bytes \o bytes_of(n, written[n]), written, Append(ids, n),
             Append(starts, starts[Len(ids) + 1] + HeaderSize + written[n]))
    BY <1>0, <1>3, <2>1, LaidBehind
  <2>3. QED
    BY <1>0, <1>1, <1>9, <2>2 DEF bytes
<1>11. ids \in Seq(1 .. Len(written)) /\ Len(ids) \in Nat
  BY <1>7 DEF BlocksIn, Laid
<1> DEFINE more == Append(ids, n)
<1>12. /\ Len(more) = Len(ids) + 1 /\ more[Len(ids) + 1] = n
       /\ \A k \in 1 .. Len(ids) : more[k] = ids[k] /\ ids[k] \in Nat
  BY <1>11
<1>13. \A k \in 1 .. Len(ids) : Over(ids[k]) /\ ids[k] < n
  BY <1>0, <1>2, <1>7 DEF BlocksIn, Over
<1>14. \A j \in 1 .. Len(taken) : taken[j] # << >> => taken[j][1] < n
  <2>1. ASSUME NEW j \in 1 .. Len(taken), taken[j] # << >> PROVE taken[j][1] < n
    <3>1. PICK id \in 1 .. Len(written) :
            Over(id) /\ taken[j] = [i \in 1 .. written[id] |-> id]
      BY DEF BlocksOK, TakenOK
    <3>2. id < n
      BY <1>0, <1>2, <3>1 DEF Over
    <3>3. taken[j][1] = id
      <4>1. written[id] \in Nat
        BY <1>3, BufferAssumption
      <4>2. written[id] # 0
        BY <2>1, <3>1
      <4>3. 1 \in 1 .. written[id]
        BY <4>1, <4>2
      <4>4. QED
        BY <3>1, <4>3
    <3>4. QED
      BY <3>2, <3>3
  <2>2. QED
    BY <2>1
<1> HIDE DEF more, end
<1>15. \A k \in 1 .. Len(more) : k \in 1 .. Len(ids) \/ k = Len(ids) + 1
  BY <1>11, <1>12
<1> DEFINE ends == Append(starts, end(ids, starts))
<1>16. BlocksIn(more, ends)'
  <2>1. ASSUME NEW k \in 1 .. Len(more) PROVE Over(more[k])'
    <3>1. CASE k \in 1 .. Len(ids)
      BY <1>5, <1>12, <1>13, <3>1
    <3>2. CASE k = Len(ids) + 1
      BY <1>6, <1>12, <3>2
    <3>3. QED
      BY <1>15, <3>1, <3>2
  <2>2. ASSUME NEW j \in 1 .. Len(more), NEW k \in 1 .. Len(more), j < k PROVE more[j] < more[k]
    <3>1. j \in 1 .. Len(ids)
      BY <1>11, <1>12, <2>2
    <3>2. CASE k \in 1 .. Len(ids)
      BY <1>7, <1>12, <2>2, <3>1, <3>2 DEF BlocksIn
    <3>3. CASE k = Len(ids) + 1
      BY <1>12, <1>13, <3>1, <3>3
    <3>4. QED
      BY <1>15, <3>2, <3>3
  <2>3. ASSUME NEW j \in 1 .. Len(taken), NEW k \in 1 .. Len(more), taken[j] # << >>
        PROVE  taken[j][1] < more[k]
    <3>1. CASE k \in 1 .. Len(ids)
      BY <1>7, <1>12, <2>3, <3>1 DEF BlocksIn
    <3>2. CASE k = Len(ids) + 1
      BY <1>12, <1>14, <2>3, <3>2
    <3>3. QED
      BY <1>15, <3>1, <3>2
  <2>4. messages' >= Len(more)
    BY <1>1, <1>7, <1>11, <1>12 DEF BlocksIn, BlocksOK, RoomOK
  <2>5. QED
    <3>1. Laid(contents(ring'), written', more, ends)
      BY <1>10 DEF more
    <3> HIDE DEF ends
    <3>2. QED
      BY <1>1, <2>1, <2>2, <2>3, <2>4, <3>1 DEF BlocksIn
<1>17. TakenOK'
  BY <1>1, <1>5, TakenStays DEF BlocksOK, OverStays
<1>18. FifoStep
  <2>1. piece \in Writes
    BY <1>4 DEF Writes
  <2>2. contents(ring)' = contents(ring) \o piece
    BY <1>9
  <2>3. Fifo!Put
    BY <2>1, <2>2, Zenon DEF Fifo!Put
  <2>4. QED
    BY <2>3 DEF FifoStep, Fifo!Next
<1>19. QED
  BY <1>9, <1>16, <1>17, <1>18 DEF BlocksOK

\* The block at the front is taken off: the others are left.
LEMMA FrontIsTaken ==
  ASSUME NEW ids, NEW starts, BlocksIn(ids, starts), 1 \in 1 .. Len(ids),
         messages \in Int, messages' = messages - 1, written' = written,
         \A id : Over(id) => Over(id)',
         Laid(contents(ring'), written, Tail(ids), Tail(starts)),
         \A j \in 1 .. Len(taken'), k \in 2 .. Len(ids) :
           taken'[j] # << >> => taken'[j][1] < ids[k]
  PROVE  \E some, ends : BlocksIn(some, ends)'
<1>1. ids \in Seq(1 .. Len(written)) /\ Len(ids) \in Nat /\ messages >= Len(ids)
  BY DEF BlocksIn, Laid
<1> DEFINE some == Tail(ids)
           ends == Tail(starts)
<1>2. /\ Len(some) = Len(ids) - 1
      /\ \A k \in 1 .. Len(some) : k + 1 \in 2 .. Len(ids) /\ k + 1 \in 1 .. Len(ids)
                                   /\ some[k] = ids[k + 1]
  BY <1>1
<1>3. Laid(contents(ring'), written', some, ends)
  OBVIOUS
<1> HIDE DEF some, ends
<1>4. messages' >= Len(some)
  BY <1>1, <1>2
<1>5. \A k \in 1 .. Len(some) : Over(some[k])'
  BY <1>2 DEF BlocksIn
<1>6. \A j \in 1 .. Len(taken'), k \in 1 .. Len(some) :
        taken'[j] # << >> => taken'[j][1] < some[k]
  BY <1>2
<1>7. ASSUME NEW j \in 1 .. Len(some), NEW k \in 1 .. Len(some), j < k PROVE some[j] < some[k]
  <2>1. j + 1 < k + 1
    BY <1>7
  <2>2. ids[j + 1] < ids[k + 1]
    BY <1>2, <2>1 DEF BlocksIn
  <2>3. QED
    BY <1>2, <2>2
<1>8. BlocksIn(some, ends)'
  BY <1>3, <1>4, <1>5, <1>6, <1>7 DEF BlocksIn
<1>9. QED
  BY <1>8

\* What is read of the block at the front, and what is left without it.
LEMMA FrontIsWhole ==
  ASSUME Kind = "block", RoomOK, NEW ids, NEW starts, BlocksIn(ids, starts), ~is_empty
  PROVE  LET size == written[ids[1]]
             n == HeaderSize + size
             rest == skip(ring, HeaderSize)
         IN  /\ 1 \in 1 .. Len(ids) /\ size \in Nat /\ n \in 0 .. fill_space(ring)
             /\ block_size = size
             /\ RingOK(rest) /\ fill_space(rest) = fill_space(ring) - HeaderSize
             /\ front(rest, size) = [i \in 1 .. size |-> ids[1]]
             /\ size \in 0 .. fill_space(rest)
             /\ contents(skip(rest, size)) = SubSeq(contents(ring), n + 1, fill_space(ring))
             /\ Laid(SubSeq(contents(ring), n + 1, fill_space(ring)), written,
                     Tail(ids), Tail(starts))
<1>1. RingOK(ring) /\ Laid(contents(ring), written, ids, starts)
  BY DEF RoomOK, BlocksIn
<1>2. ~(ring.free_space = ring.buffer_size)
  BY DEF is_empty
<1>3. QED
  BY <1>1, <1>2, FirstBlock DEF block_size

\* A throw drops the oldest block.
LEMMA BlockIsThrown ==
  ASSUME Kind = "block", ThreadsOK, CallsOK, BlocksOK, NEW t \in Threads, Throw(t)
  PROVE  BlocksOK' /\ FifoStep
<1>1. /\ ring' = skip(ring, HeaderSize + block_size) /\ messages' = messages - 1
      /\ max_fill_space' = max_fill_space /\ taken' = taken /\ written' = written
      /\ UNCHANGED <<holder, pc, calls>>
  BY DEF Throw, thrown, weight, calls
<1>2. RoomOK /\ TakenOK /\ RingOK(ring) /\ max_fill_space \in Nat /\ messages \in Int
      /\ fill_space(ring) <= max_fill_space /\ fill_space(ring) \in Nat
  BY RingFacts DEF BlocksOK, RoomOK
<1>3. ~is_empty
  <2>1. ring.free_space < ring.buffer_size /\ ring.free_space \in Int
    BY <1>2, RingFacts DEF Throw, can_throw
  <2>2. QED
    BY <2>1 DEF is_empty
<1>4. \A id : Over(id) => Over(id)'
  BY <1>1, WorkerCallsNobody
<1>5. PICK ids, starts : BlocksIn(ids, starts)
  BY DEF BlocksOK
<1> DEFINE n == HeaderSize + block_size
           left == SubSeq(contents(ring), n + 1, fill_space(ring))
<1>6. /\ 1 \in 1 .. Len(ids) /\ n \in 0 .. fill_space(ring)
      /\ Laid(left, written, Tail(ids), Tail(starts))
  BY <1>2, <1>3, <1>5, FrontIsWhole
<1>7. ring' = skip(ring, n)
  BY <1>1
<1> HIDE DEF n
<1>8. /\ RingOK(ring') /\ contents(ring') = left
      /\ fill_space(ring') = fill_space(ring) - n
  BY <1>2, <1>6, <1>7, SkipBytes
<1>9. RoomOK'
  BY <1>1, <1>2, <1>6, <1>8 DEF RoomOK
<1>10. \A j \in 1 .. Len(taken'), k \in 2 .. Len(ids) :
         taken'[j] # << >> => taken'[j][1] < ids[k]
  BY <1>1, <1>5 DEF BlocksIn
<1>11. \E some, ends : BlocksIn(some, ends)'
  BY <1>1, <1>2, <1>4, <1>5, <1>6, <1>8, <1>10, FrontIsTaken
<1>12. TakenOK'
  BY <1>1, <1>2, <1>4, TakenStays DEF OverStays
<1>13. FifoStep
  BY <1>2, <1>6, <1>8, TakeStep
<1>14. QED
  BY <1>9, <1>11, <1>12, <1>13 DEF BlocksOK

\* What was read, and one block more, of a later call than all before.
LEMMA OneMoreTaken ==
  ASSUME TakenOK, written \in Seq(Nat), written' = written,
         \A id : Over(id) => Over(id)',
         NEW id \in 1 .. Len(written), Over(id),
         taken' = Append(taken, [i \in 1 .. written[id] |-> id]),
         \A j \in 1 .. Len(taken) : taken[j] # << >> => taken[j][1] < id
  PROVE  /\ TakenOK'
         /\ \A j \in 1 .. Len(taken') : taken'[j] # << >> => taken'[j][1] <= id
<1> DEFINE block == [i \in 1 .. written[id] |-> id]
<1>1. id \in Nat /\ written[id] \in Nat /\ taken \in Seq(Seq(Nat))
  BY DEF TakenOK
<1>2. block \in Seq(Nat)
  BY <1>1
<1>3. block # << >> => block[1] = id
  <2>1. ASSUME block # << >> PROVE 1 \in 1 .. written[id]
    <3>1. written[id] # 0
      BY <2>1
    <3>2. QED
      BY <1>1, <3>1
  <2>2. QED
    BY <2>1
<1>4. taken' = Append(taken, block)
  OBVIOUS
<1>5. Over(id)' /\ block = [i \in 1 .. written'[id] |-> id] /\ id \in 1 .. Len(written')
  OBVIOUS
<1> HIDE DEF block
<1>6. /\ taken' \in Seq(Seq(Nat)) /\ Len(taken) \in Nat /\ Len(taken') = Len(taken) + 1
      /\ taken'[Len(taken) + 1] = block
      /\ \A j \in 1 .. Len(taken) : taken'[j] = taken[j]
      /\ \A j \in 1 .. Len(taken') : j \in 1 .. Len(taken) \/ j = Len(taken) + 1
  BY <1>1, <1>2, <1>4
<1>7. ASSUME NEW j \in 1 .. Len(taken')
      PROVE  \E num \in 1 .. Len(written') :
               Over(num)' /\ taken'[j] = [i \in 1 .. written'[num] |-> num]
  <2>1. CASE j \in 1 .. Len(taken)
    BY <1>6, <2>1 DEF TakenOK
  <2>2. CASE j = Len(taken) + 1
    BY <1>5, <1>6, <2>2
  <2>3. QED
    BY <1>6, <2>1, <2>2
<1>8. ASSUME NEW j \in 1 .. Len(taken'), NEW k \in 1 .. Len(taken'),
             j < k, taken'[j] # << >>, taken'[k] # << >>
      PROVE  taken'[j][1] < taken'[k][1]
  <2>1. j \in 1 .. Len(taken)
    BY <1>6, <1>8
  <2>2. CASE k \in 1 .. Len(taken)
    BY <1>6, <1>8, <2>1, <2>2 DEF TakenOK
  <2>3. CASE k = Len(taken) + 1
    BY <1>3, <1>6, <1>8, <2>1, <2>3
  <2>4. QED
    BY <1>6, <2>2, <2>3
<1>9. ASSUME NEW j \in 1 .. Len(taken'), taken'[j] # << >>
      PROVE  taken'[j][1] <= id
  <2>1. CASE j \in 1 .. Len(taken)
    <3>1. PICK num \in 1 .. Len(written) : taken[j] = [i \in 1 .. written[num] |-> num]
      BY <2>1 DEF TakenOK
    <3>2. written[num] # 0 /\ written[num] \in Nat
      <4>1. written[num] \in Nat
        OBVIOUS
      <4>2. taken[j] # << >>
        BY <1>6, <1>9, <2>1
      <4>3. QED
        BY <3>1, <4>1, <4>2
    <3>3. taken[j][1] = num
      BY <3>1, <3>2
    <3>4. taken[j][1] < id /\ num \in Nat
      BY <1>6, <1>9, <2>1
    <3>5. QED
      BY <1>1, <1>6, <2>1, <3>3, <3>4
  <2>2. CASE j = Len(taken) + 1
    BY <1>1, <1>3, <1>6, <1>9, <2>2
  <2>3. QED
    BY <1>6, <2>1, <2>2
<1>10. TakenOK'
  BY <1>6, <1>7, <1>8 DEF TakenOK
<1>11. QED
  BY <1>9, <1>10

\* A read that has room for it takes the oldest block.
LEMMA BlockIsTaken ==
  ASSUME Kind = "block", ThreadsOK, CallsOK, BlocksOK, NEW t \in Threads,
         ReadBlock(t), ~(block_size > request[t].size)
  PROVE  BlocksOK' /\ FifoStep
<1> DEFINE rest == skip(ring, HeaderSize)
<1>1. /\ taken' = Append(taken, front(rest, block_size)) /\ messages' = messages - 1
      /\ Leave(t, skip(rest, block_size)) /\ ~is_empty /\ holder = t
  BY DEF ReadBlock, weight, Running
<1>2. RoomOK /\ TakenOK /\ RingOK(ring) /\ max_fill_space \in Nat /\ messages \in Int
      /\ fill_space(ring) <= max_fill_space /\ fill_space(ring) \in Nat
  BY RingFacts DEF BlocksOK, RoomOK
<1>3. written' = written /\ \A id : Over(id) => Over(id)'
  BY <1>1, LeaverCallsNobody DEF Leave, calls
<1>4. PICK ids, starts : BlocksIn(ids, starts)
  BY DEF BlocksOK
<1> DEFINE size == written[ids[1]]
           n == HeaderSize + size
           left == SubSeq(contents(ring), n + 1, fill_space(ring))
           b == skip(rest, size)
<1>5. /\ 1 \in 1 .. Len(ids) /\ size \in Nat /\ n \in 0 .. fill_space(ring)
      /\ block_size = size
      /\ RingOK(rest) /\ fill_space(rest) = fill_space(ring) - HeaderSize
      /\ front(rest, size) = [i \in 1 .. size |-> ids[1]]
      /\ size \in 0 .. fill_space(rest)
      /\ contents(b) = left
      /\ Laid(left, written, Tail(ids), Tail(starts))
  BY <1>1, <1>2, <1>4, FrontIsWhole
<1>6. taken' = Append(taken, [i \in 1 .. written[ids[1]] |-> ids[1]]) /\ Leave(t, b)
  BY <1>1, <1>5
<1>7. RingOK(b) /\ fill_space(b) = fill_space(rest) - size
  <2> HIDE DEF rest, size
  <2>1. QED
    BY <1>5, SkipSpace
<1>8. fill_space(b) <= max_fill_space
  <2> HIDE DEF rest, size, b
  <2>1. HeaderSize \in Nat
    BY BufferAssumption
  <2>2. QED
    BY <1>2, <1>5, <1>7, <2>1
<1> HIDE DEF b, left, n, size, rest
<1>9. /\ RingOK(ring') /\ contents(ring') = left
      /\ max_fill_space' \in Nat /\ fill_space(ring') <= max_fill_space'
  BY <1>2, <1>5, <1>6, <1>7, <1>8, LeaveBytes
<1>10. RoomOK'
  BY <1>1, <1>2, <1>9 DEF RoomOK
<1>11. ids \in Seq(1 .. Len(written)) /\ ids[1] \in 1 .. Len(written) /\ Over(ids[1])
  <2>1. ids \in Seq(1 .. Len(written))
    BY <1>4 DEF BlocksIn, Laid
  <2>2. QED
    BY <1>4, <1>5, <2>1, ElementOfSeq DEF BlocksIn
<1>12. \A j \in 1 .. Len(taken) : taken[j] # << >> => taken[j][1] < ids[1]
  BY <1>4, <1>5 DEF BlocksIn
<1>13. written \in Seq(Nat)
  BY DEF ThreadsOK, RequestsOK
<1>14. /\ TakenOK'
       /\ \A j \in 1 .. Len(taken') : taken'[j] # << >> => taken'[j][1] <= ids[1]
  <2>1. PICK id : id = ids[1]
    OBVIOUS
  <2>2. id \in 1 .. Len(written) /\ Over(id)
        /\ taken' = Append(taken, [i \in 1 .. written[id] |-> id])
        /\ \A j \in 1 .. Len(taken) : taken[j] # << >> => taken[j][1] < id
    BY <1>6, <1>11, <1>12, <2>1
  <2>3. QED
    BY <1>2, <1>3, <1>13, <2>1, <2>2, OneMoreTaken
<1>15. ASSUME NEW j \in 1 .. Len(taken'), NEW k \in 2 .. Len(ids), taken'[j] # << >>
       PROVE  taken'[j][1] < ids[k]
  <2>1. ids[1] < ids[k] /\ ids[k] \in 1 .. Len(written)
    BY <1>4, <1>5, <1>11 DEF BlocksIn
  <2>2. taken'[j][1] <= ids[1] /\ taken'[j][1] \in Int
    <3>1. PICK id \in 1 .. Len(written') : taken'[j] = [i \in 1 .. written'[id] |-> id]
      BY <1>14 DEF TakenOK
    <3>2. written'[id] # 0 /\ written'[id] \in Nat
      BY <1>3, <1>13, <1>15, <3>1
    <3>3. taken'[j][1] = id
      BY <3>1, <3>2
    <3>4. QED
      BY <1>14, <1>15, <3>3
  <2>3. ids[1] \in Int /\ ids[k] \in Int
    BY <1>11, <2>1
  <2>4. QED
    BY <2>1, <2>2, <2>3
<1>16. \E some, ends : BlocksIn(some, ends)'
  BY <1>1, <1>2, <1>3, <1>4, <1>5, <1>9, <1>15, FrontIsTaken
<1>17. FifoStep
  BY <1>2, <1>5, <1>9, TakeStep DEF left
<1>18. QED
  BY <1>10, <1>14, <1>16, <1>17 DEF BlocksOK

\* A block too large for the reader empties the buffer.
LEMMA BlockIsTooLarge ==
  ASSUME Kind = "block", ThreadsOK, CallsOK, BlocksOK, NEW t \in Threads,
         ReadBlock(t), block_size > request[t].size
  PROVE  BlocksOK' /\ FifoStep
<1> DEFINE rest == skip(ring, HeaderSize)
           b == clear(rest)
<1>1. /\ taken' = taken /\ messages' = messages /\ Leave(t, b) /\ ~is_empty /\ holder = t
  BY DEF ReadBlock, Running
<1>2. RoomOK /\ max_fill_space \in Nat
  BY DEF BlocksOK, RoomOK
<1>3. OverStays /\ written' = written
  BY <1>1, LeaverCallsNobody DEF Leave, calls, OverStays
<1>4. PICK ids, starts : BlocksIn(ids, starts)
  BY DEF BlocksOK
<1>5. RingOK(rest)
  BY <1>1, <1>2, <1>4, FrontIsWhole
<1> HIDE DEF rest
<1>6. RingOK(b) /\ contents(b) = << >>
  BY <1>5, ClearEmpties
<1>7. fill_space(b) = 0
  <2> HIDE DEF b
  <2>1. QED
    BY <1>6, ContentsType
<1> HIDE DEF b
<1>8. /\ RingOK(ring') /\ contents(ring') = << >>
      /\ max_fill_space' \in Nat /\ fill_space(ring') <= max_fill_space'
  BY <1>1, <1>2, <1>6, <1>7, LeaveBytes
<1>9. RoomOK'
  BY <1>1, <1>8 DEF RoomOK, BlocksOK
<1>10. QED
  BY <1>1, <1>3, <1>8, <1>9, NoBlocks

\* A step that leaves the ring leaves the blocks.
LEMMA RingStays ==
  ASSUME CallsOK, BlocksOK, OverStays, UNCHANGED <<ring, max_fill_space, messages, taken>>
  PROVE  BlocksOK' /\ FifoStep
<1>1. RoomOK' /\ contents(ring') = contents(ring)
  BY DEF BlocksOK, RoomOK
<1>2. QED
  BY <1>1, SameBlocks

\* A buffer that grows holds the same blocks.
LEMMA BlocksGrow ==
  ASSUME CallsOK, BlocksOK, NEW t \in Threads, Grow(t)
  PROVE  BlocksOK' /\ FifoStep
<1> DEFINE size == smaller(max_buffer_size, 2 * ring.buffer_size)
<1>1. /\ RingOK(ring) /\ ring.buffer_size \in Nat \ {0}
      /\ fill_space(ring) \in 0 .. ring.buffer_size
  BY RingFacts DEF BlocksOK, RoomOK
<1>2. size \in Nat \ {0} /\ fill_space(ring) < size
  BY <1>1, BufferAssumption DEF Grow, can_grow, smaller
<1>3. /\ ring' = set_size(ring, size)
      /\ UNCHANGED <<max_fill_space, messages, taken, holder, pc, calls>>
  BY DEF Grow
<1> HIDE DEF size
<1>4. RingOK(ring') /\ contents(ring') = contents(ring)
  BY <1>1, <1>2, <1>3, ResizeKeeps
<1>5. fill_space(ring') = fill_space(ring)
  BY <1>1, <1>4, ContentsType
<1>6. RoomOK'
  BY <1>3, <1>4, <1>5 DEF BlocksOK, RoomOK
<1>7. OverStays
  BY <1>3, WorkerCallsNobody DEF OverStays, calls
<1>8. QED
  BY <1>3, <1>4, <1>6, <1>7, SameBlocks

\* A clear takes all blocks.
LEMMA BlocksCleared ==
  ASSUME ThreadsOK, CallsOK, BlocksOK, NEW t \in Threads, Clear(t)
  PROVE  BlocksOK' /\ FifoStep
<1>1. /\ RingOK(ring) /\ ring' = clear(ring) /\ max_fill_space \in Nat
      /\ UNCHANGED <<max_fill_space, messages, taken, written>>
  BY DEF BlocksOK, RoomOK, Clear
<1>2. RingOK(ring') /\ contents(ring') = << >>
  BY <1>1, ClearEmpties
<1>3. fill_space(ring') = 0
  BY <1>2, ContentsType
<1>4. RoomOK'
  BY <1>1, <1>2, <1>3 DEF BlocksOK, RoomOK
<1>5. OverStays
  BY <1>1, OutsiderCallsNobody DEF OverStays
<1>6. QED
  BY <1>1, <1>2, <1>4, <1>5, NoBlocks

\* A step of a writer.
LEMMA BlockWriterSteps ==
  ASSUME Kind = "block", BlockInv, FlagsGiven, NEW t \in Threads, WriterStep(t)
  PROVE  BlockInv' /\ FifoStep
<1>1. ThreadsOK /\ CallsOK /\ BlocksOK
  BY DEF BlockInv
<1>2. CASE Grow(t)
  <2>1. UNCHANGED <<flags, holder, waiting, pc, calls>>
    BY <1>2 DEF Grow
  <2>2. QED
    BY <1>1, <1>2, <2>1, StayThreads, WorkerCallsNobody, BlocksGrow DEF BlockInv
<1>3. CASE Throw(t)
  <2>1. UNCHANGED <<flags, holder, waiting, pc, calls>>
    BY <1>3 DEF Throw
  <2>2. QED
    BY <1>1, <1>3, <2>1, StayThreads, WorkerCallsNobody, BlockIsThrown DEF BlockInv
<1>4. CASE WaitForSpace(t)
  <2>1. /\ UNCHANGED <<ring, max_fill_space, messages, taken>> /\ Wait(t) /\ holder = t
        /\ written' = written
    BY <1>4 DEF WaitForSpace, Wait, Running, calls
  <2>2. CallsOK' /\ OverStays
    BY <1>1, <1>4, <2>1, WaiterCallsNobody DEF OverStays
  <2>3. QED
    BY <1>1, <2>1, <2>2, WaitThreads, RingStays DEF BlockInv
<1>5. ASSUME Unlock(t), holder = t, UNCHANGED <<flags, waiting, calls>>
      PROVE  ThreadsOK' /\ CallsOK' /\ OverStays
  <2>1. CallsOK' /\ OverStays
    BY <1>1, <1>5, LeaverCallsNobody DEF OverStays, calls
  <2>2. QED
    BY <1>1, <1>5, <2>1, UnlockThreads
<1>6. CASE Discard(t)
  <2>1. /\ UNCHANGED <<ring, max_fill_space, messages, taken>>
        /\ Unlock(t) /\ holder = t /\ UNCHANGED <<flags, waiting, calls>>
    BY <1>6 DEF Discard, Running
  <2>2. QED
    BY <1>1, <1>5, <2>1, RingStays DEF BlockInv
<1>7. CASE Write(t)
  <2>1. Unlock(t) /\ holder = t /\ UNCHANGED <<flags, waiting, calls>>
    BY <1>7 DEF Write, Running
  <2>2. QED
    BY <1>1, <1>5, <1>7, <2>1, BlockIsWritten DEF BlockInv
<1>8. QED
  BY <1>2, <1>3, <1>4, <1>6, <1>7 DEF WriterStep

\* A step of a reader.
LEMMA BlockReaderSteps ==
  ASSUME Kind = "block", BlockInv, FlagsGiven, NEW t \in Threads, ReaderStep(t)
  PROVE  BlockInv' /\ FifoStep
<1>1. ThreadsOK /\ CallsOK /\ BlocksOK
  BY DEF BlockInv
<1>2. CASE WaitForData(t)
  <2>1. /\ UNCHANGED <<ring, max_fill_space, messages, taken>> /\ Wait(t) /\ holder = t
        /\ written' = written
    BY <1>2 DEF WaitForData, Wait, Running, calls
  <2>2. CallsOK' /\ OverStays
    BY <1>1, <1>2, <2>1, WaiterCallsNobody DEF OverStays
  <2>3. QED
    BY <1>1, <2>1, <2>2, WaitThreads, RingStays DEF BlockInv
<1>3. ASSUME Unlock(t), holder = t, UNCHANGED <<flags, waiting, calls>>
      PROVE  ThreadsOK' /\ CallsOK' /\ OverStays
  <2>1. CallsOK' /\ OverStays
    BY <1>1, <1>3, LeaverCallsNobody DEF OverStays, calls
  <2>2. QED
    BY <1>1, <1>3, <2>1, UnlockThreads
<1>4. CASE ReadNothing(t)
  <2>1. /\ UNCHANGED <<ring, max_fill_space, messages, taken>>
        /\ Unlock(t) /\ holder = t /\ UNCHANGED <<flags, waiting, calls>>
    BY <1>4 DEF ReadNothing, Running
  <2>2. QED
    BY <1>1, <1>3, <2>1, RingStays DEF BlockInv
<1>5. CASE ReadBlock(t)
  <2>1. Unlock(t) /\ holder = t /\ UNCHANGED <<flags, waiting, calls>>
    BY <1>5 DEF ReadBlock, Leave, Running
  <2>2. BlocksOK' /\ FifoStep
    BY <1>1, <1>5, BlockIsTaken, BlockIsTooLarge
  <2>3. QED
    BY <1>3, <2>1, <2>2 DEF BlockInv
<1>6. CASE ReadRaw(t)
  BY <1>6 DEF ReadRaw
<1>7. QED
  BY <1>2, <1>4, <1>5, <1>6 DEF ReaderStep

\* A call is made.
LEMMA BlockCallSteps ==
  ASSUME WritersKeepOrder, BlockInv,
         \/ \E t \in Writers, size \in WriteSizes : StartWrite(t, size)
         \/ \E t \in Readers, size \in ReadSizes : StartRead(t, size)
  PROVE  BlockInv' /\ FifoStep
<1>1. ThreadsOK /\ CallsOK /\ BlocksOK
  BY DEF BlockInv
<1>2. ThreadsOK' /\ UNCHANGED <<ring, max_fill_space, messages, taken>>
  BY <1>1, CallThreadsOnly DEF StartWrite, StartRead
<1>3. CallsOK' /\ OverStays
  <2>1. ASSUME NEW t \in Writers, NEW size \in WriteSizes, StartWrite(t, size)
        PROVE  CallsOK' /\ OverStays
    BY <1>1, <2>1, WriterCalls DEF OverStays
  <2>2. ASSUME NEW t \in Readers, NEW size \in ReadSizes, StartRead(t, size)
        PROVE  CallsOK' /\ OverStays
    BY <1>1, <2>2, ReaderCalls DEF OverStays, StartRead
  <2>3. QED
    BY <2>1, <2>2
<1>4. QED
  BY <1>1, <1>2, <1>3, RingStays DEF BlockInv

\* A step that needs no mutex, or takes it again.
LEMMA BlockOtherSteps ==
  ASSUME BlockInv, NEW t \in Threads,
         \/ Resume(t)
         \/ Broadcast(t)
         \/ \E new \in LaterFlags : SetFlags(t, new)
         \/ Clear(t)
  PROVE  BlockInv' /\ FifoStep
<1>1. ThreadsOK /\ CallsOK /\ BlocksOK
  BY DEF BlockInv
<1>2. ThreadsOK'
  BY <1>1, OutsideThreads
<1>3. CallsOK' /\ OverStays
  <2>1. written' = written
    BY DEF Resume, Broadcast, SetFlags, Clear, calls
  <2>2. CallsOK' /\ \A id : Over(id) => Over(id)'
    BY <1>1, OutsiderCallsNobody
  <2>3. QED
    BY <2>1, <2>2 DEF OverStays
<1>4. CASE Clear(t)
  BY <1>1, <1>2, <1>3, <1>4, BlocksCleared DEF BlockInv
<1>5. CASE ~Clear(t)
  <2>1. UNCHANGED <<ring, max_fill_space, messages, taken>>
    BY <1>5 DEF Resume, Broadcast, SetFlags
  <2>2. QED
    BY <1>1, <1>2, <1>3, <2>1, RingStays DEF BlockInv
<1>6. QED
  BY <1>4, <1>5

\* Every step keeps the invariant of blocks, and does to the bytes what a sequence of
\* bytes allows.
LEMMA BlockStep ==
  ASSUME Kind = "block", WritersKeepOrder, BlockInv, FlagsGiven, [Next]_vars
  PROVE  BlockInv' /\ FifoStep
<1>1. ThreadsOK /\ CallsOK /\ BlocksOK
  BY DEF BlockInv
<1>2. CASE UNCHANGED vars
  <2>1. /\ UNCHANGED <<flags, holder, waiting, pc, calls>> /\ written' = written
        /\ UNCHANGED <<ring, max_fill_space, messages, taken>>
    BY <1>2 DEF vars, calls
  <2>2. CallsOK' /\ OverStays
    BY <1>1, <2>1, WorkerCallsNobody DEF OverStays
  <2>3. QED
    BY <1>1, <2>1, <2>2, StayThreads, RingStays DEF BlockInv
<1>3. CASE Next
  <2>1. CASE \/ \E t \in Writers, size \in WriteSizes : StartWrite(t, size)
             \/ \E t \in Readers, size \in ReadSizes : StartRead(t, size)
    BY <2>1, BlockCallSteps
  <2>2. ASSUME NEW t \in Threads,
               \/ Resume(t) \/ Broadcast(t)
               \/ \E new \in LaterFlags : SetFlags(t, new)
               \/ Clear(t)
        PROVE  BlockInv' /\ FifoStep
    BY <2>2, BlockOtherSteps
  <2>3. ASSUME NEW t \in Threads, WriterStep(t) PROVE BlockInv' /\ FifoStep
    BY <2>3, BlockWriterSteps
  <2>4. ASSUME NEW t \in Threads, ReaderStep(t) PROVE BlockInv' /\ FifoStep
    BY <2>4, BlockReaderSteps
  <2>5. QED
    BY <1>3, <2>1, <2>2, <2>3, <2>4 DEF Next
<1>4. QED
  BY <1>2, <1>3

\* A new buffer holds no block.
LEMMA BlockInit == Init => BlockInv /\ FlagsGiven
<1> SUFFICES ASSUME Init PROVE BlockInv /\ FlagsGiven
  OBVIOUS
<1>1. FlagsGiven
  BY DEF Init, FlagsGiven
<1>2. BufferInv /\ contents(ring) = << >>
  BY InitInv DEF Fifo!Init
<1>3. ThreadsOK /\ BytesOK
  BY <1>2, InvParts
<1>4. written = << >> /\ taken = << >> /\ messages = 0
      /\ \A t \in Threads : pc[t] = "idle"
  BY DEF Init
<1>5. CallsOK
  <2>1. written \in Seq(WriteSizes)
    BY <1>4
  <2>2. \A t \in Threads : ~WriteCalled(t)
    BY <1>4 DEF WriteCalled
  <2>3. QED
    BY <2>1, <2>2 DEF CallsOK
<1>6. RoomOK
  BY <1>3 DEF BytesOK, CountersOK, RoomOK
<1>7. TakenOK
  BY <1>4 DEF TakenOK
<1>8. BlocksIn(<< >>, <<0>>)
  <2> DEFINE none == << >>
             start == <<0>>
  <2>1. Laid(contents(ring), written, none, start) /\ Len(none) = 0
    BY <1>2, <1>5, NothingLaid DEF CallsOK
  <2> HIDE DEF none, start
  <2>2. messages >= Len(none) /\ \A k \in 1 .. Len(none) : FALSE
    BY <1>4, <2>1
  <2>3. BlocksIn(none, start)
    BY <2>1, <2>2 DEF BlocksIn
  <2>4. QED
    BY <2>3 DEF none, start
<1>9. QED
  BY <1>1, <1>3, <1>5, <1>6, <1>7, <1>8 DEF BlockInv, BlocksOK

\* The invariant says of the ring, of what was read and of the count what was promised.
LEMMA BlockInvSays ==
  ASSUME Kind = "block", BlockInv
  PROVE  BlocksAreWhole /\ MessagesAreEnough
<1>1. ThreadsOK /\ CallsOK /\ RoomOK /\ TakenOK
  BY DEF BlockInv, BlocksOK
<1>2. PICK ids, starts : BlocksIn(ids, starts)
  BY DEF BlockInv, BlocksOK
<1>3. Len(ids) \in Nat /\ messages >= Len(ids)
  BY <1>2 DEF BlocksIn, Laid
<1>4. blocks_from(contents(ring))[1] = Len(ids)
  <2> DEFINE bytes == contents(ring)
  <2>1. Laid(bytes, written, ids, starts)
    BY <1>2 DEF BlocksIn
  <2>2. bytes \in Seq(Nat) /\ written \in Seq(WriteSizes)
    BY <2>1 DEF Laid
  <2> HIDE DEF bytes
  <2>3. blocks_from(bytes)[1] = Len(ids)
    BY <2>1, <2>2, LaidIsCounted
  <2>4. QED
    BY <2>3 DEF bytes
<1>5. TypeOK
  BY <1>1 DEF ThreadsOK, RoomOK, TypeOK
<1>6. ReadsWholeBlocks
  <2>1. DOMAIN taken = 1 .. Len(taken) /\ DOMAIN written = 1 .. Len(written)
    BY <1>1 DEF TakenOK, CallsOK
  <2>2. QED
    BY <1>1, <2>1 DEF TakenOK, ReadsWholeBlocks
<1>7. BlocksAreAligned
  BY <1>3, <1>4 DEF BlocksAreAligned
<1>8. MessagesAreEnough
  BY <1>3, <1>4 DEF MessagesAreEnough
<1>9. QED
  BY <1>5, <1>6, <1>7, <1>8 DEF BlocksAreWhole

-----------------------------------------------------------------------------
(* The theorems of blocks *)

\* The inductive invariant of a buffer of blocks holds in every reachable state.
THEOREM BlockBufferInv ==
  ASSUME Kind = "block", WritersKeepOrder
  PROVE  Spec => []BlockInv
<1>1. Init => BlockInv /\ FlagsGiven
  BY BlockInit
<1>2. BlockInv /\ FlagsGiven /\ [Next]_vars => BlockInv'
  BY BlockStep
<1>3. FlagsGiven /\ [Next]_vars => FlagsGiven'
  BY FlagsStayGiven
<1>4. QED
  BY <1>1, <1>2, <1>3, PTL DEF Spec

\* Whatever was grown, thrown away, refused or cleared in between: what is in the buffer
\* are whole blocks without a gap, and what a read returns is one written block, whole,
\* in the order of the calls.
THEOREM BlocksAreAlwaysWhole ==
  ASSUME Kind = "block", WritersKeepOrder
  PROVE  Spec => []BlocksAreWhole
<1>1. BlockInv => BlocksAreWhole
  BY BlockInvSays
<1>2. QED
  BY <1>1, BlockBufferInv, PTL

\* The unsigned count of messages never falls below the number of blocks in the buffer,
\* so that no read and no throw can make it wrap.
THEOREM BlockMessagesAreEnough ==
  ASSUME Kind = "block", WritersKeepOrder
  PROVE  Spec => []MessagesAreEnough
<1>1. BlockInv => MessagesAreEnough
  BY BlockInvSays
<1>2. QED
  BY <1>1, BlockBufferInv, PTL

\* A buffer of blocks implements the sequence of bytes: a write appends the header and
\* the block as one piece, and a read or a throw cuts off the front.
THEOREM BlocksAreFifo ==
  ASSUME Kind = "block", WritersKeepOrder
  PROVE  Spec => RingIsFifo
<1>1. Init => Fifo!Init
  BY InitInv DEF Fifo!Init
<1>2. BlockInv /\ FlagsGiven /\ [Next]_vars => [Fifo!Next]_(contents(ring))
  BY BlockStep DEF FifoStep
<1>3. Init => FlagsGiven
  BY BlockInit
<1>4. FlagsGiven /\ [Next]_vars => FlagsGiven'
  BY FlagsStayGiven
<1>5. QED
  BY <1>1, <1>2, <1>3, <1>4, BlockBufferInv, PTL DEF Spec, RingIsFifo, Fifo!Spec

=============================================================================
