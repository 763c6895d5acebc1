----------------------------- MODULE RoundBuffer -----------------------------
(***************************************************************************)
(* The round buffer of lib/LibCMS/cms_buffer.c between threads that write  *)
(* and threads that read, with raw bytes or with blocks that carry their   *)
(* length.  Blocks with a time stamp are not modelled.                     *)
(*                                                                         *)
(* A call runs under the mutex; `holder` has it.  Each iteration of a loop *)
(* that makes room is a step.  g_cond_wait gives the mutex up; the         *)
(* broadcast comes after the unlock, as a step of its own.                 *)
(*                                                                         *)
(* The k-th call that writes writes bytes of value k.                      *)
(***************************************************************************)
EXTENDS Ring

CONSTANTS
  Writers, Readers,  \* the threads
  Kind,              \* "raw" or "block"
  HeaderSize,        \* 4: the bytes of a block's length
  DEFAULT_SIZE_1,    \* 0x1000
  DEFAULT_SIZE_2,    \* 0x10000
  max_buffer_size,
  FirstFlags,        \* the flags the buffer may be made with,
  LaterFlags,        \* those it may be given later
  WriteSizes,        \* the sizes of what is written,
  ReadSizes,         \* of the memory it is read to
  MaxWrites,         \* bounds of the model: calls that write,
  MaxClears,         \* that clear,
  MaxSettings        \* that set flags

Flags == {"READ_BLOCK", "READ_BLOCK_ALL", "WRITE_BLOCK", "WRITE_GROW", "WRITE_THROW"}

Threads == Writers \cup Readers

None == "none"

ASSUME BufferAssumption ==
  /\ Writers \cap Readers = {}
  /\ None \notin Threads
  /\ Kind \in {"raw", "block"}
  /\ {HeaderSize, DEFAULT_SIZE_1, DEFAULT_SIZE_2} \subseteq Nat \ {0}
  /\ max_buffer_size \in Nat
  /\ max_buffer_size >= DEFAULT_SIZE_1
  /\ FirstFlags \cup LaterFlags \subseteq SUBSET Flags
  /\ WriteSizes \cup ReadSizes \subseteq Nat
  /\ {MaxWrites, MaxClears, MaxSettings} \subseteq Nat

VARIABLES
  ring,
  flags,
  max_fill_space,
  messages,    \* unsigned in the code
  holder,      \* the thread that has the mutex, or None
  waiting,     \* threads in g_cond_wait that nobody has woken
  request,     \* what each thread has called
  pc,          \* "idle", "called", "signal"
  written,     \* history: the size of the k-th call that wrote,
  taken,       \* the blocks that were read, in order,
  clears, settings

vars == <<ring, flags, max_fill_space, messages, holder, waiting, request, pc, written, taken,
          clears, settings>>

calls == <<request, written, clears, settings>>

NoRequest == [op |-> "none", size |-> 0, id |-> 0]

Init ==
  /\ ring = NewRing(DEFAULT_SIZE_1)
  /\ flags \in FirstFlags
  /\ max_fill_space = DEFAULT_SIZE_1
  /\ messages = 0
  /\ holder = None
  /\ waiting = {}
  /\ request = [t \in Threads |-> NoRequest]
  /\ pc = [t \in Threads |-> "idle"]
  /\ written = << >>
  /\ taken = << >>
  /\ clears = 0
  /\ settings = 0

smaller(a, b) == IF a < b THEN a ELSE b

MAX(a, b) == IF a > b THEN a ELSE b

-----------------------------------------------------------------------------
(* The mutex and the condition *)

Call(t, r) ==
  /\ pc[t] = "idle"
  /\ holder = None
  /\ holder' = t
  /\ pc' = [pc EXCEPT ![t] = "called"]
  /\ request' = [request EXCEPT ![t] = r]

Running(t, op) == holder = t /\ request[t].op = op

\* A thread that was woken has the mutex again, and looks at its condition.
Resume(t) ==
  /\ pc[t] = "called"
  /\ holder = None
  /\ t \notin waiting
  /\ holder' = t
  /\ UNCHANGED <<ring, flags, max_fill_space, messages, waiting, pc, taken, calls>>

Wait(t) ==
  /\ holder' = None
  /\ waiting' = waiting \cup {t}
  /\ UNCHANGED <<ring, flags, max_fill_space, messages, pc, taken, calls>>

\* Mutated form: a call ends without a broadcast.
after_unlock_quiet(t) == "idle"

after_unlock(t) == "signal"

Unlock(t) ==
  /\ holder' = None
  /\ pc' = [pc EXCEPT ![t] = after_unlock(t)]

Broadcast(t) ==
  /\ pc[t] = "signal"
  /\ pc' = [pc EXCEPT ![t] = "idle"]
  /\ waiting' = {}
  /\ UNCHANGED <<ring, flags, max_fill_space, messages, holder, taken, calls>>

-----------------------------------------------------------------------------
(* Writing *)

StartWrite(t, size) ==
  /\ Len(written) < MaxWrites
  /\ Call(t, [op |-> "write", size |-> size, id |-> Len(written) + 1])
  /\ written' = Append(written, size)
  /\ UNCHANGED <<ring, flags, max_fill_space, messages, waiting, taken, clears, settings>>

header == IF Kind = "block" THEN HeaderSize ELSE 0

\* shifted(size)[i]: what is left of a length without its i low bytes.
shifted(size) ==
  LET left[i \in 0 .. HeaderSize] == IF i = 0 THEN size ELSE left[i - 1] \div 256
  IN  left

\* The bytes of a call: for a block its length comes first, low byte first.
bytes_of(id, size) ==
  [i \in 1 .. header + size |-> IF i <= header THEN shifted(size)[i - 1] % 256 ELSE id]

\* Lengths are of 32 bits, and a header has room for them.
ASSUME LengthsFit == Kind = "block" => \A size \in WriteSizes : shifted(size)[HeaderSize] = 0

\* The length a header holds: joined[i] is the number its i high bytes make.
length(byte) ==
  LET joined[i \in 0 .. HeaderSize] ==
        IF i = 0 THEN 0 ELSE byte[HeaderSize - i] + 256 * joined[i - 1]
  IN  joined[HeaderSize]

needed(t) == header + request[t].size

lacks_space(t) == needed(t) > ring.free_space

can_grow == "WRITE_GROW" \in flags /\ ring.buffer_size < max_buffer_size

can_throw == "WRITE_THROW" \in flags /\ ring.free_space < ring.buffer_size

\* Mutated form: the bytes of a block are counted, not the block.
weight_bytes(n) == n

\* What n bytes, or a block of n bytes, add to messages.
weight(n) == IF Kind = "raw" THEN n ELSE 1

Grow(t) ==
  /\ Running(t, "write") /\ lacks_space(t)
  /\ can_grow
  /\ ring' = set_size(ring, smaller(max_buffer_size, 2 * ring.buffer_size))
  /\ UNCHANGED <<flags, max_fill_space, messages, holder, waiting, pc, taken, calls>>

\* The length the block at the front carries.
block_size == length([i \in 0 .. HeaderSize - 1 |-> at(ring, ring.fill_pos + i)])

\* Mutated form: the header of a thrown block stays.
thrown_bare(t) ==
  IF Kind = "raw" THEN smaller(needed(t) - ring.free_space, fill_space(ring)) ELSE block_size

\* What a throw drops: the oldest bytes, or the oldest block.
thrown(t) ==
  IF Kind = "raw" THEN smaller(needed(t) - ring.free_space, fill_space(ring))
  ELSE HeaderSize + block_size

Throw(t) ==
  /\ Running(t, "write") /\ lacks_space(t)
  /\ ~can_grow /\ can_throw
  /\ ring' = skip(ring, thrown(t))
  /\ messages' = messages - weight(thrown(t))
  /\ UNCHANGED <<flags, max_fill_space, holder, waiting, pc, taken, calls>>

WaitForSpace(t) ==
  /\ Running(t, "write") /\ lacks_space(t)
  /\ ~can_grow /\ ~can_throw
  /\ "WRITE_BLOCK" \in flags
  /\ needed(t) <= ring.buffer_size
  /\ Wait(t)

Discard(t) ==
  /\ Running(t, "write") /\ lacks_space(t)
  /\ ~can_grow /\ ~can_throw
  /\ "WRITE_BLOCK" \in flags => needed(t) > ring.buffer_size
  /\ Unlock(t)
  /\ UNCHANGED <<ring, flags, max_fill_space, messages, waiting, taken, calls>>

Write(t) ==
  /\ Running(t, "write") /\ ~lacks_space(t)
  /\ ring' = put(ring, bytes_of(request[t].id, request[t].size))
  /\ messages' = messages + weight(request[t].size)
  /\ max_fill_space' = MAX(max_fill_space, fill_space(ring'))
  /\ Unlock(t)
  /\ UNCHANGED <<flags, waiting, taken, calls>>

-----------------------------------------------------------------------------
(* Reading *)

StartRead(t, size) ==
  /\ Call(t, [op |-> "read", size |-> size, id |-> 0])
  /\ UNCHANGED <<ring, flags, max_fill_space, messages, waiting, written, taken, clears, settings>>

is_empty == ring.free_space = ring.buffer_size

WaitForData(t) ==
  /\ Running(t, "read")
  /\ \/ "READ_BLOCK" \in flags /\ is_empty
     \/ Kind = "raw" /\ "READ_BLOCK_ALL" \in flags /\ fill_space(ring) < request[t].size
  /\ Wait(t)

\* Once a minute a buffer that has long been nearly empty is halved.
check_size(b) ==
  LET small == max_fill_space < b.buffer_size \div 4 /\ b.buffer_size > DEFAULT_SIZE_2
  IN  /\ "WRITE_GROW" \in flags
      /\ ring' = IF small THEN set_size(b, b.buffer_size \div 2) ELSE b
      /\ max_fill_space' = MAX(fill_space(b), DEFAULT_SIZE_1)

\* The end of a read that leaves b.
Leave(t, b) ==
  /\ \/ check_size(b)
     \/ ring' = b /\ UNCHANGED max_fill_space
  /\ Unlock(t)
  /\ UNCHANGED <<flags, waiting, calls>>

ReadNothing(t) ==
  /\ Running(t, "read")
  /\ is_empty
  /\ "READ_BLOCK" \notin flags
  /\ Kind = "raw" => "READ_BLOCK_ALL" \notin flags \/ request[t].size = 0
  /\ IF Kind = "raw" THEN Leave(t, ring)
     ELSE Unlock(t) /\ UNCHANGED <<ring, max_fill_space, flags, waiting, calls>>
  /\ UNCHANGED <<messages, taken>>

ReadRaw(t) ==
  /\ Running(t, "read") /\ Kind = "raw"
  /\ ~is_empty
  /\ "READ_BLOCK_ALL" \in flags => fill_space(ring) >= request[t].size
  /\ \E n \in {smaller(request[t].size, fill_space(ring))} :
       /\ messages' = messages - weight(n)
       /\ Leave(t, skip(ring, n))
  /\ UNCHANGED taken

\* The block that follows the header; one too large empties the buffer.
ReadBlock(t) ==
  /\ Running(t, "read") /\ Kind = "block"
  /\ ~is_empty
  /\ \E rest \in {skip(ring, HeaderSize)} :
       IF block_size > request[t].size
         THEN Leave(t, clear(rest)) /\ UNCHANGED <<messages, taken>>
         ELSE /\ taken' = Append(taken, front(rest, block_size))
              /\ messages' = messages - weight(block_size)
              /\ Leave(t, skip(rest, block_size))

-----------------------------------------------------------------------------
(* Settings *)

\* Mutated form: nobody is told that the flags have changed.
after_set_flags_quiet(t) == "idle"

after_set_flags(t) == "signal"

SetFlags(t, new) ==
  /\ pc[t] = "idle" /\ holder = None
  /\ settings < MaxSettings
  /\ settings' = settings + 1
  /\ flags' = new
  /\ pc' = [pc EXCEPT ![t] = after_set_flags(t)]
  /\ UNCHANGED <<ring, max_fill_space, messages, holder, waiting, request, written, taken, clears>>

Clear(t) ==
  /\ pc[t] = "idle" /\ holder = None
  /\ clears < MaxClears
  /\ clears' = clears + 1
  /\ ring' = clear(ring)
  /\ UNCHANGED <<flags, max_fill_space, messages, holder, waiting, request, pc, written, taken,
                 settings>>

WriterStep(t) ==
  \/ Grow(t) \/ Throw(t) \/ WaitForSpace(t) \/ Discard(t) \/ Write(t)

ReaderStep(t) ==
  \/ WaitForData(t) \/ ReadNothing(t) \/ ReadRaw(t) \/ ReadBlock(t)

Next ==
  \/ \E t \in Writers, size \in WriteSizes : StartWrite(t, size)
  \/ \E t \in Readers, size \in ReadSizes : StartRead(t, size)
  \/ \E t \in Threads :
       \/ Resume(t) \/ Broadcast(t)
       \/ WriterStep(t) \/ ReaderStep(t)
       \/ \E new \in LaterFlags : SetFlags(t, new)
       \/ Clear(t)

Spec == Init /\ [][Next]_vars

-----------------------------------------------------------------------------
(* Properties *)

\* Types of the state.
TypeOK ==
  /\ RingOK(ring)
  /\ flags \subseteq Flags
  /\ max_fill_space \in Nat
  /\ messages \in Int
  /\ holder \in Threads \cup {None}
  /\ waiting \subseteq {t \in Threads : pc[t] = "called"}
  /\ pc \in [Threads -> {"idle", "called", "signal"}]

\* Everything a call may write.
Writes == {bytes_of(id, size) : id \in 1 .. MaxWrites, size \in WriteSizes}

Fifo == INSTANCE ByteFifo WITH bytes <- contents(ring), Pieces <- Writes

\* Through every wrap, growth, shrinking, throw and clear the buffer is a
\* sequence of bytes to which whole writes are appended, shortened from its front.
RingIsFifo == Fifo!Spec

\* Whatever was grown, thrown away or refused in between: what a read returns is
\* one written block, whole, and blocks come out in the order they went in.
ReadsWholeBlocks ==
  Kind = "block" =>
    /\ \A k \in DOMAIN taken :
         \E id \in DOMAIN written : taken[k] = [i \in 1 .. written[id] |-> id]
    /\ \A j, k \in DOMAIN taken :
         j < k /\ taken[j] # << >> /\ taken[k] # << >> => taken[j][1] < taken[k][1]

\* blocks_from(bytes)[i]: how many blocks follow each other from position i to
\* the end without a gap; negative if they do not.
blocks_from(bytes) ==
  LET length_at(i) == length([k \in 0 .. HeaderSize - 1 |-> bytes[i + k]])
      count[i \in 1 .. Len(bytes) + 1] ==
        IF i > Len(bytes) THEN 0
        ELSE IF i + HeaderSize > Len(bytes) + 1 THEN -Len(bytes) - 1
        ELSE IF i + HeaderSize + length_at(i) > Len(bytes) + 1 THEN -Len(bytes) - 1
        ELSE 1 + count[i + HeaderSize + length_at(i)]
  IN  count

\* The blocks in the ring follow each other without a gap: what a read takes for
\* a length is one.
BlocksAreAligned == Kind = "block" => blocks_from(contents(ring))[1] >= 0

\* Both, with the types: what is in the ring and what comes out of it are blocks.
BlocksAreWhole == TypeOK /\ ReadsWholeBlocks /\ BlocksAreAligned

\* The waiting thread's condition, evaluated now.
MayGoOn(t) ==
  IF request[t].op = "write"
    THEN ~lacks_space(t) \/ can_grow \/ can_throw \/ "WRITE_BLOCK" \notin flags
    ELSE /\ ~("READ_BLOCK" \in flags /\ is_empty)
         /\ ~(Kind = "raw" /\ "READ_BLOCK_ALL" \in flags /\ fill_space(ring) < request[t].size)

\* cms_buffer.c, _write_block: "pockame na uvolneni bufferu" - nobody waits for
\* what has already come, unless somebody is about to wake him.
NobodyIsForgotten ==
  \A t \in waiting : MayGoOn(t) => holder # None \/ \E u \in Threads : pc[u] = "signal"

\* messages is never less than what is in the buffer: taking it out cannot make
\* the unsigned counter wrap.
MessagesAreEnough ==
  messages >= (IF Kind = "raw" THEN fill_space(ring)
               ELSE blocks_from(contents(ring))[1])

-----------------------------------------------------------------------------
(* Liveness *)

\* Each thread runs; the mutex is not withheld from a thread for ever; readers
\* read on.
Fairness ==
  \A t \in Threads :
    /\ WF_vars(Broadcast(t))
    /\ WF_vars(WriterStep(t) \/ ReaderStep(t))
    /\ SF_vars(Resume(t))
    /\ t \in Readers => SF_vars(\E size \in ReadSizes : StartRead(t, size))

FairSpec == Spec /\ Fairness

\* A writer that waits gets through in the end.
WritersGetThrough ==
  \A t \in Writers : (pc[t] = "called") ~> (pc[t] # "called")

\* cms_client.c and cms_udp.c close a connection by taking the flags off its
\* buffers, to get the threads out of them: everybody leaves.
ClosedIsLeft ==
  \A t \in Threads : (pc[t] = "called" /\ flags = {}) ~> (pc[t] # "called")

=============================================================================
