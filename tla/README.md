# Verification of LibCM and LibCMS

The repository is a decoder of ASTERIX category 253 (`main.cc`) and the
libraries it is linked with. The decoder is a sequential loop over one input;
the state that is hard to get right is in the libraries, first of all in
**LibCM**, a middleware that shares named variables between processes, and in
the reliable UDP transport it runs over. This directory holds TLA+ models of
that code, the TLC configurations that check them on small instances and TLAPS
proofs of what matters most for every instance.

All paths below are relative to `src/`; `cm_*` files are in `lib/LibCM/`,
`cms_*` files in `lib/LibCMS/`.

## 1. Inventory

### 1.1 UDP transport: numbering and wire numbers (`cm_ip_udp_message.*`)

* *State.* None. Message numbers are 64-bit counters inside a process; on the
  wire travels the remainder modulo `msg_id_end` (0xffff).
* *Operations.* `convert_msg_to_rem`, `convert_msg_id_to_abs`,
  `find_nearest_mod`; `write_message`/`parse_message`.
* *Hard.* Ties and the odd modulus in `find_nearest_mod`; how far a number may
  be from the reference for the reconstruction to be exact.
* *Correct means.* Conversion to the wire and back is the identity for every
  number within half a cycle of the reference.

### 1.2 UDP transport: a partner (`cm_ip_udp_partner.*`, `cm_ip_udp.cc`)

* *State.* `struct Partner`: the three counters (`my_msg_id_counter`,
  `my_msg_id_received`, `his_msg_id_received`), the messages sent and not yet
  acknowledged, those received ahead of a gap, those still without a number
  (`queue_to_send`), the window and the number of datagrams without loss that
  it grows from, the history of acknowledgement delays.
* *Operations.* `send`, `do_receive` (`handle_message_acknowledge`,
  `handle_data_message`), the numbering of the queue, `send_partners_messages`.
* *Interaction.* Two threads per process - the receiving thread `recv_main` and
  the user's - share the partners under one mutex; the processes exchange
  datagrams `m` (message), `p` (ping, which is also the acknowledgement), `d`
  (disconnect), `i` and `a` (handshake).
* *Hard.* Loss, duplication, reordering and delay of datagrams; stale
  acknowledgements; `sendto` failing in the middle of a pass; the window as a
  feedback of unsigned counters; the resend delay as a feedback of history.
* *Correct means.* Every message is delivered once, in order, without a gap; an
  acknowledgement is never ahead of what was received; nothing is dropped that
  the other side may still need; no assertion fails; everything is delivered in
  the end.

### 1.3 UDP transport: sessions (`cm_ip_udp.cc`, `cm_ip_udp_partner_list.*`, `cm_ip_eventstate.hh`)

* *State.* On the server the accepted sessions (hash of the client, session id,
  both initial numbers) and the list of partners; on the client the one partner
  and the hash it tries to connect with; in both the boot id and, for the user
  to pick up, the coalesced events of each connection.
* *Operations.* `i` and `a` datagrams, creation of a partner at its first
  datagram, `check_partners_timeout`, `disconnect`, `get_new_event`, restart.
* *Hard.* Duplicated and late handshake datagrams, a partner that one side has
  given up and the other has not, a restart of either process, a connection
  that comes and goes between two pick-ups by the user.
* *Correct means.* A user sees connect, messages, disconnect in this order for
  every connection id, never an event after the end; two sides that are
  connected agree on the initial numbers; a lost connection is made again.

### 1.4 The core: partners and variables (`cm_core.*`, `cm_base_variable.*`, `cm_partner_variables.hh`)

* *State.* The variables this process defines; for each partner, in the order of
  connecting, those he defines, with a mark on the ones that collide; the user's
  filters; a FIFO of messages in each direction.
* *Operations.* Define, change, undefine, filters and the callback of the user;
  `INIT` and `INIT-ACC`, then `DEF`, `UNDEF`, `SET` (the owner tells), `MOD` (a
  partner asks for a change), `FILT_DEF`/`FILT_UNDEF`; `nowConnected`,
  `erasePartner`, `EvalPing`.
* *Interaction.* The user's threads, the receiving thread and the scheduler's
  share everything under one mutex; partners exchange messages over a transport
  that keeps their order.
* *Hard.* A change by a partner crosses one by the owner; a variable is
  redefined with another size while a change of it is under way; two processes
  define one name; one end of a connection knows that it is lost and the other
  does not.
* *Correct means.* Partners that have nothing left to tell each other agree; one
  owner of a name counts; the user who applies what he is told has what a read
  gives.

### 1.5 Changes, queues and buffers (`cm_var_changes`, `cm_generate_changes`, `cm_variables_to_send`, `cm_setcmd`, `cm_queue`, send and receive buffers, `cm_fragments`)

* *State.* For each partner and variable what was sent last, what waits to be
  sent, and for each index the number of the message that carried it; for the
  user what was created, updated or deleted since his last callback.
* *Hard.* Merging a change into one that waits; telling, of a crossing change,
  the fields that may still be applied.
* *Correct means.* Nothing a change touched is told of too few fields, or over a
  newer value.

### 1.6 Filters (`cm_base_filter*`, `cm_base_filters_set`, `cm_generate_filter_changes`)

* *State.* What this process asked of each partner, and what he was told of it.
* *Hard.* A filter that goes and comes again before the partner heard of either.

### 1.7 Master and slave (`cm_core.cc`: `msv_*`, `cm_ip_msv_onoff.hh`)

* *State.* The master's name and partner; which of the transports are on.
* *Hard.* The master is lost and another takes his place: the user must be told
  the difference between the variables of the two.

### 1.8 Switches over transports (`cm_ip.cc`, `cm_ip_switch`, `cm_ip_one_of`, `cm_ip_onoff`, `cm_ip_msv_onoff`, `cm_ip_cmsclient`, `cm_ip_cmsserver`)

* *State.* Which transports exist; the translation of connection ids; which
  connections the user has been told of, and whether he still has to be told that all
  are gone; of a choice of several, which one is active.
* *Hard.* Transports are destroyed with events nobody picked up, and new ones
  number their connections from 1 again.
* *Correct means.* What `cm_ip.hh` promises the user of one transport holds through all
  layers: connect, messages of that connection only, disconnect.

### 1.9 Queries and responses (`cm_db_*`)

* *State.* At the asker the queries with their state, the part not yet sent and
  the answers not yet read; at the provider the responses; on both sides the ids
  of the services announced.
* *Hard.* An answer after a cancel or a time-out, a service withdrawn with a
  query in flight, a connection lost and made again, a callback that was
  generated and has not run.
* *Correct means.* Each row is told once and in order; every query ends; nobody
  keeps a query for ever.

### 1.10 Scheduler (`cm_scheduler.*`, `cm_thread.*`)

* *State.* One thread for the process, made with the first `PollCond` and
  joined with the last; tasks ordered by time.
* *Hard.* A `PollCond` destroyed while its function runs or is about to, and made
  again at the same address; merging of calls for the same function.
* *Correct means.* No function of a destroyed source runs; no wake-up is lost or slept
  through; whoever destroys a source gets through.

### 1.11 Round buffer (`cms_buffer.c`)

* *State.* A byte ring (head, tail, size), limits, a count of messages, a mutex
  and a condition.
* *Operations.* Read and write raw bytes, blocks with a length header, blocks
  with a time stamp; growing, throwing old data away, blocking; clear, resize.
* *Hard.* Writers and readers that wait for each other; a block larger than the
  reader's memory; what happens at exactly full and exactly empty.

### 1.12 Save file (`cm_core.cc`)

A file with the values of variables, written by a thread of its own to a
temporary name and renamed, and read at the start.

### 1.13 LibCMS networking and services (`cms_client`, `cms_server`, `cms_server_2`, `cms_udp`, `cms_ip`, `cms_com`, `cms_config`, `cms_debug`, ...)

TCP clients and servers with their own threads over round buffers; UDP with two
bonded networks; serial ports; configuration; logging.

### 1.14 Decoding (`main.cc`, `lib/LibRDF`, `lib/LibParserRDF`, `ASTERIX-Dodelat-do-RDF`)

Sequential translation of ASTERIX records to text and structures.

## 2. Plan

The most important behaviour comes first: what every message of the program
goes through (the transport), then the buffers threads share, then the
machinery that decides what is sent. One run per question.

| Step | Component | Modules | State |
|---|---|---|---|
| 1 | Numbers on the wire | `MsgId`, `UdpPartnerProofs` | done |
| 2 | A partner, a connection | `UdpPartner`, `UdpLink`, proofs of both | done |
| 3 | Sessions, events for the user | `EventsState`, `UdpSession`, `UdpSessionProofs` | done |
| 4 | Round buffer | `Ring`, `RoundBuffer`, `ByteFifo`, proofs | raw bytes and blocks done and proved; blocks with a time stamp left |
| 5 | Scheduler | `Scheduler`, `SchedulerProofs` | done |
| 6 | Switches over transports | `Switches` over `EventsState`, `SwitchesProofs` | done |
| 7 | Variables, changes, filters, masters | `VarChanges`, `Variables`, `VariablesProofs` | done for one name |
| 8 | Queries and responses | `Db`, `DbProofs` | done for one asker |
| 9 | Handshake of the core | `Variables` | done; what is negotiated left |
| 10 | Fragments and priorities | | left: messages of `Variables` are whole |

What would come next:

* **4 (rest).** Blocks with a time stamp carry an 8-byte header; `time_check`
  drops those that are too old without taking them from the count of messages
  (`cms_buffer.c:652-832`), so that there may be blocks of the count that are not in
  the buffer; what is proved of blocks should stay true with them.
* **7 (rest).** Several names at once, which `CmVariablesToSend` sends one after
  another.
* **8 (rest).** Forwarded queries and the choice of a master among the
  providers.
* **9 (rest).** The versions, prefixes and periods that `INIT` negotiates.
* **10.** Fragments of a large value interleaved with changes of higher priority:
  `cm_fragments.cc` keeps one unfinished value per partner.

## 3. Modules

```
MsgId  <-  UdpPartner  <-  UdpLink      <-  MCUdpLink
                 ^----  UdpSession  <-  MCUdpSession
EventsState  <-----'
     ^------------------  Switches     <-  MCSwitches
Ring   <-  RoundBuffer  <-  MCRoundBuffer        RoundBuffer  implements  ByteFifo
Scheduler  <-  MCScheduler
VarChanges  <-  Variables  <-  MCVariables
Db  <-  MCDb
UdpPartnerProofs (and of MsgId)  <-  UdpLinkProofs        UdpSessionProofs
RoundBufferProofs (and of Ring)    SchedulerProofs    SwitchesProofs
VariablesProofs (and of VarChanges)    DbProofs
```

(`A <- B`: B extends A.) The names of definitions are those of the code wherever
there is one. An operator called `x_something` beside an `x` marked *Mutated
form* is a plausible mistake in `x`; no specification uses it.

The components meet at what one promises the next, and each is modelled over
that promise: a connection of `Variables` and of `Db` is a FIFO in each
direction until it ends. `UdpLink` shows that of the messages in the order of their
numbers (`DeliveredExactlyOnceInOrder`). That they are numbered in the order in
which they were sent is an assumption here, and the code breaks it when
`send()` overtakes the queue (`cm_ip_udp.cc:766`; section 6); a transport of `Switches` is an `EventsState`, whose
use `UdpSession` checks (`EventsTellItAll`); ends of connections that the two
sides learn of at different times come from `UdpSession` and appear as `Lose` and
`Ended` in `Variables`, as `AskerLoses` and `ProviderLoses` in `Db`.

* **`MsgId`** - a message number and its remainder; `find_nearest_mod` as in
  `cm_ip_udp_message.cc`, conversion to the wire and back.
* **`UdpPartner`** - `struct Partner` as a record and every function that changes
  it as an operator from a partner to a partner: `send_regular_message`,
  `handle_message_acknowledge`, `handle_data_message`,
  `compute_missing_count`, `drain_queue_to_send`, `messages_to_resend`,
  `update_window`. `Wire` is what a datagram is after it was written and parsed:
  its numbers are remainders. Times are not modelled. A resend timer may or may
  not have expired, with one exception: the history of acknowledgement delays
  keeps whether a delay was measured or is the endless one that
  `erase_acknowledged_messages` records when no message gave a measure.
  `number_of_datagrams_without_loss` has the wrap of its unsigned type at
  `UnsignedEnd`.
* **`UdpLink`** - a client and a server, each the other's partner. A datagram in
  `net` may arrive never, once or often, in any order. Actions: `Send` (the
  user's `send()`), `Receive` (one call of `do_receive`), `SendAll` (the rest of
  an iteration of `recv_main`: number queued messages, send what is due, open
  the window, acknowledge or ping). `receiving` is true between the first
  `Receive` of an iteration and its `SendAll`, while the thread holds the mutex;
  `send()` takes the same mutex. What `do_receive` hands to the user goes to
  `delivered`.
  `Fresh` bounds how old a datagram may be when it arrives: half a cycle of the
  wire numbers. Without it no protocol with 16-bit numbers could work; the code
  relies on it silently.
* **`EventsState`** - `cm_ip_eventstate.hh`: what the user is still to be told of
  each connection, merged until he asks. `store`, `insert`, `without` and
  `forget` are the assignments to its map.
* **`UdpSession`** - how connections begin and end. Handshake (`SendInit`, `i`,
  `a`), the server's accepted sessions and their limit, partners made by their
  first datagram, time-outs, the user's `disconnect()`, `get_new_event`, restarts of
  either process with all its memory lost but the boot id in the server's file.
  The partners inside work as in `UdpPartner`. Receiving a datagram and telling
  the events of it is one step, and so is giving up a partner with what is told
  of that: the code does both under one mutex.
* **`Switches`** - the layers between a user of `CmIP` and the transports, in the
  three shapes the descriptors give them: `CmIpOnOff` over one transport, over a
  `CmIpSwitch` or over a `CmIpOneOf`. A message of the master and slave protocol
  (`ReadControl`) makes or destroys the transports, also between two events the
  user takes (`get_new_event` is one of his calls, and each layer's part of it is
  an operator of its name). A connection is named by its transport and number,
  counted as transports are made, so that a message that reaches another
  connection of the same number is seen. `CmIpSwitch` forgets a user id through
  a reference it has just freed (`cm_ip_switch.cc:77-78`); the model takes the
  value that was there.
* **`Ring`** - the bytes of a round buffer and the functions that move them, with
  the two `memcpy` of a range that runs over the end.
* **`RoundBuffer`** - threads that write, read, set flags and clear. A call runs
  under the mutex (`holder`); each iteration of the loop that makes room (`Grow`,
  `Throw`) is a step, `g_cond_wait` gives the mutex up (`Wait`, `Resume`), and
  the broadcast comes after the unlock as a step of its own, as in the code.
  `check_size`, which the code does once a minute, may happen at the end of any
  read. The length of a block is 2 bytes long here instead of 4, low byte first.
* **`ByteFifo`** - the abstract specification: a sequence of bytes to which whole
  pieces are appended and which is shortened from its front.
* **`Scheduler`** - `SchedulerThread` and the `PollCond`s (sources) that use it.
  What happens between taking and giving up the thread's mutex is one step:
  `Iterate` takes the first task that is due or decides how long to sleep,
  `Return` is the end of a function, which may have called `run_async` or
  `ChangeRqTime` itself, and the destructor is `erase_by_source` (which waits in
  `cond.Wait` while a function of the source runs), `Release` and `Join`.
  `asked` and `life` are history: the earliest time asked for since the primary
  function last started, and how often a source was made at its address.
* **`VarChanges`** - `CmVarChanges` for one variable: `add_foreign_updates`,
  `add_my_updates`, and what a user knows who applies the result
  (`apply_var_changes`). A value is a function from the indices of an array; the
  indices stand for type, size and limits, and no indices for "undefined".
* **`Variables`** - one name among processes: `my` is `myVariables`, a partner record
  `link[p][q]` holds what p has of q (`his`, `his_id`, what waits as a `MOD`:
  `his_to_send`; the mark `collides`) and what q was sent of p's (`wants`, `sent`,
  `ids`: `CmSetCmdMap`; `to_send`: `MyVariablesToSend`), and `init`, the flags of
  the handshake. `EvalSendForPartner` answers an `INIT` and sends its own, again
  when a timer has run out (`retry`); the other sends wait for its end. Each call of the user
  (`Define`, `Undefine`, `ChangeMine`, `ChangePartnerVariable`, `SetFilters`,
  `SetMaster`, `GetVariableChanges`), each message received (`ProcessDEF`, ...)
  and each message sent is one step. The numbers by which a `MOD` is accepted or
  refused are unbounded, as the 64-bit ones of the code practically are.
  `plan` and `left` bound a behaviour: who may do what how often.
* **`Db`** - one asker and providers. A connection is a `CmDbPartner` on each side;
  `queries` are the `MyQueryState`s, `responses` the `MyResponseState`s. A query
  travels in parts, an answer in messages that end between two entries or inside
  one (`try_add_message` cuts at any byte). The
  callbacks are two steps, generated (`wakes_user`, `*_callback`) and run
  (`GetReceivedResponses`, `GetReceivedQueries`). Time is whether `TimeOut` finds a
  query overdue. A part of an answer is dropped when its service was withdrawn
  (`receive_msg_full`). `text` is what the parser was given of an answer: all that
  came (`exact`), not the last part (`hole`), whole entries only (`sound`), or pieces
  of entries (`torn`: a part was dropped and the text before or after it ends or
  begins inside one). Of torn text `readings` lets the parser make what it may: an
  entry nobody sent with a row nobody gave, fewer entries, or an exception, upon
  which the query is aborted. At most one such entry is made of a message, and what is
  missed is at its beginning. A query of which a part was dropped fails
  to parse, or is parsed if the part was one of a string (`of_string`); the
  provider's user then answers as many commands as were asked. `unheard` is
  history: the queries of which the provider dropped a part or the cancel.

## 4. Properties and runs

| Run | Question | Expected |
|---|---|---|
| `link` | `LinkInv` (the inductive invariant of the proofs, with `TypeOK`), `AcknowledgedWasReceived`, `DeliveredExactlyOnceInOrder`, `UnreceivedIsKept`, `QueuedOrNumbered`, `NeverGoesBack`: four messages in one direction across the wrap of the wire numbers, or one in each at once, with failing `sendto()` | holds |
| `link_live` | `ReceivedIsAcknowledged`, `DeliveredUnlessEndlessDelay` with loss | holds |
| `link_stall` | `NumberedIsDelivered` | violated, finding 1 |
| `sessions` | `DeliveredFromItsSession`, `SessionsAreSound` (types, one partner per session, both sides agree), `AcknowledgedWasDelivered`, `EventsTellItAll` (in order, and the end is told), `NothingAfterTheEnd`, with either time-outs, `disconnect()` and a session taken up again, or a crash of each process; one unused session is kept | holds |
| `session_live` | `Reconnects` | holds |
| `session_again` | `AcknowledgedWasDelivered` when the server's partner times out and a message is then sent | violated, finding 2 |
| `ring_blocks` | `BlocksAreWhole` (types, blocks stay aligned and are read whole), `MessagesAreEnough`, `NobodyIsForgotten`, `RingIsFifo` | holds |
| `ring_pipe` | `WritersGetThrough`, `ClosedIsLeft` for raw bytes | holds |
| `scheduler_tasks` | `NothingRunsOfTheDead`, `NoWakeUpIsLost`, `NeverOversleeps`, `AsyncInOrder`, `AskedIsDone`, `DestructionEnds` | holds |
| `switches` | `TablesAreTrue` (types, no two connections share an id, the active transport is one in use), `SendReachesItsConnection`, `NothingIsForgotten`, `EventsAreInOrder`, `OldPartnersAreTold` | holds |
| `queries` | `ServicesAreKnown`, `AnswersAreExact`, `NewsAreTold`, `QueryEnds`, `ResponseIsReleased` | holds |
| `variables` | `AssertionsHold` (types, the handshake comes first, and the assertions of the code), `AgreeWhenQuiet`, `ViewAgrees`, `OneOwner` | holds |

### Bounds, and why they are enough

* *Wire numbers.* `msg_id_end` is 8 instead of 0xffff and the client's first
  number is the last before the wrap, so that messages and acknowledgements on both
  sides of it are about at once. (8 is even, 0xffff odd: the theorems of
  `UdpPartnerProofs` cover every modulus.) In `UdpSession` the initial id is chosen so
  that the first message has the remainder 0.
* *Window.* It begins at 1 (2 in the code) and may grow to the larger of
  `WindowLimit` (3 for 512) and a quarter of the cycle, so with four messages it is closed, opened and closed
  again, messages wait in the queue, and the count of datagrams without loss
  wraps.
* *Missing count.* In `link` a datagram can tell of one missing message
  (255 in the code), in the others of three; the cap is thus reached.
* *History of delays.* One entry (`HistoryMax`): the median is that delay. What
  survives in a longer history is chosen by `survive`.
* *Loss.* In `link` nothing is lost as it is sent: a datagram that is
  never received is as good as lost. `Lossy` matters to fairness only.
* *Sessions.* `BootEnd` 2, so that boot ids repeat after two restarts; two or three
  requests and up to four sessions. A record of `Budgets` says how often each peer
  may send, restart, time out early or leave. In `sessions` either the client sends once,
  times out once and leaves once and the server may make a partner again
  (`Ends`), or the server sends once and each process restarts once (`Crashes`).
  A server that makes a partner again and also sends is finding 2; keeping the
  two apart does not hide others. `AcceptedMax` is 1 in `sessions`, where the second session
  evicts the first, and out of reach elsewhere.
* *Round buffer.* One to four bytes at first and up to 12; writes of 0, 1 and 3 bytes with a
  header of 2 and memory of 1 or 3 bytes to read to: every cut of a header or
  of a block by the end of the ring, growth while full and while wrapped,
  shrinking, and a block larger than the reader's memory all occur within four
  writes. Two writers and a reader in `ring_pipe`.
* *Scheduler.* Two sources with two lives each, three calls and a clock of three
  ticks: two tasks of one source and one of another, a source destroyed and
  remade while its old function runs, the shared thread ended and made again.
* *Switches.* Two devices, three connections and three master messages: on, off
  and on again with a connection of the same number before and after, and two
  devices with connections of the same number at once.
* *Variables.* `MCVariables` has 15 plans in six groups, each a start (who defines
  the variable, who is connected, who has asked for it, who has a master) and
  how often each process may do what: `Conflicts` (changes of both sides that
  cross, over a variable of one index, which is settled differently, and of
  two), `Redefinitions` (another size, with a change under way), `FilterChanges`,
  `Collisions` (three processes and one name), `Losses` (each end sees the loss at
  its own time, and a new connection with its handshake, the `INIT` of either
  sent twice), `Masters` (chosen, lost, replaced by one
  whose variable has another size). A single plan that allows everything at once
  has too many states; each plan pairs the operations that touch the same state.
* *Queries.* Seven budgets in `MCDb`: a query in two parts while the service comes
  and goes and the connection is lost and made again; a row of an answer, in pieces, while
  the connection is lost; an answer of two commands;
  one of two rows; two queries at once; two services on two ids, so that an id
  is used again; a service that goes and comes back with its id while a query is
  answered. `MaxInFlight` 2 lets a message wait behind another.

Deadlock is checked in the runs of `UdpLink`. In `UdpSession` the bounds on
requests, restarts and time-outs let the system stop; in `RoundBuffer` the
writes end, and readers that wait for more are right to wait; in the others
the bounds end the calls of the users, and a system with nothing to do is right to
be still.

### Fairness

* *Connection.* `recv_main` loops and wakes at each timer, so a pass with every
  timer expired comes again and again. It is not continuously possible (a
  datagram may come first), and the network may lose some of what it sends but
  not all of it: strong fairness of `SendEverything`. What the network keeps is
  received as long as it changes something: weak fairness of `ReceiveNews`.
* *Sessions.* The same with weak fairness: the client repeats its request,
  datagrams arrive, partners are sent to, and one that is silent times out.
* *Round buffer.* Threads in a call run on and broadcast (weak fairness); a thread that
  wants the mutex again gets it, though others take it in between (strong
  fairness of `Resume`: the mutex is not withheld for ever); the reader goes on reading,
  strongly, since the mutex is also in use by others. `WritersGetThrough` needs a reader that reads on with memory no
  larger than what is in the buffer when a writer waits: with `READ_BLOCK_ALL`
  and larger requests both would wait.
* *Scheduler.* Weak fairness of the thread's steps, of the clock and of the steps
  of each destructor that was called: each is the next step of a thread that
  nothing else disables. Functions are assumed to return; none is assumed to be called.
* *Switches.* Weak fairness of the user's thread (it wakes after the callback and
  takes events until there is none) and of the reading of control messages, which
  the loop of the on/off switch does.
* *Queries.* Weak fairness of the threads of `CmCore` together (`Tasks`): send,
  receive, run callbacks, look for overdue queries, notice a lost connection.
  This is weaker than fairness of each and enough, since each runs out of work.
  Nothing is assumed of users: a query may never be answered.
* *Variables.* None: the properties are about what waits, and about states in
  which nothing does.

## 5. Proofs

All for every value of the constants that the assumptions allow
(`MsgIdEndAssumption`, `PartnerAssumption`, `LinkAssumption`,
`SessionAssumption`, `SwitchesAssumption`, `BufferAssumption`,
`LengthsFit`, `SchedulerAssumption`, `DbAssumption`, `VariablesAssumption`); the runs evaluate
these assumptions too. A least number, or a step from a number to the next, is taken from
`WFMin` over the numbers: the induction theorems of the library have an operator
for a parameter, which the provers cannot instantiate.

* **`UdpPartnerProofs`.** `FindNearestMod`: for every modulus, even or odd, a number
  within half a cycle of the reference is recovered from its remainder.
  `WireRoundTrip`: such a number survives the wire exactly. Then a lemma on
  each operator from a partner to a partner.
* **`UdpLinkProofs`.**
  `LinkIsSafe`: `Spec => []LinkInv`. The four properties are not inductive
  alone. An acknowledgement read from an old datagram is true only because no
  datagram in the network claims more than its sender had received, and a
  message only because it is the one numbered so (`NetworkTellsTheTruth`). The
  number read is the number written only because what is unacknowledged fits in half a
  cycle (`WindowFits`, the one place where the cap of the window matters). What
  is delivered is the prefix of what was numbered only because kept and numbered
  messages are the same (`NumberedInOrder`). From it follow `TypeCorrect`,
  `AcknowledgementsAreTrue`, `DeliveryIsExact`, `NothingIsLost`, `BufferIsAhead`,
  and, as a property of steps, `NothingIsTakenBack`. `NoMessageIsForgotten` is
  inductive by itself: every message sent is at one place of the numbered and
  the queued ones. The assumption
  `LinkAssumption` asks that the first window and its cap, plus one, are at most
  half a cycle: in the code 3 and 0xffff / 4 + 1 against 0xffff / 2.
* **`UdpSessionProofs`.** `SessionsStaySound`, `TheUserIsToldItAll` and the step
  property `TheEndIsTheEnd`. The invariant `SessionInv` puts the tables of a process
  together: a connection has a number below the counter, and its partner, its
  events and what the user was told of it fit (`ProcessOK`): if the partner is gone the end
  was told or waits; if the user left, nothing waits. To it comes that two
  partners of a process are never of one session, which needs nothing of the
  datagrams on their way: whatever they repeat, `find_session` looks before a
  partner is made.
* **`SwitchesProofs`.** `TablesStayTrue`, `TheUserGetsEventsInOrder`,
  `SendsReachTheirConnection` and `TheUserIsWoken`. `Tables` is the inductive part
  of `TablesAreTrue`: numbers of `CmIpSwitch` name different connections, those a
  layer knows are alive or their end waits to be told, and the first event of a connection
  nobody knows is its beginning (`FirstEventConnects`). The layers have an
  invariant of their own while a read goes through them (`UpToDate`).
* **`RoundBufferProofs`.** First the ring: what `put`, `skip`, `set_size` and `clear`
  do to its contents, wherever it is cut: `PutAppends`, `SkipDrops`, `ResizeKeeps`. The one
  case where positions do not tell - a full ring and an empty one - is decided
  by `free_space`, and `ResizeKeeps` shows that `copied` is exactly what is in it.
  For raw bytes then `RawIsFifo`, the refinement of
  `ByteFifo`, with `RawBufferTypeCorrect` and `RawMessagesAreEnough`. The
  inductive invariant `BufferInv` adds to the types that `max_fill_space` is
  at least what is in the buffer (a buffer is only halved when its contents fit), that
  `messages` is at least that too, and that whoever has the mutex is in a call
  and not waiting. `NobodyWaitsInVain` is about raw bytes and about blocks: a thread
  that waits and could go on has somebody about to broadcast. Its invariant
  `WaitInv` takes of blocks only the number of bytes, so that it needs nothing of
  their alignment. It assumes `ClearsAreSafe`: a buffer in which writers wait for
  space is not cleared, since `cms_round_buffer_clear` wakes nobody. That is how
  the repository uses it: nothing outside `cms_buffer.c` sets `WRITE_BLOCK`.

  For blocks `BlocksAreAlwaysWhole` (`BlocksAreWhole`, types included),
  `BlockMessagesAreEnough` and `BlocksAreFifo`, for any number of threads, any sizes,
  any flags and any size of a header. None of these is inductive: what a read takes for a
  length is one only if each header in the ring, cut or not, holds the length of
  what follows. `BlockInv` names the calls whose blocks are in the ring, in their order, and
  where each begins (`Laid`, `BlocksIn`). `ShiftedIs` and `LengthIs` show that the bytes
  a header is written with make the length it is read as (`LengthsFit`: lengths are of 32
  bits); `FirstBlock` that what is skipped and read of a ring is exactly the first of
  the blocks, and what is left is laid in the same way; `LaidIsCounted` that a
  reading of all the bytes, header by header, finds as many blocks as were laid. A
  read, a throw, and a read of a block that is too large for the reader follow from these.
  That what comes out is in the order of the calls needs `WritersKeepOrder`:
  either writers do not wait for space, as in the repository, or there is one
  writer. Of two that wait the later may get the mutex first.
* **`SchedulerProofs`.** `SchedulerIsSafe`: `Spec => []SchedulerInv`, for any
  sources, clock and number of calls and lives. The four properties need two more
  facts to be inductive. `ReferencesOK` says how the references, `stopped` and
  the thread belong together: whoever joins the thread is the last reference, so
  nobody can schedule a task between the stop and the join. `NumbersOK` says that
  the place a new task gets is behind all others and that functions of `run_async`
  are due at once, from which their order follows. From it come
  `DestroyedSourcesAreSilent`, `WakeUpsAreKept`, `SleepEndsInTime`,
  `AsyncIsFifo`, `ThreadIsThere` and `TypeCorrect`.
* **`DbProofs`.** `Typed` gives everything its type, also the messages on their way,
  and is inductive by itself. `ServicesAlwaysAgree` reads the messages to the asker
  as the steps from what he knows to what he was told (`Becomes`): each such step
  is the announcement of a service under a free id or the withdrawal of one that
  is known, and a table never gives two services one id (`Injective`). So the
  first message is always understood as it was meant, ids used again or not.
  `ServicesAreAlwaysKnown` adds `Tallies`: of each query, what was received over a
  connection, what is on its way in it and what is left to send make at most its
  parts, so no bound on them can be passed. `NewsAreAlwaysTold` is inductive with the types.

  `AnswersAreAlwaysExact` needs to know where an answer is on its way. The progress
  of one command is how many rows there were and the last status, and what an
  answer passes through are steps from one progress to another: what the user
  was told with what he can read (`Told`), the messages to him (`Comes`, by their entries,
  `Goes`), the provider's buffer, and what is left of the answer there (`Rest`). `Exact`
  says that of every query that is waited for they follow each other without a gap, up to
  what the provider's user has given (`Running`, of `Tracked`); that whatever was told was
  given, also of queries that are no longer waited for (`Sound`); that what was read
  was told (`Read`); and that what ended has every last status (`Ended`). The property is
  not inductive without that, nor `Exact` without `Traced`: a query keeps
  one connection and one id of its service in the lists of both sides and in the
  messages (`OneTrace`), and once the provider has the whole of it, or has answered,
  no part of its text is sent or comes any more (`OnceBegun`, `LastParts`,
  `NoAnswerYet`). So it is not received a second time, and answered again, after its answer
  was sent and forgotten. Two things loosen the chain, as in the code. After a part was
  dropped rows are missing (`text`): what is told is then still increasing while
  entries come whole, and of torn text only that what was read was told
  (`AddedIsRead`). After a cancel the rest of an answer is not kept. Where a
  message ends inside an entry, the entry counts to the message in which it ends.
* **`VariablesProofs`.** First the merging of changes for the callback, for every
  variable, every set of fields and whatever waits: `CreatedIsTold`,
  `UpdatedIsTold`, `OwnChangeIsKept`. Then the processes, for any number of them, any
  values, numbers of indices and plans: `TypesAreKept`, `OneVariableCounts` and
  `TheUserIsToldEveryChange`. The invariant `Inv` says of each process (`Held`) that
  the list of its partners names each once and not itself, that what it keeps of a
  partner fits (`Partners`: what waits for a partner is about the
  variable as it is here, and a collision is marked only of a variable the partner has),
  and that what the user will know is the variable that counts (`Counts`). The
  last has two forms. Without a master (`OneCounts`) either the variable is the
  process's own and every partner's collides, or one of the partners' is the owner
  and the rest collide. Under a master (`MasterCounts`) it is the master's,
  whatever the others have. The two properties are not inductive apart: an update is told
  with only the fields that differ, so that the user ends with the right value
  only if he had the value those fields were compared with, and that is the value of
  the one owner. For these two nothing is needed of the messages on their way but their
  types: no DEF, MOD, SET or UNDEF, however late, breaks them.
  `TheUserIsToldEveryChange` leaves out a process under a master that defines the
  same name itself, of which the code does not keep it (section 6, first of
  *Variables*). `ViewsAlwaysAgree` is `ViewAgrees` itself, where no plan has such a process
  (`MastersDefineNothing`; no plan of `MCVariables` has one).

  `AssertionsNeverFail` and `PartnersAgree` are about the two sides of a connection, and
  neither is inductive: a side is only right together with what is on its way to it.
  Their invariant is `Pairs`, which says of any two processes (`Two`), each
  in both roles, the owner of a variable and the partner who has a copy of it:
  - *What the owner knows* (`Owned`, `Sent`). What waits is of his variable as it is now, and
    when nothing waits the partner was sent what he asked for. The number of the last
    whole variable is the least of the numbers kept by index.
  - *What he said* (`InOrder`, `Told`, `Follows`). DEF, SET and UNDEF come in the order of
    their numbers, later than what the partner has; a SET is of indices he will
    have by then; and the last that was sent of each index he has or is on its way.
    From this follow the assertions about SET and UNDEF.
  - *What the partner asked* (`Asked`, `AskedOf`, `FilterTold`). A MOD carries the number
    of a variable he had when he made it; if the owner has sent no whole variable
    since, it is of the type the owner has, and that is what `is_safe_to_apply`
    looks at. The filter the owner knows is the last that was told.
  - *What they will have* (`Agree`, of `Coming` and `Back`). Of every index that does not
    wait, what the partner will have of it is the owner's value, unless
    the partner has asked for another and the owner has sent nothing of the index
    that he did not know; then the owner will have what was asked for last. It
    is where the numbers of each index count: `ModIndex` shows that
    `diff_event_fields` keeps of a MOD exactly the indices of which the owner has sent
    nothing newer, so that both sides decide the same.
  - *The handshake* (`Hand`, `Shake`). What is on its way before and after an INIT or its
    answer, and who still waits for one, whatever was repeated.

  With nothing on its way and nothing waiting, `Agree` is equality (`NothingLeft`). When
  a connection has failed at one end only, the part that needs both ends is dropped
  (`both` is FALSE): the other end still takes what is on its way, and its assertions
  must hold. TLC checked `Pairs` as an invariant on the instances of the run
  `variables` before it was proved; it is kept in the module of the proofs.

Only model-checked: everything about liveness and fairness (`ENABLED` is beyond
the prover); of `UdpSession`,
`DeliveredFromItsSession` and `AcknowledgedWasDelivered`, which are not true of all constants
(boot ids repeat after `BootEnd` restarts, and finding 2 breaks the second).
Every other property of the runs that is not about liveness is a theorem.

## 6. What the runs found

1. **A lost message may never be sent again** (`cm_ip_udp.cc:350`, run
   `link_stall`). The delay recorded when no message gave a measure is the time
   since the epoch. `DeliveredUnlessEndlessDelay` shows that this is the only
   obstacle.
2. **A partner made again loses messages** (`cm_ip_udp.cc:614`, run
   `session_again`). The server makes it from the first numbers of the accepted
   session, which the client has long received.

Observations without a run, made while modelling:

*Transport*

* A newer message may overtake queued ones (`cm_ip_udp.cc:766`): `send()` looks
  only at the window, and when an acknowledgement has opened it before the queue
  was drained, the newer message gets the smaller number. The layer above says
  messages must arrive in the order in which they were generated
  (`cm_generate_changes.hh:27`); `Variables` assumes that they do.
* An event may come after the user's `disconnect()` if the partner has timed out
  just before (`cm_ip_udp.cc:796`, against `cm_ip.hh:71`).

*Switches*

* After a `disconnect()` by the user, `CmIpOneOf` keeps the id in
  `active_partners`, so that the other candidates are never tried again
  (`cm_ip_one_of.hh:88`). `TablesAreTrue` excepts such ids.
* `CmIpSwitch` asks the first device first, each time (`cm_ip_switch.cc:85`): a busy
  one keeps the others waiting.
* When `CmIpOnOff` is switched off and on again before the user was told that the
  old partners are gone, his ids may name connections of the new device, and what
  he sends reaches them (`cm_ip_onoff.hh:45`). `SendReachesItsConnection` excepts
  the time while `need_erase_partners` is set, and no other.
* `assert(e->just_connected = true)` (`cm_ip_one_of.hh:67`) assigns, and the first
  branch of its `get_new_event` (40-51) is never taken.

*Variables*

* The switch of the master does not look at `myVariables`
  (`cm_core.cc:5187`, cf. `cm_partner_variables.hh:57-60`): the user of a process
  that has a master and defines the same name itself is told of a variable that
  `GetVariable` does not give. The plans let a process with a master define
  nothing itself; the mark of a slave's colliding variable would stay, too.
* `EvalSendForPartner` may send `INIT-ACC` before its `INIT` (`cm_core.cc:3575-3597`).
  The other side then sets the transport's ping period and time-out
  (`cm_core.cc:1378`) from its own wishes, before the `INIT` that would have told it the
  partner's has come, and does not set them again.
* A comment in `VariableUpdated_No_CB` says that a variable that waits as deleted stays so
  (`cm_core.cc:1213`); `add_my_updates` takes it out (`cm_var_changes.cc`).
* `ClearMyVariables` (`cm_core.cc:4401-4412`) loops until `myVariables` is empty, but
  what it calls does not erase the variable from that map.

*Queries*

* A query may reach another service than it was sent to, when the id of a
  withdrawn service is given to the next one while it is under way
  (`cm_db_state.cc:732`).
* Answers of a service withdrawn meanwhile are dropped at the asker
  (`cm_db_state.cc:651-660`): his user hears an error or the time-out. If the
  service is announced again with the same id while the rest of the answer is
  still to come, the rest is taken, and the parser goes on where it was. If the
  part that is missing was whole entries, the user hears of a complete answer in which
  rows are missing. If not, the end of one entry is joined to the beginning or the
  middle of another (`cm_db_response_list.cc:498` cuts at any byte, and the parser
  keeps its state, `cm_db_query_list.cc:178-183`): the user may be told a row that
  nobody gave, or a wrong end of a command, or the text does not parse and the query is
  aborted with a cancel (191-201). Or `assert(data[0] == 't')` (263)
  fails, since the part with that letter was the one dropped; the model goes on
  past it. `AnswersAreExact` asks for all rows only if `text` is `exact`, and says
  nothing of the rows told of an answer whose `text` is `torn`.
* A query of which a part was dropped may be taken for another: the pieces are parsed
  together (`cm_db_response_list.cc:351-363`), and without a part of a string literal
  they are valid. No property is about what is asked.
* A provider drops what names a service it does not provide any more, the cancel
  of a query too (`cm_db_state.cc:614-634`). It then holds a query it has begun to
  receive until the connection ends. `ResponseIsReleased` excepts the queries in
  `unheard`.
* A query without commands never reports an end.
* A new connection that has the number of an old one gets no partner in
  `CmDbState` while lists of the old one are not empty; modelled (`Connect`).
* `set_master` is called before `connect_partner` (`cm_core.cc:1474`, 1574), so the
  master of `CmDbState` is never set there, and not at all when a master is lost
  (842).
* `DbSendQueryMaybe` calls `send_query` (`cm_core.cc:5594`), against the comment in
  `cm_db_state.hh`.

*Scheduler and round buffer*

* A destructor waits for the function of its source that runs, and again
  if another of that source starts before it has the mutex (`cm_scheduler.cc:209`);
  `cm_scheduler.hh` speaks of the one that runs.
* `cm_scheduler.cc:63`: the assignment of a `Reference` increments the pointer
  where it should increment the count (`++ref_count`). Nothing uses it.
* `cms_buffer.c:174`: clearing a buffer wakes nobody, so a writer that waits for
  space would go on waiting. No program of the repository clears a buffer that
  has the flag `WRITE_BLOCK`.
* `cms_buffer.h:16-17` says that a write that does not fit returns -1; a raw
  write returns 0.

## 7. What is not modelled

* Times: timers have run out or not, delays are measured or endless. Rates,
  jitter and the choice of a median among several delays are left out.
* Text: datagrams are records; `write_message` and `parse_message` are modelled
  only in that numbers become remainders. Names, types, units and limits of
  variables are reduced to what merging and conflicts tell apart.
* More than two processes in `UdpLink` and `UdpSession`, and several clients of
  one server. Partners of a server share its session counter and its list only,
  both of which `UdpSession` has.
* `set_params`, `shutdown`, a boot file that cannot be written.
* The transports over LibCMS sockets (`cm_ip_cmsclient`, `cm_ip_cmsserver`), which
  fill an `EventsState` of the same class; descriptors and their parsing.
* What `INIT` negotiates: versions, prefixes, periods, compression; priorities, `SendBlockUntil`, fragments, compression, the byte
  buffers; flags of variables other than external and writable; a partner's
  variable that is given another type; the matching of names by filters.
* The control variable of master and slave, `msv_send_mod_to_all`, and the
  station that says who is master (`SetMaster` takes any name).
* Forwarded queries, the timer service, services a process provides to itself,
  the master among the destinations of a query.
* A scheduled function that destroys its own `PollCond`: it would wait for itself.
* Blocks with a time stamp, deletion of a buffer, a failing `g_malloc`.
* The save file: what is hard in it is a disk that is full and a process that
  stops between two writes, and the code looks at neither.
* Expressions, decoding, configuration, logging, sockets and serial lines:
  sequential code or input and output, where a test reaches as much. They are
  most of the repository's lines (`lib/LibRDF` and `lib/LibParserRDF` alone
  translate records field by field), so the share of lines modelled stays
  small however far the models of LibCM go.
