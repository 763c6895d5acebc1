--------------------------- MODULE SwitchesProofs ---------------------------
(***************************************************************************)
(* The layers between a user of connections and the transports keep his    *)
(* connections apart, for any number of devices, connections and control   *)
(* messages: the events he gets are in order, what he sends reaches the    *)
(* connection he means, and he is woken for whatever there is.             *)
(***************************************************************************)
EXTENDS Switches, FiniteSetTheorems, SequenceTheorems, WellFoundedInduction, TLAPS

IsFun(f) == f = [x \in DOMAIN f |-> f[x]]

\* What a map is when a key was stored,
LEMMA StoreIsFun == \A f, key, value : IsFun(store(f, key, value))
  BY DEF store, IsFun

LEMMA StoreMap ==
  \A f, key, value :
    /\ DOMAIN store(f, key, value) = DOMAIN f \cup {key}
    /\ store(f, key, value)[key] = value
    /\ \A x \in DOMAIN f : x # key => store(f, key, value)[x] = f[x]
  BY DEF store

\* and when one was erased.
LEMMA ForgetIsFun == \A f, key : IsFun(forget(f, key))
  BY DEF forget, without, IsFun

LEMMA ForgetMap ==
  \A f, key :
    /\ DOMAIN forget(f, key) = DOMAIN f \ {key}
    /\ \A x \in DOMAIN f : x # key => forget(f, key)[x] = f[x]
  BY DEF forget, without

\* A set of natural numbers that is not empty has a least element.
LEMMA LeastNat ==
  ASSUME NEW T, T \subseteq Nat, T # {}
  PROVE  \E x \in T : \A y \in T : x <= y
<1> DEFINE R == {ss \in Nat \X Nat : ss[1] < ss[2]}
<1>1. IsWellFoundedOn(R, Nat)
  BY NatLessThanWellFounded DEF OpToRel
<1>2. PICK x \in T : \A y \in T : ~(<<y, x>> \in R)
  BY <1>1, WFMin
<1>3. ASSUME NEW y \in T PROVE x <= y
  <2>1. x \in Nat /\ y \in Nat
    OBVIOUS
  <2>2. ~(y < x)
    BY <1>2, <2>1
  <2>3. QED
    BY <2>1, <2>2
<1>4. QED
  BY <1>2, <1>3

-----------------------------------------------------------------------------
(* A transport *)

\* A transport's events after something happened to it: it is well-formed, it
\* is the same, and it has made no fewer connections.
Continues(t, r) ==
  /\ TransportOK(r)
  /\ r.name = t.name
  /\ r.counter \in Nat
  /\ t.counter <= r.counter

\* A connection is made: its event says so, the others are as they were.
LEMMA ConnectContinues ==
  ASSUME NEW t, TransportOK(t)
  PROVE  LET r == [t EXCEPT !.counter = @ + 1, !.alive = @ \cup {t.counter},
                            !.events = connect(@, t.counter)]
         IN  /\ Continues(t, r)
             /\ DOMAIN r.events = DOMAIN t.events \cup {t.counter}
             /\ r.events[t.counter].just_connected = TRUE
             /\ \A id \in DOMAIN t.events : r.events[id] = t.events[id]
<1> DEFINE c == t.counter
           new == Event(TRUE, FALSE, << >>)
           before == t.events
           events == store(before, c, new)
           r == [t EXCEPT !.counter = @ + 1, !.alive = @ \cup {c}, !.events = connect(@, c)]
<1>1. /\ c \in Nat \ {0}
      /\ c \notin DOMAIN before
      /\ 1 .. (c + 1) - 1 = (1 .. c - 1) \cup {c}
  BY DEF TransportOK
<1>2. connect(t.events, c) = events
  BY <1>1 DEF connect, insert
<1>3. /\ IsFun(events)
      /\ DOMAIN events = DOMAIN before \cup {c}
      /\ events[c] = new
      /\ \A id \in DOMAIN before : events[id] = before[id]
  <2> HIDE DEF c, new, before
  <2>1. DOMAIN store(before, c, new) = DOMAIN before \cup {c}
    BY StoreMap
  <2>2. store(before, c, new)[c] = new
    BY StoreMap
  <2>3. \A id \in DOMAIN before : store(before, c, new)[id] = before[id]
    BY <1>1, StoreMap
  <2>4. QED
    BY <2>1, <2>2, <2>3, StoreIsFun
<1>4. r = [name |-> t.name, counter |-> c + 1, alive |-> t.alive \cup {c}, events |-> events]
  <2>1. t = [name |-> t.name, counter |-> c, alive |-> t.alive, events |-> t.events]
    BY DEF TransportOK
  <2> HIDE DEF events
  <2>2. r = [t EXCEPT !.counter = c + 1, !.alive = t.alive \cup {c}, !.events = events]
    BY <1>2
  <2> HIDE DEF r
  <2>3. QED
    BY <2>1, <2>2
<1> HIDE DEF r, events
<1>5. /\ r = [name |-> r.name, counter |-> r.counter, alive |-> r.alive, events |-> r.events]
      /\ r.name = t.name /\ r.counter = c + 1 /\ r.alive = t.alive \cup {c} /\ r.events = events
  BY <1>4
<1>6. new.just_connected = TRUE /\ EventOK(new, TRUE, <<t.name, c>>)
  BY DEF Event, EventOK
<1> HIDE DEF new
<1>7. ASSUME NEW id \in DOMAIN events
      PROVE  EventOK(events[id], id \in r.alive, <<r.name, id>>)
  <2>1. CASE id = c
    BY <1>3, <1>5, <1>6, <2>1
  <2>2. CASE id \in DOMAIN t.events
    <3>1. id # c /\ events[id] = t.events[id]
      BY <1>1, <1>3, <2>2
    <3>2. QED
      BY <1>5, <2>2, <3>1 DEF TransportOK
  <2>3. QED
    BY <1>3, <2>1, <2>2
<1>8. TransportOK(r)
  BY <1>1, <1>3, <1>5, <1>7 DEF TransportOK, IsFun
<1>9. QED
  BY <1>1, <1>3, <1>5, <1>6, <1>8 DEF Continues, r

\* A field of an event is set.
LEMMA SetEvent ==
  ASSUME NEW e, e = Event(e.just_connected, e.just_disconnected, e.messages), NEW v
  PROVE  /\ [e EXCEPT !.messages = v] = Event(e.just_connected, e.just_disconnected, v)
         /\ [e EXCEPT !.just_disconnected = v] = Event(e.just_connected, v, e.messages)
<1> DEFINE a == e.just_connected
           b == e.just_disconnected
           c == e.messages
<1>1. e = [just_connected |-> a, just_disconnected |-> b, messages |-> c]
  BY DEF Event
<1> HIDE DEF a, b, c
<1>2. QED
  BY <1>1 DEF Event, a, b, c

\* r is t with another event of one connection, or without some of them.
HasEvent(t, r, id, e) ==
  /\ Continues(t, r)
  /\ DOMAIN r.events = DOMAIN t.events
  /\ r.events[id] = e
  /\ \A other \in DOMAIN t.events : other # id => r.events[other] = t.events[other]

HasDropped(t, r, ids) ==
  /\ Continues(t, r)
  /\ DOMAIN r.events = DOMAIN t.events \ ids
  /\ \A id \in DOMAIN r.events : r.events[id] = t.events[id]

\* The event of one connection changes and the others stay: `e` is well-formed
\* and tells of the end exactly when the connection is not alive.
LEMMA EventChanges ==
  ASSUME NEW t, TransportOK(t), NEW id \in DOMAIN t.events, NEW alive \in SUBSET t.alive,
         t.alive \ {id} \subseteq alive, NEW e,
         EventOK(e, id \in alive, <<t.name, id>>),
         NEW events, events = [t.events EXCEPT ![id] = e],
         NEW r, r = [t EXCEPT !.alive = alive, !.events = events]
  PROVE  HasEvent(t, r, id, e)
<1>1. /\ IsFun(events)
      /\ DOMAIN events = DOMAIN t.events
      /\ events[id] = e
      /\ \A other \in DOMAIN t.events : other # id => events[other] = t.events[other]
  BY DEF TransportOK, IsFun
<1>2. r = [name |-> t.name, counter |-> t.counter, alive |-> alive, events |-> events]
  BY DEF TransportOK
<1>3. /\ r = [name |-> r.name, counter |-> r.counter, alive |-> r.alive, events |-> r.events]
      /\ r.name = t.name /\ r.counter = t.counter /\ r.alive = alive /\ r.events = events
  BY <1>2
<1>4. ASSUME NEW x \in DOMAIN events
      PROVE  EventOK(events[x], x \in r.alive, <<r.name, x>>)
  <2>1. CASE x = id
    BY <1>1, <1>3, <2>1
  <2>2. CASE x # id
    <3>1. events[x] = t.events[x] /\ x \in DOMAIN t.events /\ (x \in alive <=> x \in t.alive)
      BY <1>1, <2>2
    <3>2. QED
      BY <1>3, <3>1 DEF TransportOK
  <2>3. QED
    BY <2>1, <2>2
<1>5. TransportOK(r)
  BY <1>1, <1>3, <1>4 DEF TransportOK, IsFun
<1>6. QED
  BY <1>1, <1>3, <1>5 DEF HasEvent, Continues, TransportOK

\* Connections are dropped with their events.
LEMMA EventsDropped ==
  ASSUME NEW t, TransportOK(t), NEW ids, NEW alive \in SUBSET t.alive,
         alive = t.alive \ ids,
         NEW events, events = without(t.events, ids),
         NEW r, r = [t EXCEPT !.alive = alive, !.events = events]
  PROVE  HasDropped(t, r, ids)
<1>1. /\ IsFun(events)
      /\ DOMAIN events = DOMAIN t.events \ ids
      /\ \A id \in DOMAIN events : events[id] = t.events[id]
  BY DEF without, IsFun
<1>2. r = [name |-> t.name, counter |-> t.counter, alive |-> alive, events |-> events]
  BY DEF TransportOK
<1>3. /\ r = [name |-> r.name, counter |-> r.counter, alive |-> r.alive, events |-> r.events]
      /\ r.name = t.name /\ r.counter = t.counter /\ r.alive = alive /\ r.events = events
  BY <1>2
<1>4. ASSUME NEW x \in DOMAIN events
      PROVE  EventOK(events[x], x \in r.alive, <<r.name, x>>)
  <2>1. events[x] = t.events[x] /\ x \in DOMAIN t.events /\ (x \in alive <=> x \in t.alive)
    BY <1>1
  <2>2. QED
    BY <1>3, <2>1 DEF TransportOK
<1>5. TransportOK(r)
  BY <1>1, <1>3, <1>4 DEF TransportOK, IsFun
<1>6. QED
  BY <1>1, <1>3, <1>5 DEF HasDropped, Continues, TransportOK

-----------------------------------------------------------------------------
(* What happens to a transport *)

\* The part of TablesAreTrue that is inductive; the rest follows from it.
Tables ==
  /\ TypeOK
  /\ \A d \in DOMAIN transports : TransportOK(transports[d])
  /\ DevicesOfKind
  /\ LayersAreNew
  /\ PartnersAreKnown
  /\ KnownAreTrue
  /\ FirstEventConnects
  /\ NumbersAreDistinct

\* A CmIpOneOf's partners are those the user knows.
LEMMA TablesAreEnough == Tables => TablesAreTrue
<1> SUFFICES ASSUME Tables, kind = "one_of", NEW d \in active,
                    NEW id \in active_partners \ left
             PROVE  \/ id \in transports[d].alive
                    \/ id \in DOMAIN transports[d].events /\ transports[d].events[id].just_disconnected
  BY DEF Tables, TablesAreTrue, ActiveIsUsed, DevicesOfKind
<1>1. ~need_erase_partners /\ id \in DOMAIN known /\ d \in DOMAIN transports
  BY DEF Tables, TypeOK, LayersAreNew, PartnersAreKnown
<1>2. id \in DOMAIN transports[d].events
  BY <1>1 DEF Tables, KnownAreTrue, IsKnownAs
<1>3. EventOK(transports[d].events[id], id \in transports[d].alive, <<transports[d].name, id>>)
  BY <1>1, <1>2 DEF Tables, TransportOK
<1>4. QED
  BY <1>2, <1>3 DEF EventOK

\* Something happens to the connections of a transport: the tables stay true if
\* no event of a connection the user knows vanishes.
LEMMA HappensKeeps ==
  ASSUME Tables, NEW d \in DOMAIN transports, NEW r, Happens(d, r), connections' \in Nat,
         Continues(transports[d], r),
         \A id \in DOMAIN r.events : r.events[id].just_connected <=> ~is_told(d, id),
         \A id \in DOMAIN transports[d].events : is_told(d, id) => id \in DOMAIN r.events
  PROVE  Tables'
<1>1. /\ transports' = [transports EXCEPT ![d] = r]
      /\ notified' = TRUE
      /\ UNCHANGED <<kind, enabled, need_erase_partners, connected_partners, active,
                     active_partners, dev_to_user, user_connections, control, user, known, left,
                     made, controls>>
  BY DEF Happens, partners_told, one_of, switch
<1>2. /\ DOMAIN transports' = DOMAIN transports
      /\ transports' = [x \in DOMAIN transports' |-> transports'[x]]
      /\ transports'[d] = r
      /\ \A x \in DOMAIN transports : x # d => transports'[x] = transports[x]
  BY <1>1 DEF Tables, TypeOK
<1>3. \A x, id : is_told(x, id)' <=> is_told(x, id)
  BY <1>1 DEF is_told
<1>4. ASSUME NEW u, NEW x, NEW id, IsKnownAs(u, x, id), is_told(x, id)
      PROVE  IsKnownAs(u, x, id)'
  <2>1. CASE x # d
    BY <1>1, <1>2, <1>4, <2>1 DEF IsKnownAs
  <2>2. CASE x = d
    <3>1. /\ r.name = transports[d].name /\ r.counter \in Nat
          /\ transports[d].counter \in Nat /\ transports[d].counter <= r.counter
      BY DEF Continues, Tables, TransportOK
    <3>2. id \in 1 .. transports[d].counter - 1 => id \in 1 .. r.counter - 1
      BY <3>1
    <3>3. QED
      BY <1>1, <1>2, <1>4, <2>2, <3>1, <3>2 DEF IsKnownAs
  <2>3. QED
    BY <2>1, <2>2
<1>5. TypeOK'
  <2>1. \A x \in DOMAIN transports' : transports'[x].name \in 1 .. made'
    BY <1>1, <1>2 DEF Tables, TypeOK, Continues
  <2>2. QED
    BY <1>1, <1>2, <2>1 DEF Tables, TypeOK
<1>6. \A x \in DOMAIN transports' : TransportOK(transports'[x])
  BY <1>2 DEF Tables, Continues
<1>7. DevicesOfKind' /\ LayersAreNew' /\ PartnersAreKnown' /\ NumbersAreDistinct'
  <2>1. DevicesOfKind'
    BY <1>1, <1>2 DEF Tables, DevicesOfKind
  <2>2. LayersAreNew'
    <3>1. enabled
      BY DEF Tables, LayersAreNew, Empty
    <3>2. QED
      BY <1>1, <3>1 DEF Tables, LayersAreNew
  <2>3. PartnersAreKnown' /\ NumbersAreDistinct'
    BY <1>1 DEF Tables, PartnersAreKnown, NumbersAreDistinct
  <2>4. QED
    BY <2>1, <2>2, <2>3
<1>8. KnownAreTrue'
  <2>1. CASE kind = "switch"
    <3>1. \A x \in Devices : \A id \in DOMAIN dev_to_user[x] :
            IsKnownAs(dev_to_user[x][id], x, id) /\ is_told(x, id)
      BY <2>1 DEF Tables, KnownAreTrue, is_told
    <3>2. QED
      BY <1>1, <1>4, <2>1, <3>1 DEF KnownAreTrue
  <2>2. CASE kind # "switch" /\ ~need_erase_partners
    <3>1. \A u \in DOMAIN known : \A x \in DOMAIN transports : IsKnownAs(u, x, u) /\ is_told(x, u)
      BY <2>2 DEF Tables, KnownAreTrue, is_told
    <3>2. QED
      BY <1>1, <1>2, <1>4, <2>2, <3>1 DEF KnownAreTrue
  <2>3. CASE kind # "switch" /\ need_erase_partners
    BY <1>1, <2>3 DEF KnownAreTrue
  <2>4. QED
    BY <2>1, <2>2, <2>3
<1>9. FirstEventConnects'
  <2>1. ASSUME NEW x \in DOMAIN transports, NEW id \in DOMAIN transports'[x].events
        PROVE  transports'[x].events[id].just_connected <=> ~is_told(x, id)
    BY <1>2 DEF Tables, FirstEventConnects
  <2>2. QED
    BY <1>2, <1>3, <2>1 DEF FirstEventConnects
<1>10. QED
  BY <1>5, <1>6, <1>7, <1>8, <1>9 DEF Tables

\* A connection that no one was told of has no event that someone could miss.
LEMMA ConnectKeeps ==
  ASSUME Tables, NEW d \in DOMAIN transports, Connect(d)
  PROVE  Tables'
<1> DEFINE t == transports[d]
           c == t.counter
           r == [t EXCEPT !.counter = @ + 1, !.alive = @ \cup {t.counter},
                          !.events = connect(@, t.counter)]
<1>1. TransportOK(t) /\ c \in Nat
  BY DEF Tables, TransportOK
<1>2. Happens(d, r) /\ connections' = connections + 1
  BY DEF Connect
<1>3. /\ Continues(t, r)
      /\ DOMAIN r.events = DOMAIN t.events \cup {c}
      /\ r.events[c].just_connected = TRUE
      /\ \A id \in DOMAIN t.events : r.events[id] = t.events[id]
  BY <1>1, ConnectContinues
<1> HIDE DEF r
<1>4. ~is_told(d, c)
  <2>1. c \notin 1 .. c - 1
    BY <1>1
  <2>2. CASE kind = "switch"
    <3>1. d \in Devices
      BY DEF Tables, TypeOK
    <3>2. QED
      BY <2>1, <2>2, <3>1 DEF is_told, Tables, KnownAreTrue, IsKnownAs
  <2>3. CASE kind # "switch"
    BY <2>1, <2>3 DEF is_told, Tables, KnownAreTrue, IsKnownAs
  <2>4. QED
    BY <2>2, <2>3
<1>5. \A id \in DOMAIN t.events : t.events[id].just_connected <=> ~is_told(d, id)
  BY DEF Tables, FirstEventConnects
<1>6. \A id \in DOMAIN r.events : r.events[id].just_connected <=> ~is_told(d, id)
  BY <1>3, <1>4, <1>5
<1>7. connections' \in Nat
  BY <1>2 DEF Tables, TypeOK
<1>8. QED
  BY <1>2, <1>3, <1>6, <1>7, HappensKeeps

\* A message joins the event of its connection.
LEMMA ReceiveKeeps ==
  ASSUME Tables, NEW d \in DOMAIN transports, NEW id \in transports[d].alive, Receive(d, id)
  PROVE  Tables'
<1> DEFINE t == transports[d]
           conn == <<t.name, id>>
           e == t.events[id]
           f == Event(e.just_connected, e.just_disconnected, e.messages \o <<conn>>)
           events == [t.events EXCEPT ![id] = f]
           r == [t EXCEPT !.alive = t.alive, !.events = events]
<1>1. TransportOK(t) /\ id \in DOMAIN t.events /\ EventOK(e, TRUE, conn)
  BY DEF Tables, TransportOK
<1>2. [e EXCEPT !.messages = @ \o <<conn>>] = f
  <2> DEFINE all == e.messages \o <<conn>>
  <2>1. e = Event(e.just_connected, e.just_disconnected, e.messages)
    BY <1>1 DEF EventOK
  <2> HIDE DEF e, all
  <2>2. [e EXCEPT !.messages = all] = Event(e.just_connected, e.just_disconnected, all)
    BY <2>1, SetEvent
  <2>3. QED
    BY <2>2 DEF all
<1>3. add_messages(t.events, id, <<conn>>) = events
  BY <1>1, <1>2 DEF add_messages
<1>4. [t EXCEPT !.events = add_messages(@, id, <<conn>>)] = r
  BY <1>1, <1>3 DEF TransportOK
<1>5. Happens(d, r) /\ connections' = connections
  BY <1>4 DEF Receive
<1>6. f.just_connected = e.just_connected /\ EventOK(f, id \in t.alive, conn)
  <2>1. <<conn>> \in Seq({conn}) /\ e.messages \in Seq({conn})
    BY <1>1 DEF EventOK
  <2>2. e.messages \o <<conn>> \in Seq({conn})
    BY <2>1, ConcatProperties
  <2>3. QED
    BY <1>1, <2>2 DEF EventOK, Event
<1> HIDE DEF f
<1>7. HasEvent(t, r, id, f)
  <2> DEFINE same == t.alive
  <2>1. /\ r = [t EXCEPT !.alive = same, !.events = events]
        /\ events = [t.events EXCEPT ![id] = f]
        /\ same \in SUBSET t.alive /\ t.alive \ {id} \subseteq same
        /\ EventOK(f, id \in same, <<t.name, id>>)
    BY <1>6
  <2> HIDE DEF r, events, same, t
  <2>2. QED
    BY <1>1, <2>1, EventChanges
<1> HIDE DEF r
<1>8. \A x \in DOMAIN t.events : t.events[x].just_connected <=> ~is_told(d, x)
  BY DEF Tables, FirstEventConnects
<1>9. \A x \in DOMAIN r.events : r.events[x].just_connected <=> ~is_told(d, x)
  BY <1>6, <1>7, <1>8 DEF HasEvent
<1>10. connections' \in Nat
  BY <1>5 DEF Tables, TypeOK
<1>11. QED
  BY <1>5, <1>7, <1>9, <1>10, HappensKeeps DEF HasEvent

\* The end of a connection is noted, and if the user does not know it yet it is
\* as if it had never been.
LEMMA PartnerLostKeeps ==
  ASSUME Tables, NEW d \in DOMAIN transports, NEW id \in transports[d].alive, PartnerLost(d, id)
  PROVE  Tables'
<1> DEFINE t == transports[d]
           alive == t.alive \ {id}
           conn == <<t.name, id>>
           e == t.events[id]
           r == [t EXCEPT !.alive = alive, !.events = disconnect(t.events, id)]
<1>1. TransportOK(t) /\ id \in DOMAIN t.events /\ EventOK(e, TRUE, conn)
  BY DEF Tables, TransportOK
<1>2. Happens(d, r) /\ connections' = connections
  BY DEF PartnerLost
<1>3. \A x \in DOMAIN t.events : t.events[x].just_connected <=> ~is_told(d, x)
  BY DEF Tables, FirstEventConnects
<1>4. connections' \in Nat
  BY <1>2 DEF Tables, TypeOK
<1>5. CASE e.just_connected
  <2>1. disconnect(t.events, id) = without(t.events, {id})
    BY <1>1, <1>5 DEF disconnect, forget
  <2>2. HasDropped(t, r, {id})
    <3> DEFINE events == without(t.events, {id})
               after == [t EXCEPT !.alive = alive, !.events = events]
    <3>1. alive \in SUBSET t.alive /\ alive = t.alive \ {id} /\ r = after
      BY <2>1
    <3>2. after = [t EXCEPT !.alive = alive, !.events = events] /\ events = without(t.events, {id})
      OBVIOUS
    <3> HIDE DEF after, events, alive, t, r
    <3>3. HasDropped(t, after, {id})
      BY <1>1, <3>1, <3>2, EventsDropped
    <3>4. QED
      BY <3>1, <3>3
  <2> HIDE DEF r
  <2>3. \A x \in DOMAIN r.events : r.events[x].just_connected <=> ~is_told(d, x)
    BY <1>3, <2>2 DEF HasDropped
  <2>4. \A x \in DOMAIN t.events : is_told(d, x) => x \in DOMAIN r.events
    BY <1>3, <1>5, <2>2 DEF HasDropped
  <2>5. QED
    BY <1>2, <1>4, <2>2, <2>3, <2>4, HappensKeeps DEF HasDropped
<1>6. CASE ~e.just_connected
  <2> DEFINE f == [e EXCEPT !.just_disconnected = TRUE]
  <2>1. disconnect(t.events, id) = [t.events EXCEPT ![id] = f]
    BY <1>1, <1>6 DEF disconnect
  <2>2. /\ f.just_connected = e.just_connected
        /\ EventOK(f, id \in alive, conn)
    <3>1. e = Event(e.just_connected, e.just_disconnected, e.messages)
      BY <1>1 DEF EventOK
    <3>2. f = Event(e.just_connected, TRUE, e.messages)
      <4> HIDE DEF e
      <4>1. QED
        BY <3>1, SetEvent
    <3> HIDE DEF f
    <3>3. /\ f.just_connected = e.just_connected /\ f.just_disconnected = TRUE
          /\ f.messages = e.messages
      BY <3>2 DEF Event
    <3>4. QED
      BY <1>1, <1>6, <3>2, <3>3 DEF EventOK
  <2> HIDE DEF f
  <2>3. HasEvent(t, r, id, f)
    <3> DEFINE events == [t.events EXCEPT ![id] = f]
               after == [t EXCEPT !.alive = alive, !.events = events]
    <3>1. /\ r = after /\ after = [t EXCEPT !.alive = alive, !.events = events]
          /\ events = [t.events EXCEPT ![id] = f]
          /\ alive \in SUBSET t.alive /\ t.alive \ {id} \subseteq alive
      BY <2>1
    <3> HIDE DEF after, events, alive, t, r
    <3>2. HasEvent(t, after, id, f)
      BY <1>1, <2>2, <3>1, EventChanges
    <3>3. QED
      BY <3>1, <3>2
  <2> HIDE DEF r
  <2>4. \A x \in DOMAIN r.events : r.events[x].just_connected <=> ~is_told(d, x)
    BY <1>3, <2>2, <2>3 DEF HasEvent
  <2>5. QED
    BY <1>2, <1>4, <2>3, <2>4, HappensKeeps DEF HasEvent
<1>7. QED
  BY <1>5, <1>6

\* The user leaves a connection: only its event is dropped.
LEMMA DisconnectKeeps ==
  ASSUME Tables, NEW u, Disconnect(u)
  PROVE  Tables'
<1> DEFINE ids(d) == {id \in transports[d].alive : <<d, id>> \in find_connection_id(u)}
           r(d) == [transports[d] EXCEPT !.alive = @ \ ids(d), !.events = without(@, ids(d))]
<1>1. /\ transports' = [d \in DOMAIN transports |-> r(d)]
      /\ left' = left \cup {u} /\ u \in DOMAIN known
      /\ UNCHANGED <<kind, enabled, need_erase_partners, connected_partners, active,
                     active_partners, dev_to_user, user_connections, control, user, notified,
                     known, made, connections, controls>>
  BY DEF Disconnect, partners_told, one_of, switch, counts
<1>2. ASSUME NEW d \in DOMAIN transports
      PROVE  HasDropped(transports[d], r(d), ids(d))
  <2>1. TransportOK(transports[d])
    BY DEF Tables
  <2> DEFINE t == transports[d]
             gone == ids(d)
             alive == t.alive \ gone
             events == without(t.events, gone)
             after == [t EXCEPT !.alive = alive, !.events = events]
  <2>2. /\ r(d) = after /\ after = [t EXCEPT !.alive = alive, !.events = events]
        /\ events = without(t.events, gone)
        /\ alive \in SUBSET t.alive /\ alive = t.alive \ gone
    OBVIOUS
  <2> HIDE DEF r, t, gone, alive, events, after
  <2>3. HasDropped(t, after, gone)
    BY <2>1, <2>2, EventsDropped DEF t
  <2>4. QED
    BY <2>2, <2>3 DEF t, gone
<1> HIDE DEF r
<1>3. /\ DOMAIN transports' = DOMAIN transports
      /\ transports' = [x \in DOMAIN transports' |-> transports'[x]]
      /\ \A d \in DOMAIN transports : transports'[d] = r(d)
  BY <1>1
<1>4. \A x, id : is_told(x, id)' <=> is_told(x, id)
  BY <1>1 DEF is_told
<1>5. ASSUME NEW v, NEW d, NEW id, IsKnownAs(v, d, id), v = u \/ id \notin ids(d)
      PROVE  IsKnownAs(v, d, id)'
  <2>1. /\ d \in DOMAIN transports
        /\ r(d).name = transports[d].name /\ r(d).counter \in Nat
        /\ transports[d].counter \in Nat /\ transports[d].counter <= r(d).counter
    BY <1>2, <1>5 DEF HasDropped, Continues, Tables, TransportOK, IsKnownAs
  <2>2. id \in 1 .. transports[d].counter - 1 => id \in 1 .. r(d).counter - 1
    BY <2>1
  <2> HIDE DEF ids
  <2>3. QED
    BY <1>1, <1>2, <1>3, <1>5, <2>1, <2>2 DEF HasDropped, IsKnownAs
<1>6. TypeOK'
  <2>1. \A x \in DOMAIN transports' : transports'[x].name \in 1 .. made'
    <3> HIDE DEF ids
    <3>1. QED
      BY <1>1, <1>2, <1>3 DEF Tables, TypeOK, HasDropped, Continues
  <2>2. QED
    BY <1>1, <1>3, <2>1 DEF Tables, TypeOK
<1>7. \A x \in DOMAIN transports' : TransportOK(transports'[x])
  BY <1>2, <1>3 DEF HasDropped, Continues
<1>8. DevicesOfKind' /\ LayersAreNew' /\ PartnersAreKnown' /\ NumbersAreDistinct'
  <2>1. DevicesOfKind'
    BY <1>1, <1>3 DEF Tables, DevicesOfKind
  <2>2. LayersAreNew'
    <3>1. ~enabled => transports' = Empty
      BY <1>1 DEF Tables, LayersAreNew, Empty
    <3>2. QED
      BY <1>1, <3>1 DEF Tables, LayersAreNew
  <2>3. PartnersAreKnown' /\ NumbersAreDistinct'
    BY <1>1 DEF Tables, PartnersAreKnown, NumbersAreDistinct
  <2>4. QED
    BY <2>1, <2>2, <2>3
<1>9. KnownAreTrue'
  <2>1. CASE kind = "switch"
    <3>1. \A d \in Devices : \A id \in DOMAIN dev_to_user[d] :
            /\ IsKnownAs(dev_to_user[d][id], d, id)
            /\ dev_to_user[d][id] = u \/ id \notin ids(d)
      BY <2>1 DEF Tables, KnownAreTrue, find_connection_id
    <3>2. QED
      BY <1>1, <1>5, <2>1, <3>1 DEF KnownAreTrue
  <2>2. CASE kind # "switch" /\ ~need_erase_partners
    <3>1. \A v \in DOMAIN known : \A d \in DOMAIN transports :
            IsKnownAs(v, d, v) /\ (v = u \/ v \notin ids(d))
      BY <2>2 DEF Tables, KnownAreTrue, find_connection_id
    <3>2. DOMAIN known # {} => DOMAIN transports # {}
      BY <2>2 DEF Tables, KnownAreTrue
    <3>3. QED
      BY <1>1, <1>3, <1>5, <2>2, <3>1, <3>2 DEF KnownAreTrue
  <2>3. CASE kind # "switch" /\ need_erase_partners
    BY <1>1, <2>3 DEF KnownAreTrue
  <2>4. QED
    BY <2>1, <2>2, <2>3
<1>10. FirstEventConnects'
  <2> HIDE DEF ids
  <2>1. ASSUME NEW x \in DOMAIN transports, NEW id \in DOMAIN transports'[x].events
        PROVE  transports'[x].events[id].just_connected <=> ~is_told(x, id)
    BY <1>2, <1>3 DEF HasDropped, Tables, FirstEventConnects
  <2>2. QED
    BY <1>3, <1>4, <2>1 DEF FirstEventConnects
<1>11. QED
  BY <1>6, <1>7, <1>8, <1>9, <1>10 DEF Tables

-----------------------------------------------------------------------------
(* Switching on and off *)

\* What the tables speak of is as it was.
LEMMA NothingHappens ==
  ASSUME Tables, TypeOK',
         UNCHANGED <<kind, enabled, need_erase_partners, connected_partners, transports, active,
                     active_partners, dev_to_user, user_connections, known, left>>
  PROVE  Tables'
<1>1. /\ kind' = kind /\ enabled' = enabled /\ need_erase_partners' = need_erase_partners
      /\ connected_partners' = connected_partners /\ transports' = transports /\ active' = active
      /\ active_partners' = active_partners /\ dev_to_user' = dev_to_user
      /\ user_connections' = user_connections /\ known' = known /\ left' = left
  OBVIOUS
<1>2. DevicesOfKind' /\ LayersAreNew' /\ PartnersAreKnown' /\ NumbersAreDistinct'
  <2>1. DevicesOfKind' /\ LayersAreNew'
    BY <1>1 DEF Tables, DevicesOfKind, LayersAreNew
  <2>2. PartnersAreKnown'
    BY <1>1 DEF Tables, PartnersAreKnown
  <2>3. NumbersAreDistinct'
    BY <1>1 DEF Tables, NumbersAreDistinct
  <2>4. QED
    BY <2>1, <2>2, <2>3
<1>3. KnownAreTrue' /\ FirstEventConnects'
  BY <1>1 DEF Tables, KnownAreTrue, IsKnownAs, FirstEventConnects, is_told
<1>4. QED
  BY <1>1, <1>2, <1>3 DEF Tables

\* New transports have no connections.
LEMMA MakeMakes ==
  ASSUME made \in Nat, Make
  PROVE  /\ made' \in Nat
         /\ DOMAIN transports' \subseteq Devices
         /\ transports' = [d \in DOMAIN transports' |-> transports'[d]]
         /\ kind = "single" => DOMAIN transports' = {1}
         /\ \A d \in DOMAIN transports' : /\ transports'[d].name \in 1 .. made'
                                          /\ TransportOK(transports'[d])
                                          /\ DOMAIN transports'[d].events = {}
<1>1. PICK usable \in SUBSET Devices :
        /\ kind = "single" => usable = {1}
        /\ transports' = [d \in usable |-> [name |-> made + d, counter |-> 1, alive |-> {},
                                            events |-> NoEvents]]
  BY DEF Make
<1>2. made' = made + Cardinality(Devices)
  BY DEF Make
<1>3. Cardinality(Devices) \in Nat /\ Devices = 1 .. Cardinality(Devices)
  BY SwitchesAssumption, FS_CardinalityType
<1>4. made' \in Nat
  BY <1>2, <1>3
<1>5. ASSUME NEW d \in usable
      PROVE  /\ transports'[d].name \in 1 .. made'
             /\ TransportOK(transports'[d])
             /\ DOMAIN transports'[d].events = {}
  <2>1. transports'[d] = [name |-> made + d, counter |-> 1, alive |-> {}, events |-> NoEvents]
    BY <1>1
  <2>2. made + d \in 1 .. made'
    BY <1>2, <1>3
  <2>3. DOMAIN NoEvents = {} /\ NoEvents = [id \in DOMAIN NoEvents |-> NoEvents[id]]
    BY DEF NoEvents
  <2>4. TransportOK(transports'[d])
    BY <2>1, <2>3 DEF TransportOK
  <2>5. QED
    BY <2>1, <2>2, <2>3, <2>4
<1>6. DOMAIN transports' = usable /\ transports' = [d \in DOMAIN transports' |-> transports'[d]]
  BY <1>1
<1>7. QED
  BY <1>1, <1>4, <1>5, <1>6

\* Master and slave messages switch the device on and off.
LEMMA ReadControlKeeps ==
  ASSUME Tables, ReadControl
  PROVE  Tables'
<1> DEFINE on == Head(control)
<1>1. /\ on \in BOOLEAN
      /\ control' \in Seq(BOOLEAN)
      /\ SetEnabled(on)
      /\ user' = "calling"
      /\ UNCHANGED <<kind, connected_partners, known, left, told, connections, controls>>
  <2>1. control \in Seq(BOOLEAN) /\ control # << >>
    BY DEF ReadControl, Tables, TypeOK
  <2>2. Head(control) \in BOOLEAN /\ Tail(control) \in Seq(BOOLEAN)
    BY <2>1
  <2>3. QED
    BY <2>2 DEF ReadControl, counts
<1> HIDE DEF on
<1>2. enabled' = on
  BY <1>1 DEF SetEnabled
<1>3. CASE on = enabled
  <2>1. UNCHANGED <<transports, active, active_partners, dev_to_user, user_connections,
                    need_erase_partners, notified, made>>
    BY <1>1, <1>3 DEF SetEnabled, one_of, switch
  <2>2. TypeOK'
    BY <1>1, <1>2, <1>3, <2>1 DEF Tables, TypeOK
  <2>3. QED
    BY <1>1, <1>2, <1>3, <2>1, <2>2, NothingHappens
<1>4. CASE on # enabled
  <2>1. /\ active' = {} /\ active_partners' = {}
        /\ dev_to_user' = [d \in Devices |-> Empty]
        /\ user_connections' = Empty
    BY <1>1, <1>4 DEF SetEnabled
  <2>2. DOMAIN Empty = {} /\ Empty = [x \in DOMAIN Empty |-> Empty[x]] /\ IsFiniteSet(DOMAIN Empty)
    BY FS_EmptySet DEF Empty
  <2>3. CASE on
    <3>1. Make /\ need_erase_partners' = need_erase_partners /\ notified' = notified
      BY <1>1, <1>4, <2>3 DEF SetEnabled
    <3>2. /\ made' \in Nat
          /\ DOMAIN transports' \subseteq Devices
          /\ transports' = [d \in DOMAIN transports' |-> transports'[d]]
          /\ kind = "single" => DOMAIN transports' = {1}
          /\ \A d \in DOMAIN transports' : /\ transports'[d].name \in 1 .. made'
                                           /\ TransportOK(transports'[d])
                                           /\ DOMAIN transports'[d].events = {}
      BY <3>1, MakeMakes DEF Tables, TypeOK
    <3>3. TypeOK'
      BY <1>1, <1>2, <2>1, <2>2, <3>1, <3>2 DEF Tables, TypeOK
    <3>4. DevicesOfKind' /\ NumbersAreDistinct'
      BY <1>1, <2>1, <2>2, <3>2 DEF DevicesOfKind, NumbersAreDistinct
    <3>5. ~enabled /\ enabled' = TRUE
      BY <1>1, <1>2, <1>4, <2>3 DEF Tables, TypeOK
    <3>6. need_erase_partners \/ connected_partners = {}
      BY <3>5 DEF Tables, LayersAreNew
    <3>7. LayersAreNew' /\ PartnersAreKnown'
      BY <1>1, <2>1, <2>2, <3>1, <3>5, <3>6 DEF Tables, LayersAreNew, PartnersAreKnown
    <3>8. KnownAreTrue' /\ FirstEventConnects'
      BY <1>1, <2>1, <2>2, <3>1, <3>2, <3>6
         DEF Tables, PartnersAreKnown, KnownAreTrue, FirstEventConnects
    <3>9. QED
      BY <3>2, <3>3, <3>4, <3>7, <3>8 DEF Tables
  <2>4. CASE ~on
    <3>1. /\ transports' = Empty /\ need_erase_partners' = TRUE /\ made' = made
          /\ notified' = (notified \/ connected_partners # {})
      BY <1>1, <1>4, <2>4 DEF SetEnabled, shut_down, switched_off
    <3>2. TypeOK'
      BY <1>1, <1>2, <2>1, <2>2, <3>1 DEF Tables, TypeOK
    <3>3. DevicesOfKind' /\ NumbersAreDistinct'
      BY <1>1, <2>1, <2>2, <3>1 DEF DevicesOfKind, NumbersAreDistinct
    <3>4. LayersAreNew' /\ PartnersAreKnown'
      BY <1>1, <2>1, <2>2, <3>1 DEF Tables, LayersAreNew, PartnersAreKnown
    <3>5. KnownAreTrue' /\ FirstEventConnects'
      BY <1>1, <2>1, <2>2, <3>1 DEF KnownAreTrue, FirstEventConnects
    <3>6. QED
      BY <2>2, <3>1, <3>2, <3>3, <3>4, <3>5 DEF Tables
  <2>5. QED
    BY <1>1, <2>3, <2>4
<1>5. QED
  BY <1>3, <1>4

-----------------------------------------------------------------------------
(* The user gets an event *)

\* A step tells the user nothing new, or something in order.
TellsInOrder == \A e \in told' \ told : InOrder(e)

\* That a partner of an earlier device is gone.
LEMMA EraseOldPartnerKeeps ==
  ASSUME Tables, EraseOldPartner,
         UNCHANGED <<kind, enabled, control, notified, connections, controls>>,
         user' \in {"idle", "looping", "calling"}
  PROVE  Tables' /\ TellsInOrder
<1> DEFINE id == smallest(connected_partners)
           event == Event(FALSE, TRUE, << >>)
<1>1. /\ need_erase_partners /\ connected_partners # {}
      /\ connected_partners' = connected_partners \ {id}
      /\ told' = {[connection_id |-> id, conn |-> << >>, event |-> event]}
      /\ known' = forget(known, id)
      /\ left' = left \ {id}
      /\ UNCHANGED <<need_erase_partners, transports, active, active_partners, dev_to_user,
                     user_connections, made>>
  BY DEF EraseOldPartner, erased, Tell, Event, one_of, switch
<1>2. connected_partners \subseteq Nat
  BY DEF Tables, TypeOK
<1>3. id \in DOMAIN known
  <2>1. PICK least \in connected_partners : \A other \in connected_partners : least <= other
    BY <1>1, <1>2, LeastNat
  <2>2. id \in connected_partners
    BY <2>1 DEF smallest
  <2>3. QED
    BY <2>2 DEF Tables, PartnersAreKnown
<1> HIDE DEF id
<1>4. IsFun(known') /\ DOMAIN known' = DOMAIN known \ {id}
  BY <1>1, ForgetIsFun, ForgetMap
<1>5. TypeOK'
  BY <1>1, <1>4 DEF Tables, TypeOK, IsFun
<1>6. DevicesOfKind' /\ LayersAreNew' /\ PartnersAreKnown' /\ NumbersAreDistinct'
  <2>1. DevicesOfKind' /\ NumbersAreDistinct'
    BY <1>1 DEF Tables, DevicesOfKind, NumbersAreDistinct
  <2>2. LayersAreNew'
    BY <1>1 DEF Tables, LayersAreNew
  <2>3. PartnersAreKnown'
    BY <1>1, <1>4 DEF Tables, PartnersAreKnown
  <2>4. QED
    BY <2>1, <2>2, <2>3
<1>7. KnownAreTrue'
  BY <1>1 DEF Tables, LayersAreNew, KnownAreTrue, Empty
<1>8. FirstEventConnects'
  BY <1>1 DEF Tables, FirstEventConnects, is_told
<1>9. TellsInOrder
  BY <1>1, <1>3 DEF TellsInOrder, InOrder, Event
<1>10. QED
  BY <1>1, <1>5, <1>6, <1>7, <1>8, <1>9 DEF Tables

\* That there is none: then those of the earlier device are all told of.
LEMMA NoEventKeeps ==
  ASSUME Tables, NoEvent,
         UNCHANGED <<kind, enabled, control, notified, connections, controls>>,
         user' \in {"idle", "looping", "calling"}
  PROVE  Tables' /\ TellsInOrder
<1>1. /\ need_erase_partners => connected_partners = {}
      /\ need_erase_partners' = FALSE
      /\ UNCHANGED <<connected_partners, transports, active, active_partners, dev_to_user,
                     user_connections, made, known, left, told>>
  BY DEF NoEvent, OldPartnersAreErased, one_of, switch
<1>2. need_erase_partners => DOMAIN known = {} /\ DOMAIN user_connections = {} /\ active_partners = {}
  BY <1>1 DEF Tables, PartnersAreKnown, LayersAreNew, Empty
<1>3. TypeOK'
  BY <1>1 DEF Tables, TypeOK
<1>4. DevicesOfKind' /\ NumbersAreDistinct'
  BY <1>1 DEF Tables, DevicesOfKind, NumbersAreDistinct
<1>5. LayersAreNew'
  BY <1>1 DEF Tables, LayersAreNew
<1>6. PartnersAreKnown'
  BY <1>1, <1>2 DEF Tables, PartnersAreKnown
<1>7. \A d, id : is_told(d, id)' <=> is_told(d, id)
  BY <1>1, <1>2 DEF is_told
<1>8. FirstEventConnects'
  BY <1>1, <1>7 DEF Tables, FirstEventConnects
<1>9. KnownAreTrue'
  BY <1>1, <1>2 DEF Tables, KnownAreTrue, IsKnownAs
<1>10. TellsInOrder
  BY <1>1 DEF TellsInOrder
<1>11. QED
  BY <1>1, <1>3, <1>4, <1>5, <1>6, <1>8, <1>9, <1>10 DEF Tables

\* The events of a transport when the user has got that of `id`.
IsTaken(t, r, id) ==
  LET e == t.events[id]
  IN  /\ Continues(t, r)
      /\ DOMAIN r.events = IF e.just_disconnected THEN DOMAIN t.events \ {id} ELSE DOMAIN t.events
      /\ \A other \in DOMAIN r.events : other # id => r.events[other] = t.events[other]
      /\ id \in DOMAIN r.events => r.events[id].just_connected = FALSE

LEMMA EventIsTaken ==
  ASSUME NEW t, TransportOK(t), NEW id \in DOMAIN t.events,
         NEW r, r = [t EXCEPT !.events = event_taken(@, id)]
  PROVE  IsTaken(t, r, id)
<1> DEFINE e == t.events[id]
           conn == <<t.name, id>>
<1>1. EventOK(e, id \in t.alive, conn)
  BY DEF TransportOK
<1>2. r = [t EXCEPT !.alive = t.alive, !.events = event_taken(t.events, id)]
  BY DEF TransportOK
<1>3. CASE e.just_disconnected
  <2> DEFINE alive == t.alive
             events == without(t.events, {id})
  <2>1. id \notin t.alive
    BY <1>1, <1>3 DEF EventOK
  <2>2. r = [t EXCEPT !.alive = alive, !.events = events]
    BY <1>2, <1>3 DEF event_taken, forget
  <2>3. alive = t.alive \ {id}
    BY <2>1
  <2>4. events = without(t.events, {id})
    OBVIOUS
  <2> HIDE DEF events
  <2>5. HasDropped(t, r, {id})
    BY <2>2, <2>3, <2>4, EventsDropped
  <2>6. QED
    BY <1>3, <2>5 DEF HasDropped, IsTaken
<1>4. CASE ~e.just_disconnected
  <2> DEFINE alive == t.alive
             none == Event(FALSE, FALSE, << >>)
             events == [t.events EXCEPT ![id] = none]
  <2>1. EventOK(none, id \in alive, conn)
    BY <1>1, <1>4 DEF EventOK, Event
  <2>2. r = [t EXCEPT !.alive = alive, !.events = events]
    BY <1>2, <1>4 DEF event_taken
  <2>3. none.just_connected = FALSE
    BY DEF Event
  <2>4. events = [t.events EXCEPT ![id] = none] /\ t.alive \ {id} \subseteq alive
    OBVIOUS
  <2> HIDE DEF events, none, conn
  <2>5. HasEvent(t, r, id, none)
    BY <2>1, <2>2, <2>4, EventChanges DEF conn
  <2>6. QED
    BY <1>4, <2>3, <2>5 DEF HasEvent, IsTaken
<1>5. QED
  BY <1>3, <1>4

\* The number a CmIpSwitch gives is one it has not given.
LEMMA UnusedKey ==
  ASSUME NEW d, IsFiniteSet(DOMAIN user_connections), DOMAIN user_connections \subseteq Nat
  PROVE  get_unused_key(d) \in Nat /\ get_unused_key(d) \notin DOMAIN user_connections
<1> DEFINE S == DOMAIN user_connections
           n == Cardinality(S)
           T == {k \in Nat : FirstUserId <= k /\ k \notin S}
<1>1. FirstUserId \in Nat /\ n \in Nat
  BY SwitchesAssumption, FS_CardinalityType
<1> HIDE DEF S, n
<1>2. T # {}
  <2> SUFFICES ASSUME T = {} PROVE FALSE
    OBVIOUS
  <2>1. FirstUserId .. FirstUserId + n \subseteq S
    BY <1>1
  <2>2. Cardinality(FirstUserId .. FirstUserId + n) <= n
    BY <2>1, FS_Subset DEF S, n
  <2>3. Cardinality(FirstUserId .. FirstUserId + n) = n + 1
    BY <1>1, FS_Interval
  <2>4. QED
    BY <1>1, <2>2, <2>3
<1>3. PICK u \in T : \A k \in T : u <= k
  BY <1>2, LeastNat
<1>4. \A k \in FirstUserId .. u - 1 : k \in S
  BY <1>1, <1>3
<1>5. u = FirstUserId \/ u - 1 \in S
  BY <1>1, <1>4
<1>6. /\ u \in {FirstUserId} \cup {k + 1 : k \in S}
      /\ u \notin S
      /\ FirstUserId .. u - 1 \subseteq S
  <2>1. CASE u = FirstUserId
    BY <1>4, <2>1
  <2>2. CASE u - 1 \in S
    <3>1. u = (u - 1) + 1
      BY <1>3
    <3>2. QED
      BY <1>4, <2>2, <3>1
  <2>3. QED
    BY <1>5, <2>1, <2>2
<1>7. /\ get_unused_key(d) \in {FirstUserId} \cup {k + 1 : k \in S}
      /\ get_unused_key(d) \notin S
  BY <1>6 DEF get_unused_key, S
<1>8. get_unused_key(d) \in Nat
  BY <1>1, <1>7 DEF S
<1>9. QED
  BY <1>7, <1>8 DEF S

\* What the user knows when he was told.
LEMMA TellTells ==
  ASSUME Tables, NEW u \in Nat, NEW conn, NEW e, Tell(u, conn, e),
         {e.just_connected, e.just_disconnected} \subseteq BOOLEAN,
         e.just_connected => ~e.just_disconnected
  PROVE  /\ IsFun(known')
         /\ DOMAIN known' = partners_after(DOMAIN known, u, e)
         /\ \A v \in DOMAIN known' : v # u => known'[v] = known[v]
         /\ e.just_connected => known'[u] = conn
         /\ ~e.just_connected /\ ~e.just_disconnected => known' = known
         /\ left' \subseteq DOMAIN known'
         /\ \A v : v # u => (v \in left' <=> v \in left)
         /\ DOMAIN known' \subseteq Nat
<1>1. /\ IsFun(known) /\ left \subseteq DOMAIN known /\ DOMAIN known \subseteq Nat
  BY DEF Tables, TypeOK, IsFun, PartnersAreKnown
<1>2. CASE e.just_disconnected
  <2>1. known' = forget(known, u) /\ left' = left \ {u}
    BY <1>2 DEF Tell
  <2>2. IsFun(known') /\ DOMAIN known' = DOMAIN known \ {u}
    BY <2>1, ForgetIsFun, ForgetMap
  <2>3. \A v \in DOMAIN known : v # u => known'[v] = known[v]
    BY <2>1, ForgetMap
  <2>4. QED
    BY <1>1, <1>2, <2>1, <2>2, <2>3 DEF partners_after
<1>3. CASE ~e.just_disconnected /\ e.just_connected
  <2>1. known' = store(known, u, conn) /\ left' = left
    BY <1>3 DEF Tell
  <2>2. IsFun(known') /\ DOMAIN known' = DOMAIN known \cup {u}
    BY <2>1, StoreIsFun, StoreMap
  <2>3. \A v \in DOMAIN known : v # u => known'[v] = known[v]
    BY <2>1, StoreMap
  <2>4. known'[u] = conn
    BY <2>1, StoreMap
  <2>5. QED
    BY <1>1, <1>3, <2>1, <2>2, <2>3, <2>4 DEF partners_after
<1>4. CASE ~e.just_disconnected /\ ~e.just_connected
  <2>1. known' = known /\ left' = left
    BY <1>4 DEF Tell
  <2>2. QED
    BY <1>1, <1>4, <2>1 DEF partners_after
<1>5. QED
  BY <1>2, <1>3, <1>4

\* What the layers know once nothing of an earlier device is left.
UpToDate ==
  /\ connected_partners = DOMAIN known
  /\ kind = "switch" => DOMAIN user_connections = DOMAIN known
  /\ kind = "one_of" => active_partners = DOMAIN known
  /\ \A d, id : is_told(d, id) <=> IF kind = "switch" THEN id \in DOMAIN dev_to_user[d]
                                                     ELSE id \in DOMAIN known
  /\ kind # "switch" => \A u \in DOMAIN known : \A d \in DOMAIN transports : IsKnownAs(u, d, u)

LEMMA OldAreErased ==
  ASSUME Tables, OldPartnersAreErased
  PROVE  UpToDate /\ need_erase_partners' = FALSE
<1>1. need_erase_partners => DOMAIN known = {} /\ DOMAIN user_connections = {} /\ active_partners = {}
  BY DEF OldPartnersAreErased, Tables, PartnersAreKnown, LayersAreNew, Empty
<1>2. /\ connected_partners = DOMAIN known
      /\ kind = "switch" => DOMAIN user_connections = DOMAIN known
      /\ kind = "one_of" => active_partners = DOMAIN known
  BY <1>1 DEF Tables, PartnersAreKnown
<1>3. \A d, id : is_told(d, id) <=> IF kind = "switch" THEN id \in DOMAIN dev_to_user[d]
                                                     ELSE id \in DOMAIN known
  BY <1>1 DEF is_told
<1>4. kind # "switch" => \A u \in DOMAIN known : \A d \in DOMAIN transports : IsKnownAs(u, d, u)
  BY <1>1 DEF Tables, KnownAreTrue
<1>5. QED
  BY <1>2, <1>3, <1>4 DEF UpToDate, OldPartnersAreErased

\* The event of the connection `id` of d, of which the user is told as `u`.
Gets(d, id, event, u) ==
  /\ d \in DOMAIN transports
  /\ id \in DOMAIN transports[d].events
  /\ event = transports[d].events[id]
  /\ u = IF kind = "switch" THEN user_conn_id(d, id, event) ELSE id

\* He knows the number just when it is no connection he is told of first, and
\* then as that connection.
LEMMA EventOfDevice ==
  ASSUME Tables, UpToDate, NEW d, NEW id, NEW event, NEW u, Gets(d, id, event, u)
  PROVE  /\ u \in Nat /\ d \in Devices
         /\ EventOK(event, id \in transports[d].alive, <<transports[d].name, id>>)
         /\ id \in 1 .. transports[d].counter - 1
         /\ event.just_connected <=> ~is_told(d, id)
         /\ event.just_connected <=> u \notin DOMAIN known
         /\ ~event.just_connected => known[u] = <<transports[d].name, id>>
         /\ InOrder([connection_id |-> u, conn |-> <<transports[d].name, id>>, event |-> event])
<1> DEFINE conn == <<transports[d].name, id>>
<1>1. /\ d \in Devices
      /\ EventOK(event, id \in transports[d].alive, conn)
      /\ id \in 1 .. transports[d].counter - 1
      /\ transports[d].counter \in Nat
  BY DEF Gets, Tables, TypeOK, TransportOK
<1>2. event.just_connected <=> ~is_told(d, id)
  BY DEF Gets, Tables, FirstEventConnects
<1> DEFINE Known ==
             /\ u \in Nat
             /\ event.just_connected <=> u \notin DOMAIN known
             /\ ~event.just_connected => known[u] = conn
<1>3. ASSUME kind = "switch" PROVE Known
  <2>1. DOMAIN user_connections = DOMAIN known /\ (is_told(d, id) <=> id \in DOMAIN dev_to_user[d])
    BY <1>3 DEF UpToDate
  <2>2. CASE event.just_connected
    <3>1. u = get_unused_key(d)
      BY <1>2, <1>3, <2>1, <2>2 DEF Gets, user_conn_id
    <3>2. u \in Nat /\ u \notin DOMAIN known
      BY <2>1, <3>1, UnusedKey DEF Tables, TypeOK
    <3>3. QED
      BY <2>2, <3>2
  <2>3. CASE ~event.just_connected
    <3>1. u = dev_to_user[d][id] /\ id \in DOMAIN dev_to_user[d]
      BY <1>2, <1>3, <2>1, <2>3 DEF Gets, user_conn_id
    <3>2. u \in DOMAIN known /\ u \in Nat
      BY <1>1, <2>1, <3>1 DEF Tables, NumbersAreDistinct, TypeOK
    <3>3. known[u] = conn
      BY <1>1, <1>3, <3>1 DEF Tables, KnownAreTrue, IsKnownAs
    <3>4. QED
      BY <2>3, <3>2, <3>3
  <2>4. QED
    BY <2>2, <2>3
<1>4. ASSUME kind # "switch" PROVE Known
  <2>1. u = id /\ (is_told(d, id) <=> id \in DOMAIN known)
    BY <1>4 DEF Gets, UpToDate
  <2>2. u \in Nat
    BY <1>1, <2>1
  <2>3. ~event.just_connected => known[u] = conn
    BY <1>2, <1>4, <2>1 DEF UpToDate, IsKnownAs, Gets
  <2>4. QED
    BY <1>2, <2>1, <2>2, <2>3
<1>5. Known
  BY <1>3, <1>4
<1>6. InOrder([connection_id |-> u, conn |-> conn, event |-> event])
  <2> DEFINE e == [connection_id |-> u, conn |-> conn, event |-> event]
  <2>1. e.connection_id = u /\ e.conn = conn /\ e.event = event
    OBVIOUS
  <2>2. \A i \in DOMAIN event.messages : event.messages[i] = conn
    BY <1>1 DEF EventOK
  <2> HIDE DEF e, conn
  <2>3. InOrder(e)
    BY <1>5, <2>1, <2>2 DEF InOrder
  <2>4. QED
    BY <2>3 DEF e
<1>7. QED
  BY <1>1, <1>2, <1>5, <1>6

\* One transport, of which the user gets an event by its own number.
LEMMA OneTransportKeeps ==
  ASSUME Tables, UpToDate, need_erase_partners' = FALSE, kind # "switch",
         NEW d, NEW id, NEW event, Gets(d, id, event, id),
         NEW r, IsTaken(transports[d], r, id), transports' = [x \in {d} |-> r],
         connected_partners' = partners_after(connected_partners, id, event),
         Tell(id, <<transports[d].name, id>>, event),
         active' \subseteq {d},
         kind = "single" => d = 1,
         kind = "one_of" => /\ active' = {d}
                            /\ active_partners' = partners_after(active_partners, id, event)
                            /\ active_partners' # {},
         UNCHANGED <<kind, enabled, dev_to_user, user_connections, control, notified, made,
                     connections, controls>>,
         user' \in {"idle", "looping", "calling"}
  PROVE  Tables'
<1> DEFINE t == transports[d]
           conn == <<t.name, id>>
<1>1. /\ id \in Nat /\ d \in Devices
      /\ EventOK(event, id \in t.alive, conn)
      /\ id \in 1 .. t.counter - 1
      /\ event.just_connected <=> id \notin DOMAIN known
  BY EventOfDevice
<1>2. /\ IsFun(known')
      /\ DOMAIN known' = partners_after(DOMAIN known, id, event)
      /\ \A v \in DOMAIN known' : v # id => known'[v] = known[v]
      /\ event.just_connected => known'[id] = conn
      /\ ~event.just_connected /\ ~event.just_disconnected => known' = known
      /\ left' \subseteq DOMAIN known'
      /\ \A v : v # id => (v \in left' <=> v \in left)
      /\ DOMAIN known' \subseteq Nat
  <2>1. /\ {event.just_connected, event.just_disconnected} \subseteq BOOLEAN
        /\ event.just_connected => ~event.just_disconnected
    BY <1>1 DEF EventOK
  <2> HIDE DEF conn
  <2>2. Tell(id, conn, event) /\ id \in Nat
    BY <1>1 DEF conn
  <2>3. QED
    BY <2>1, <2>2, TellTells
<1>3. /\ TransportOK(r) /\ r.name = t.name /\ r.counter \in Nat /\ t.counter <= r.counter
      /\ t.counter \in Nat
      /\ DOMAIN r.events = IF event.just_disconnected THEN DOMAIN t.events \ {id} ELSE DOMAIN t.events
      /\ \A other \in DOMAIN r.events : other # id => r.events[other] = t.events[other]
      /\ id \in DOMAIN r.events => r.events[id].just_connected = FALSE
  BY DEF Gets, IsTaken, Continues, Tables, TransportOK
<1>4. DOMAIN transports' = {d} /\ transports'[d] = r /\ IsFun(transports')
  BY DEF IsFun
<1>5. d \in DOMAIN transports /\ enabled
  BY DEF Gets, Tables, LayersAreNew, Empty
<1>6. connected_partners' = DOMAIN known' /\ (kind = "one_of" => active_partners' = DOMAIN known')
  BY <1>2 DEF UpToDate
<1>7. TypeOK'
  <2>1. r.name \in 1 .. made'
    BY <1>3, <1>5 DEF Tables, TypeOK
  <2>2. connected_partners' \subseteq Nat
    BY <1>2, <1>6
  <2>3. /\ transports' = [x \in DOMAIN transports' |-> transports'[x]]
        /\ \A x \in DOMAIN transports' : transports'[x].name \in 1 .. made'
        /\ DOMAIN transports' \subseteq Devices
        /\ active' \subseteq DOMAIN transports'
    BY <1>1, <1>4, <2>1 DEF IsFun
  <2>4. known' = [u \in DOMAIN known' |-> known'[u]]
    BY <1>2 DEF IsFun
  <2>5. QED
    BY <1>2, <2>2, <2>3, <2>4 DEF Tables, TypeOK
<1>8. DevicesOfKind' /\ LayersAreNew' /\ PartnersAreKnown' /\ NumbersAreDistinct'
  <2>1. DevicesOfKind'
    BY <1>4 DEF DevicesOfKind
  <2>2. LayersAreNew'
    BY <1>5 DEF LayersAreNew
  <2>3. PartnersAreKnown'
    BY <1>6 DEF PartnersAreKnown
  <2>4. NumbersAreDistinct'
    BY DEF Tables, NumbersAreDistinct
  <2>5. QED
    BY <2>1, <2>2, <2>3, <2>4
<1>9. ASSUME NEW v \in DOMAIN known'
      PROVE  IsKnownAs(v, d, v)'
  <2>1. CASE v # id
    <3>1. v \in DOMAIN known /\ known'[v] = known[v] /\ (v \in left' <=> v \in left)
      BY <1>2, <2>1 DEF partners_after
    <3>2. IsKnownAs(v, d, v)
      BY <1>5, <3>1 DEF UpToDate
    <3>3. v \in 1 .. r.counter - 1
      BY <1>3, <3>2 DEF IsKnownAs
    <3>4. v \in DOMAIN t.events => v \in DOMAIN r.events
      BY <1>3, <2>1
    <3>5. QED
      BY <1>3, <1>4, <3>1, <3>2, <3>3, <3>4 DEF IsKnownAs
  <2>2. CASE v = id
    <3>1. ~event.just_disconnected
      BY <1>2, <2>2 DEF partners_after
    <3>2. id \in DOMAIN r.events
      BY <1>3, <3>1 DEF Gets
    <3>3. known'[id] = conn
      <4>1. CASE event.just_connected
        BY <1>2, <4>1
      <4>2. CASE ~event.just_connected
        <5>1. id \in DOMAIN known /\ known' = known
          BY <1>1, <1>2, <3>1, <4>2
        <5>2. QED
          BY <1>5, <5>1 DEF UpToDate, IsKnownAs
      <4>3. QED
        BY <4>1, <4>2
    <3>4. id \in 1 .. r.counter - 1
      BY <1>1, <1>3
    <3>5. QED
      BY <1>3, <1>4, <2>2, <3>2, <3>3, <3>4 DEF IsKnownAs
  <2>3. QED
    BY <2>1, <2>2
<1>10. KnownAreTrue'
  BY <1>4, <1>9 DEF KnownAreTrue
<1>11. FirstEventConnects'
  <2>1. ASSUME NEW x \in DOMAIN r.events
        PROVE  r.events[x].just_connected <=> x \notin DOMAIN known'
    <3>1. CASE x # id
      <4>1. x \in DOMAIN t.events /\ r.events[x] = t.events[x]
        BY <1>3, <3>1
      <4>2. t.events[x].just_connected <=> x \notin DOMAIN known
        BY <1>5, <4>1 DEF Tables, FirstEventConnects, UpToDate
      <4>3. x \in DOMAIN known' <=> x \in DOMAIN known
        BY <1>2, <3>1 DEF partners_after
      <4>4. QED
        BY <4>1, <4>2, <4>3
    <3>2. CASE x = id
      <4>1. ~event.just_disconnected /\ r.events[id].just_connected = FALSE
        BY <1>3, <3>2
      <4>2. id \in DOMAIN known'
        BY <1>1, <1>2, <4>1 DEF partners_after
      <4>3. QED
        BY <3>2, <4>1, <4>2
    <3>3. QED
      BY <3>1, <3>2
  <2>2. QED
    BY <1>4, <2>1 DEF FirstEventConnects, is_told
<1>12. QED
  BY <1>3, <1>4, <1>7, <1>8, <1>10, <1>11 DEF Tables

\* A CmIpSwitch's tables after an event of the connection `id` of d.
IsTranslated(d, id, event, u) ==
  /\ dev_to_user' = [x \in Devices |-> dev_to_user'[x]]
  /\ \A x \in Devices : x # d => dev_to_user'[x] = dev_to_user[x]
  /\ IsFun(dev_to_user'[d])
  /\ DOMAIN dev_to_user'[d] = IF event.just_disconnected THEN DOMAIN dev_to_user[d] \ {id}
                              ELSE DOMAIN dev_to_user[d] \cup {id}
  /\ \A i \in DOMAIN dev_to_user'[d] : i # id => dev_to_user'[d][i] = dev_to_user[d][i]
  /\ ~event.just_disconnected => dev_to_user'[d][id] = u
  /\ IsFun(user_connections')
  /\ DOMAIN user_connections' = IF event.just_disconnected THEN DOMAIN user_connections \ {u}
                                ELSE DOMAIN user_connections \cup {u}
  /\ \A v \in DOMAIN user_connections' : v # u => user_connections'[v] = user_connections[v]
  /\ ~event.just_disconnected => user_connections'[u] = d
  /\ DOMAIN user_connections' \subseteq Nat
  /\ IsFiniteSet(DOMAIN user_connections')

LEMMA TranslateMaps ==
  ASSUME Tables, NEW d \in Devices, NEW id, NEW event, NEW u \in Nat, Translate(d, id, event, u)
  PROVE  IsTranslated(d, id, event, u)
<1> DEFINE m == dev_to_user[d]
           n == IF event.just_disconnected THEN forget(m, id) ELSE store(m, id, u)
<1>1. /\ dev_to_user = [x \in Devices |-> dev_to_user[x]]
      /\ DOMAIN user_connections \subseteq Nat /\ IsFiniteSet(DOMAIN user_connections)
  BY DEF Tables, TypeOK
<1>2. dev_to_user' = [dev_to_user EXCEPT ![d] = n]
  BY DEF Translate
<1>3. /\ IsFun(n)
      /\ DOMAIN n = IF event.just_disconnected THEN DOMAIN m \ {id} ELSE DOMAIN m \cup {id}
      /\ \A i \in DOMAIN n : i # id => n[i] = m[i]
      /\ ~event.just_disconnected => n[id] = u
  <2> HIDE DEF m
  <2>1. CASE event.just_disconnected
    <3>1. n = forget(m, id)
      BY <2>1
    <3> HIDE DEF n
    <3>2. IsFun(n)
      BY <3>1, ForgetIsFun
    <3>3. DOMAIN n = DOMAIN m \ {id}
      BY <3>1, ForgetMap
    <3>4. \A i \in DOMAIN m : i # id => n[i] = m[i]
      BY <3>1, ForgetMap
    <3>5. QED
      BY <2>1, <3>2, <3>3, <3>4
  <2>2. CASE ~event.just_disconnected
    <3>1. n = store(m, id, u)
      BY <2>2
    <3> HIDE DEF n
    <3>2. DOMAIN n = DOMAIN m \cup {id}
      BY <3>1, StoreMap
    <3>3. n[id] = u /\ IsFun(n)
      BY <3>1, StoreIsFun, StoreMap
    <3>4. \A i \in DOMAIN m : i # id => n[i] = m[i]
      BY <3>1, StoreMap
    <3>5. QED
      BY <2>2, <3>2, <3>3, <3>4
  <2>3. QED
    BY <2>1, <2>2
<1> HIDE DEF n
<1>4. /\ dev_to_user' = [x \in Devices |-> dev_to_user'[x]]
      /\ \A x \in Devices : x # d => dev_to_user'[x] = dev_to_user[x]
      /\ dev_to_user'[d] = n
  BY <1>1, <1>2
<1>5. /\ IsFun(user_connections')
      /\ DOMAIN user_connections' = IF event.just_disconnected THEN DOMAIN user_connections \ {u}
                                    ELSE DOMAIN user_connections \cup {u}
      /\ \A v \in DOMAIN user_connections' : v # u => user_connections'[v] = user_connections[v]
      /\ ~event.just_disconnected => user_connections'[u] = d
  <2>1. CASE event.just_disconnected
    <3>1. user_connections' = forget(user_connections, u)
      BY <2>1 DEF Translate
    <3>2. IsFun(user_connections')
      BY <3>1, ForgetIsFun
    <3>3. DOMAIN user_connections' = DOMAIN user_connections \ {u}
      BY <3>1, ForgetMap
    <3>4. \A v \in DOMAIN user_connections : v # u => user_connections'[v] = user_connections[v]
      BY <3>1, ForgetMap
    <3>5. QED
      BY <2>1, <3>2, <3>3, <3>4
  <2>2. CASE ~event.just_disconnected
    <3>1. user_connections' = store(user_connections, u, d)
      BY <2>2 DEF Translate
    <3>2. DOMAIN user_connections' = DOMAIN user_connections \cup {u}
      BY <3>1, StoreMap
    <3>3. user_connections'[u] = d /\ IsFun(user_connections')
      BY <3>1, StoreIsFun, StoreMap
    <3>4. \A v \in DOMAIN user_connections : v # u => user_connections'[v] = user_connections[v]
      BY <3>1, StoreMap
    <3>5. QED
      BY <2>2, <3>2, <3>3, <3>4
  <2>3. QED
    BY <2>1, <2>2
<1>6. IsFiniteSet(DOMAIN user_connections')
  BY <1>1, <1>5, FS_AddElement, FS_RemoveElement
<1>7. DOMAIN user_connections' \subseteq Nat
  BY <1>1, <1>5
<1>8. QED
  BY <1>3, <1>4, <1>5, <1>6, <1>7 DEF IsTranslated

\* It gives and takes back a number that is no other connection's.
LEMMA NumbersStayDistinct ==
  ASSUME Tables, UpToDate, kind = "switch", NEW d, NEW id, NEW event, NEW u,
         Gets(d, id, event, u), Translate(d, id, event, u)
  PROVE  /\ NumbersAreDistinct'
         /\ \A x \in Devices : \A i \in DOMAIN dev_to_user'[x] :
              x # d \/ i # id => /\ i \in DOMAIN dev_to_user[x]
                                 /\ dev_to_user'[x][i] = dev_to_user[x][i]
                                 /\ dev_to_user[x][i] # u
<1>1. /\ u \in Nat /\ d \in Devices
      /\ event.just_connected <=> ~is_told(d, id)
      /\ event.just_connected <=> u \notin DOMAIN known
      /\ EventOK(event, id \in transports[d].alive, <<transports[d].name, id>>)
  BY EventOfDevice
<1> DEFINE m == dev_to_user
           n == dev_to_user'
           c == user_connections
           e == user_connections'
<1>2. /\ \A x \in Devices : x # d => n[x] = m[x]
      /\ DOMAIN n[d] = IF event.just_disconnected THEN DOMAIN m[d] \ {id} ELSE DOMAIN m[d] \cup {id}
      /\ \A i \in DOMAIN n[d] : i # id => n[d][i] = m[d][i]
      /\ ~event.just_disconnected => n[d][id] = u
      /\ DOMAIN e = IF event.just_disconnected THEN DOMAIN c \ {u} ELSE DOMAIN c \cup {u}
      /\ \A v \in DOMAIN e : v # u => e[v] = c[v]
      /\ ~event.just_disconnected => e[u] = d
  <2>1. IsTranslated(d, id, event, u)
    BY <1>1, TranslateMaps
  <2>2. QED
    BY <2>1 DEF IsTranslated
<1>3. /\ event.just_connected => id \notin DOMAIN m[d] /\ u \notin DOMAIN c
      /\ ~event.just_connected => id \in DOMAIN m[d] /\ m[d][id] = u
  BY <1>1 DEF UpToDate, Gets, user_conn_id
<1>4. \A x \in Devices : \A i \in DOMAIN m[x] :
        /\ m[x][i] \in DOMAIN c
        /\ c[m[x][i]] = x
        /\ \A other \in DOMAIN m[x] : m[x][other] = m[x][i] => other = i
  BY DEF Tables, NumbersAreDistinct
<1>5. \A v \in DOMAIN c : c[v] \in Devices /\ \E i \in DOMAIN m[c[v]] : m[c[v]][i] = v
  BY DEF Tables, NumbersAreDistinct
<1> HIDE DEF m, n, c, e
<1>6. \A x \in Devices : \A i \in DOMAIN m[x] : x # d \/ i # id => m[x][i] # u
  BY <1>1, <1>3, <1>4
<1>7. \A x \in Devices : \A i \in DOMAIN n[x] :
        x # d \/ i # id => i \in DOMAIN m[x] /\ n[x][i] = m[x][i] /\ m[x][i] # u
  BY <1>2, <1>6
<1>8. ASSUME NEW x \in Devices, NEW i \in DOMAIN n[x]
      PROVE  /\ n[x][i] \in DOMAIN e
             /\ e[n[x][i]] = x
             /\ \A other \in DOMAIN n[x] : n[x][other] = n[x][i] => other = i
  <2>1. CASE x = d /\ i = id
    <3>1. ~event.just_disconnected
      BY <1>2, <2>1
    <3>2. n[x][i] = u /\ u \in DOMAIN e /\ e[u] = d
      BY <1>2, <2>1, <3>1
    <3>3. \A other \in DOMAIN n[x] : other # id => n[x][other] # u
      BY <1>7, <2>1
    <3>4. QED
      BY <2>1, <3>2, <3>3
  <2>2. CASE x # d \/ i # id
    <3>1. i \in DOMAIN m[x] /\ n[x][i] = m[x][i] /\ m[x][i] # u
      BY <1>7, <2>2
    <3>2. n[x][i] \in DOMAIN e /\ e[n[x][i]] = x
      BY <1>2, <1>4, <3>1
    <3>3. ASSUME NEW other \in DOMAIN n[x], n[x][other] = n[x][i]
          PROVE  other = i
      <4>1. CASE x = d /\ other = id
        <5>1. ~event.just_disconnected /\ n[x][other] = u
          BY <1>2, <4>1
        <5>2. QED
          BY <3>1, <3>3, <5>1
      <4>2. CASE x # d \/ other # id
        <5>1. other \in DOMAIN m[x] /\ n[x][other] = m[x][other]
          BY <1>7, <4>2
        <5>2. QED
          BY <1>4, <3>1, <3>3, <5>1
      <4>3. QED
        BY <4>1, <4>2
    <3>4. QED
      BY <3>2, <3>3
  <2>3. QED
    BY <2>1, <2>2
<1>9. ASSUME NEW v \in DOMAIN e
      PROVE  e[v] \in Devices /\ \E i \in DOMAIN n[e[v]] : n[e[v]][i] = v
  <2>1. CASE v = u
    <3>1. ~event.just_disconnected
      BY <1>2, <2>1
    <3>2. e[v] = d /\ id \in DOMAIN n[d] /\ n[d][id] = v
      BY <1>2, <2>1, <3>1
    <3>3. QED
      BY <1>1, <3>2
  <2>2. CASE v # u
    <3>1. v \in DOMAIN c /\ e[v] = c[v]
      BY <1>2, <2>2
    <3>2. c[v] \in Devices
      BY <1>5, <3>1
    <3>3. PICK i \in DOMAIN m[c[v]] : m[c[v]][i] = v
      BY <1>5, <3>1
    <3>4. c[v] # d \/ i # id
      BY <1>3, <2>2, <3>3
    <3>5. i \in DOMAIN n[c[v]] /\ n[c[v]][i] = v
      BY <1>2, <3>2, <3>3, <3>4
    <3>6. QED
      BY <3>1, <3>2, <3>5
  <2>3. QED
    BY <2>1, <2>2
<1>10. NumbersAreDistinct'
  BY <1>8, <1>9 DEF NumbersAreDistinct, n, e
<1>11. QED
  BY <1>7, <1>10 DEF m, n

\* The user gets an event of a CmIpSwitch by the number it has given.
LEMMA SwitchKeeps ==
  ASSUME Tables, UpToDate, need_erase_partners' = FALSE, kind = "switch",
         NEW d, NEW id, NEW event, NEW u, Gets(d, id, event, u),
         NEW r, IsTaken(transports[d], r, id), transports' = [transports EXCEPT ![d] = r],
         Translate(d, id, event, u),
         connected_partners' = partners_after(connected_partners, u, event),
         Tell(u, <<transports[d].name, id>>, event),
         UNCHANGED <<kind, enabled, active, active_partners, control, notified, made, connections,
                     controls>>,
         user' \in {"idle", "looping", "calling"}
  PROVE  Tables'
<1> DEFINE t == transports[d]
           conn == <<t.name, id>>
<1>1. /\ u \in Nat /\ d \in Devices
      /\ EventOK(event, id \in t.alive, conn)
      /\ id \in 1 .. t.counter - 1
      /\ event.just_connected <=> ~is_told(d, id)
      /\ event.just_connected <=> u \notin DOMAIN known
      /\ ~event.just_connected => known[u] = conn
  BY EventOfDevice
<1>2. IsTranslated(d, id, event, u)
  BY <1>1, TranslateMaps
<1>3. /\ IsFun(known')
      /\ DOMAIN known' = partners_after(DOMAIN known, u, event)
      /\ \A v \in DOMAIN known' : v # u => known'[v] = known[v]
      /\ event.just_connected => known'[u] = conn
      /\ ~event.just_connected /\ ~event.just_disconnected => known' = known
      /\ left' \subseteq DOMAIN known'
      /\ \A v : v # u => (v \in left' <=> v \in left)
      /\ DOMAIN known' \subseteq Nat
  <2>1. /\ {event.just_connected, event.just_disconnected} \subseteq BOOLEAN
        /\ event.just_connected => ~event.just_disconnected
    BY <1>1 DEF EventOK
  <2> HIDE DEF conn
  <2>2. Tell(u, conn, event) /\ u \in Nat
    BY <1>1 DEF conn
  <2>3. QED
    BY <2>1, <2>2, TellTells
<1>4. /\ TransportOK(r) /\ r.name = t.name /\ r.counter \in Nat /\ t.counter <= r.counter
      /\ t.counter \in Nat
      /\ DOMAIN r.events = IF event.just_disconnected THEN DOMAIN t.events \ {id} ELSE DOMAIN t.events
      /\ \A other \in DOMAIN r.events : other # id => r.events[other] = t.events[other]
      /\ id \in DOMAIN r.events => r.events[id].just_connected = FALSE
  BY DEF Gets, IsTaken, Continues, Tables, TransportOK
<1>5. /\ d \in DOMAIN transports /\ enabled
      /\ id \in DOMAIN t.events
  BY DEF Gets, Tables, LayersAreNew, Empty
<1>6. /\ DOMAIN transports' = DOMAIN transports
      /\ transports'[d] = r
      /\ \A x \in DOMAIN transports : x # d => transports'[x] = transports[x]
      /\ transports' = [x \in DOMAIN transports' |-> transports'[x]]
  BY <1>5 DEF Tables, TypeOK
<1>7. /\ NumbersAreDistinct'
      /\ \A x \in Devices : \A i \in DOMAIN dev_to_user'[x] :
           x # d \/ i # id => /\ i \in DOMAIN dev_to_user[x]
                              /\ dev_to_user'[x][i] = dev_to_user[x][i]
                              /\ dev_to_user[x][i] # u
  BY NumbersStayDistinct
<1>8. /\ connected_partners' = DOMAIN known'
      /\ DOMAIN user_connections' = DOMAIN known'
  <2>1. connected_partners = DOMAIN known /\ DOMAIN user_connections = DOMAIN known
    BY DEF UpToDate
  <2>2. connected_partners' = DOMAIN known'
    BY <1>3, <2>1
  <2>3. DOMAIN user_connections' = IF event.just_disconnected THEN DOMAIN known \ {u}
                                   ELSE DOMAIN known \cup {u}
    BY <1>2, <2>1 DEF IsTranslated
  <2>4. ~event.just_connected => DOMAIN known \cup {u} = DOMAIN known
    BY <1>1
  <2>5. QED
    BY <1>3, <2>2, <2>3, <2>4 DEF partners_after
<1>9. TypeOK'
  <2>1. /\ \A x \in DOMAIN transports' : transports'[x].name \in 1 .. made'
        /\ DOMAIN transports' \subseteq Devices
        /\ active' \subseteq DOMAIN transports'
    BY <1>4, <1>5, <1>6 DEF Tables, TypeOK
  <2>2. /\ dev_to_user' = [x \in Devices |-> dev_to_user'[x]]
        /\ \A x \in Devices : dev_to_user'[x] = [i \in DOMAIN dev_to_user'[x] |-> dev_to_user'[x][i]]
    <3>1. \A x \in Devices : IsFun(dev_to_user'[x])
      BY <1>2 DEF IsTranslated, Tables, TypeOK, IsFun
    <3>2. QED
      BY <1>2, <3>1 DEF IsTranslated, IsFun
  <2>3. /\ user_connections' = [v \in DOMAIN user_connections' |-> user_connections'[v]]
        /\ IsFiniteSet(DOMAIN user_connections')
        /\ DOMAIN user_connections' \subseteq Nat
    BY <1>2 DEF IsTranslated, IsFun
  <2>4. known' = [v \in DOMAIN known' |-> known'[v]] /\ connected_partners' \subseteq Nat
    BY <1>3, <1>8 DEF IsFun
  <2>5. QED
    BY <1>3, <1>6, <2>1, <2>2, <2>3, <2>4 DEF Tables, TypeOK
<1>10. DevicesOfKind' /\ LayersAreNew' /\ PartnersAreKnown'
  BY <1>5, <1>8 DEF DevicesOfKind, LayersAreNew, PartnersAreKnown
<1>11. KnownAreTrue'
  <2>1. ASSUME NEW x \in Devices, NEW i \in DOMAIN dev_to_user'[x]
        PROVE  IsKnownAs(dev_to_user[x][i], x, i)'
    <3>1. CASE x # d \/ i # id
      <4> DEFINE v == dev_to_user[x][i]
      <4>1. /\ i \in DOMAIN dev_to_user[x] /\ dev_to_user'[x][i] = v /\ v # u
        BY <1>7, <3>1
      <4>2. IsKnownAs(v, x, i)
        BY <4>1 DEF Tables, KnownAreTrue
      <4>3. v \in DOMAIN known
        BY <4>1 DEF Tables, NumbersAreDistinct, UpToDate
      <4>4. /\ v \in DOMAIN known' /\ known'[v] = known[v]
            /\ (v \in left' <=> v \in left)
        BY <1>3, <4>1, <4>3 DEF partners_after
      <4> HIDE DEF v
      <4>5. CASE x # d
        BY <1>6, <4>1, <4>2, <4>4, <4>5 DEF IsKnownAs
      <4>6. CASE x = d
        <5>1. i # id /\ (i \in DOMAIN t.events => i \in DOMAIN r.events)
          BY <1>4, <3>1, <4>6
        <5>2. i \in 1 .. t.counter - 1 => i \in 1 .. r.counter - 1
          BY <1>4
        <5>3. QED
          BY <1>4, <1>6, <4>1, <4>2, <4>4, <4>6, <5>1, <5>2 DEF IsKnownAs
      <4>7. QED
        BY <4>5, <4>6
    <3>2. CASE x = d /\ i = id
      <4>1. ~event.just_disconnected /\ dev_to_user'[x][i] = u
        BY <1>2, <3>2 DEF IsTranslated
      <4>2. id \in DOMAIN r.events
        BY <1>4, <1>5, <4>1
      <4>3. known'[u] = conn
        <5>1. CASE event.just_connected
          BY <1>3, <5>1
        <5>2. CASE ~event.just_connected
          BY <1>1, <1>3, <4>1, <5>2
        <5>3. QED
          BY <5>1, <5>2
      <4>4. id \in 1 .. r.counter - 1
        BY <1>1, <1>4
      <4>5. QED
        BY <1>4, <1>5, <1>6, <3>2, <4>1, <4>2, <4>3, <4>4 DEF IsKnownAs
    <3>3. QED
      BY <3>1, <3>2
  <2>2. QED
    BY <2>1 DEF KnownAreTrue
<1>12. FirstEventConnects'
  <2>1. ASSUME NEW x \in DOMAIN transports, NEW i \in DOMAIN transports'[x].events
        PROVE  transports'[x].events[i].just_connected <=> i \notin DOMAIN dev_to_user'[x]
    <3>1. x \in Devices
      BY DEF Tables, TypeOK
    <3>2. CASE x = d /\ i = id
      <4>1. ~event.just_disconnected /\ transports'[x].events[i].just_connected = FALSE
        BY <1>4, <1>6, <3>2, <2>1
      <4>2. id \in DOMAIN dev_to_user'[d]
        BY <1>2, <4>1 DEF IsTranslated
      <4>3. QED
        BY <3>2, <4>1, <4>2
    <3>3. CASE x # d \/ i # id
      <4>1. i \in DOMAIN transports[x].events /\ transports'[x].events[i] = transports[x].events[i]
        BY <1>4, <1>6, <2>1, <3>3
      <4>2. i \in DOMAIN dev_to_user'[x] <=> i \in DOMAIN dev_to_user[x]
        BY <1>2, <3>1, <3>3 DEF IsTranslated
      <4>3. transports[x].events[i].just_connected <=> i \notin DOMAIN dev_to_user[x]
        BY <4>1 DEF Tables, FirstEventConnects, is_told
      <4>4. QED
        BY <4>1, <4>2, <4>3
    <3>4. QED
      BY <3>2, <3>3
  <2>2. QED
    BY <1>6, <2>1 DEF FirstEventConnects, is_told
<1>13. \A x \in DOMAIN transports' : TransportOK(transports'[x])
  BY <1>4, <1>6 DEF Tables
<1>14. QED
  BY <1>7, <1>9, <1>10, <1>11, <1>12, <1>13 DEF Tables

LEMMA NextEvent ==
  ASSUME NEW d, has_event(d)
  PROVE  next_event(d) \in DOMAIN transports[d].events /\ has_news(transports[d].events[next_event(d)])
BY DEF has_event, next_event, is_next_event

\* The first transport with an event tells it, in order.
LEMMA DeviceEventKeeps ==
  ASSUME Tables, DeviceEvent,
         UNCHANGED <<kind, enabled, control, notified, connections, controls>>,
         user' \in {"idle", "looping", "calling"}
  PROVE  Tables' /\ TellsInOrder
<1>1. UpToDate /\ need_erase_partners' = FALSE
  BY OldAreErased DEF DeviceEvent
<1>2. PICK d \in DOMAIN transports :
        \E id \in {next_event(x) : x \in {y \in {d} : has_event(y)}} :
        \E event \in {transports[d].events[id]} :
          \/ /\ kind = "single"
             /\ transports' = [transports EXCEPT ![d] = after_event(d)]
             /\ connected_partners' = partners_after(connected_partners, id, event)
             /\ Tell(id, <<transports[d].name, id>>, event)
             /\ UNCHANGED <<one_of, switch, made>>
          \/ /\ kind = "switch"
             /\ transports' = [transports EXCEPT ![d] = after_event(d)]
             /\ \E u \in {user_conn_id(d, id, event)} :
                  /\ Translate(d, id, event, u)
                  /\ connected_partners' = partners_after(connected_partners, u, event)
                  /\ Tell(u, <<transports[d].name, id>>, event)
             /\ UNCHANGED <<one_of, made>>
          \/ /\ kind = "one_of"
             /\ connected_partners' = partners_after(connected_partners, id, event)
             /\ Tell(id, <<transports[d].name, id>>, event)
             /\ active_partners' = partners_after(active_partners, id, event)
             /\ IF active_partners' = {}
                  THEN active' = {} /\ Make
                  ELSE /\ active' = {d}
                       /\ transports' = [x \in {d} |-> after_event(x)]
                       /\ UNCHANGED made
             /\ UNCHANGED switch
  BY DEF DeviceEvent, asked
<1> DEFINE id == next_event(d)
           event == transports[d].events[id]
           r == after_event(d)
           conn == <<transports[d].name, id>>
           u == IF kind = "switch" THEN user_conn_id(d, id, event) ELSE id
<1>3. has_event(d)
  BY <1>2
<1>4. id \in DOMAIN transports[d].events /\ TransportOK(transports[d])
  BY <1>3, NextEvent DEF Tables
<1>5. r = [transports[d] EXCEPT !.events = event_taken(@, id)]
  BY DEF after_event
<1>6. IsTaken(transports[d], r, id)
  <2> HIDE DEF id, r
  <2>1. QED
    BY <1>4, <1>5, EventIsTaken
<1>7. Gets(d, id, event, u)
  BY <1>4 DEF Gets
<1>8. \/ /\ kind = "single"
         /\ transports' = [transports EXCEPT ![d] = r]
         /\ connected_partners' = partners_after(connected_partners, id, event)
         /\ Tell(id, conn, event)
         /\ UNCHANGED <<one_of, switch, made>>
      \/ /\ kind = "switch"
         /\ transports' = [transports EXCEPT ![d] = r]
         /\ Translate(d, id, event, u)
         /\ connected_partners' = partners_after(connected_partners, u, event)
         /\ Tell(u, conn, event)
         /\ UNCHANGED <<one_of, made>>
      \/ /\ kind = "one_of"
         /\ connected_partners' = partners_after(connected_partners, id, event)
         /\ Tell(id, conn, event)
         /\ active_partners' = partners_after(active_partners, id, event)
         /\ IF active_partners' = {}
              THEN active' = {} /\ Make
              ELSE active' = {d} /\ transports' = [x \in {d} |-> r] /\ UNCHANGED made
         /\ UNCHANGED switch
  <2>1. \A x \in {d} : after_event(x) = r
    OBVIOUS
  <2>2. CASE kind = "single"
    BY <1>2, <1>3, <2>2
  <2>3. CASE kind = "switch"
    BY <1>2, <1>3, <2>3
  <2>4. CASE kind = "one_of"
    <3>1. [x \in {d} |-> after_event(x)] = [x \in {d} |-> r]
      OBVIOUS
    <3>2. /\ connected_partners' = partners_after(connected_partners, id, event)
          /\ Tell(id, conn, event)
          /\ active_partners' = partners_after(active_partners, id, event)
          /\ IF active_partners' = {}
               THEN active' = {} /\ Make
               ELSE /\ active' = {d}
                    /\ transports' = [x \in {d} |-> after_event(x)]
                    /\ UNCHANGED made
          /\ UNCHANGED switch
      BY <1>2, <1>3, <2>4
    <3> HIDE DEF id, event, r, conn
    <3>3. QED
      BY <2>4, <3>1, <3>2
  <2>5. QED
    BY <1>2, <2>2, <2>3, <2>4
<1> HIDE DEF id, event, r, conn, u
<1>9. /\ u \in Nat /\ d \in Devices
      /\ EventOK(event, id \in transports[d].alive, conn)
      /\ event.just_connected <=> u \notin DOMAIN known
      /\ InOrder([connection_id |-> u, conn |-> conn, event |-> event])
  BY <1>1, <1>7, EventOfDevice DEF conn
<1>10. Tell(u, conn, event)
  BY <1>8 DEF u
<1>11. TellsInOrder
  BY <1>9, <1>10 DEF TellsInOrder, Tell
<1>12. kind # "switch" => u = id
  BY DEF u
<1>13. CASE kind = "switch"
  <2>1. /\ Translate(d, id, event, u)
        /\ transports' = [transports EXCEPT ![d] = r]
        /\ connected_partners' = partners_after(connected_partners, u, event)
        /\ UNCHANGED <<active, active_partners, made>>
    BY <1>8, <1>13 DEF one_of
  <2>2. Tables'
    BY <1>1, <1>6, <1>7, <1>10, <1>13, <2>1, SwitchKeeps DEF conn
  <2>3. QED
    BY <1>11, <2>2
<1>14. CASE kind = "single"
  <2>1. /\ transports' = [transports EXCEPT ![d] = r]
        /\ connected_partners' = partners_after(connected_partners, id, event)
        /\ UNCHANGED <<active, active_partners, dev_to_user, user_connections, made>>
    BY <1>8, <1>14 DEF one_of, switch
  <2>2. d = 1 /\ DOMAIN transports = {d} /\ active \subseteq {d}
    BY <1>14 DEF Tables, TypeOK, DevicesOfKind
  <2>3. transports' = [x \in {d} |-> r]
    BY <2>1, <2>2 DEF Tables, TypeOK
  <2>4. Tell(id, <<transports[d].name, id>>, event) /\ Gets(d, id, event, id)
    BY <1>7, <1>10, <1>12, <1>14 DEF conn
  <2>5. active' \subseteq {d} /\ kind # "switch" /\ kind # "one_of"
    BY <1>14, <2>1, <2>2
  <2>6. Tables'
    BY <1>1, <1>6, <2>1, <2>2, <2>3, <2>4, <2>5, OneTransportKeeps
  <2>7. QED
    BY <1>11, <2>6
<1>15. CASE kind = "one_of"
  <2>1. /\ connected_partners' = partners_after(connected_partners, id, event)
        /\ active_partners' = partners_after(active_partners, id, event)
        /\ IF active_partners' = {}
             THEN active' = {} /\ Make
             ELSE active' = {d} /\ transports' = [x \in {d} |-> r] /\ UNCHANGED made
        /\ UNCHANGED <<dev_to_user, user_connections>>
    BY <1>8, <1>15 DEF switch
  <2>2. Tell(id, <<transports[d].name, id>>, event) /\ Gets(d, id, event, id)
    BY <1>7, <1>10, <1>12, <1>15 DEF conn
  <2>3. CASE active_partners' # {}
    <3>1. active' \subseteq {d} /\ kind # "switch" /\ kind # "single" /\ UNCHANGED made
          /\ transports' = [x \in {d} |-> r] /\ active' = {d}
      BY <1>15, <2>1, <2>3
    <3>2. Tables'
      BY <1>1, <1>6, <2>1, <2>2, <2>3, <3>1, OneTransportKeeps
    <3>3. QED
      BY <1>11, <3>2
  <2>4. CASE active_partners' = {}
    <3>1. /\ IsFun(known')
          /\ DOMAIN known' = partners_after(DOMAIN known, id, event)
          /\ left' \subseteq DOMAIN known'
          /\ DOMAIN known' \subseteq Nat
      <4>1. /\ {event.just_connected, event.just_disconnected} \subseteq BOOLEAN
            /\ event.just_connected => ~event.just_disconnected
        BY <1>9 DEF EventOK
      <4>2. Tell(id, conn, event) /\ id \in Nat
        BY <1>9, <1>10, <1>12, <1>15
      <4>3. QED
        BY <4>1, <4>2, TellTells
    <3>2. DOMAIN known' = {} /\ connected_partners' = {}
      BY <1>1, <1>15, <2>1, <2>4, <3>1 DEF UpToDate
    <3>3. active' = {} /\ Make
      BY <2>1, <2>4
    <3>4. /\ made' \in Nat
          /\ DOMAIN transports' \subseteq Devices
          /\ transports' = [x \in DOMAIN transports' |-> transports'[x]]
          /\ \A x \in DOMAIN transports' : /\ transports'[x].name \in 1 .. made'
                                           /\ TransportOK(transports'[x])
                                           /\ DOMAIN transports'[x].events = {}
      BY <3>3, MakeMakes DEF Tables, TypeOK
    <3>5. TypeOK'
      <4>1. known' = [v \in DOMAIN known' |-> known'[v]]
        BY <3>1 DEF IsFun
      <4>2. QED
        BY <1>1, <2>1, <3>1, <3>2, <3>3, <3>4, <4>1 DEF Tables, TypeOK
    <3>6. enabled
      BY DEF Tables, LayersAreNew, Empty
    <3>7. DevicesOfKind' /\ LayersAreNew' /\ PartnersAreKnown'
      BY <1>1, <1>15, <2>4, <3>2, <3>3, <3>6 DEF DevicesOfKind, LayersAreNew, PartnersAreKnown
    <3>8. KnownAreTrue' /\ FirstEventConnects'
      BY <1>15, <3>2, <3>4 DEF KnownAreTrue, FirstEventConnects
    <3>9. NumbersAreDistinct'
      BY <2>1 DEF Tables, NumbersAreDistinct
    <3>10. Tables'
      BY <3>4, <3>5, <3>7, <3>8, <3>9 DEF Tables
    <3>11. QED
      BY <1>11, <3>10
  <2>5. QED
    BY <2>3, <2>4
<1>16. QED
  BY <1>8, <1>13, <1>14, <1>15

-----------------------------------------------------------------------------
(* The layers *)

LEMMA InitTables == Init => Tables
<1> SUFFICES ASSUME Init PROVE Tables
  OBVIOUS
<1>1. DOMAIN Empty = {} /\ Empty = [x \in DOMAIN Empty |-> Empty[x]] /\ IsFiniteSet(DOMAIN Empty)
  BY FS_EmptySet DEF Empty
<1>2. TypeOK
  <2>1. /\ dev_to_user = [d \in Devices |-> dev_to_user[d]]
        /\ \A d \in Devices : dev_to_user[d] = [id \in DOMAIN dev_to_user[d] |-> dev_to_user[d][id]]
    BY <1>1 DEF Init
  <2>2. control \in Seq(BOOLEAN)
    BY DEF Init
  <2>3. /\ DOMAIN transports = {} /\ transports = [d \in DOMAIN transports |-> transports[d]]
        /\ DOMAIN known = {} /\ known = [u \in DOMAIN known |-> known[u]]
        /\ DOMAIN user_connections = {} /\ IsFiniteSet(DOMAIN user_connections)
        /\ user_connections = [u \in DOMAIN user_connections |-> user_connections[u]]
    BY <1>1 DEF Init
  <2>4. {enabled, need_erase_partners, notified} \subseteq BOOLEAN
    BY ZenonT(20) DEF Init
  <2>5. {made, connections, controls} \subseteq Nat
    BY DEF Init
  <2>6. kind \in Kinds /\ active = {} /\ left = {} /\ user = "idle" /\ connected_partners = {}
    BY DEF Init
  <2>7. QED
    BY <2>1, <2>2, <2>3, <2>4, <2>5, <2>6 DEF TypeOK
<1>3. DevicesOfKind /\ LayersAreNew /\ PartnersAreKnown
  BY <1>1 DEF Init, DevicesOfKind, LayersAreNew, PartnersAreKnown
<1>4. KnownAreTrue /\ FirstEventConnects /\ NumbersAreDistinct
  BY <1>1 DEF Init, KnownAreTrue, FirstEventConnects, NumbersAreDistinct
<1>5. QED
  BY <1>1, <1>2, <1>3, <1>4 DEF Init, Tables

\* Every step keeps the tables, and tells in order.
LEMMA NextTables ==
  ASSUME Tables, [Next]_vars
  PROVE  Tables' /\ TellsInOrder
<1>1. CASE WakeUp
  <2>1. /\ user' = "looping" /\ notified' = FALSE
        /\ UNCHANGED <<kind, enabled, need_erase_partners, connected_partners, transports, active,
                       active_partners, dev_to_user, user_connections, control, known, left,
                       told, made, connections, controls>>
    BY <1>1 DEF WakeUp, partners_told, one_of, switch, counts
  <2>2. TypeOK'
    BY <2>1 DEF Tables, TypeOK
  <2>3. QED
    BY <2>1, <2>2, NothingHappens DEF TellsInOrder
<1>2. CASE ReadControl
  BY <1>2, ReadControlKeeps DEF ReadControl, TellsInOrder
<1>3. CASE get_new_event
  <2>1. /\ UNCHANGED <<kind, enabled, control, notified, connections, controls>>
        /\ user' \in {"idle", "looping", "calling"}
        /\ EraseOldPartner \/ DeviceEvent \/ NoEvent
    BY <1>3 DEF get_new_event, counts
  <2>2. QED
    BY <2>1, EraseOldPartnerKeeps, DeviceEventKeeps, NoEventKeeps
<1>4. ASSUME NEW u \in DOMAIN known, Disconnect(u) PROVE Tables' /\ TellsInOrder
  BY <1>4, DisconnectKeeps DEF Disconnect, TellsInOrder
<1>5. ASSUME NEW d \in DOMAIN transports, Connect(d) PROVE Tables' /\ TellsInOrder
  BY <1>5, ConnectKeeps DEF Connect, Happens, TellsInOrder
<1>6. ASSUME NEW d \in DOMAIN transports, NEW id \in transports[d].alive, Receive(d, id)
      PROVE  Tables' /\ TellsInOrder
  BY <1>6, ReceiveKeeps DEF Receive, Happens, TellsInOrder
<1>7. ASSUME NEW d \in DOMAIN transports, NEW id \in transports[d].alive, PartnerLost(d, id)
      PROVE  Tables' /\ TellsInOrder
  BY <1>7, PartnerLostKeeps DEF PartnerLost, Happens, TellsInOrder
<1>8. ASSUME NEW is_master \in BOOLEAN, ReceiveControl(is_master) PROVE Tables' /\ TellsInOrder
  <2>1. /\ controls' = controls + 1 /\ control' = Append(control, is_master) /\ notified' = TRUE
        /\ UNCHANGED <<kind, enabled, need_erase_partners, connected_partners, transports, active,
                       active_partners, dev_to_user, user_connections, user, known, left,
                       told, made, connections>>
    BY <1>8 DEF ReceiveControl, partners_told, one_of, switch
  <2>2. control' \in Seq(BOOLEAN)
    BY <2>1 DEF Tables, TypeOK
  <2>3. TypeOK'
    BY <2>1, <2>2 DEF Tables, TypeOK
  <2>4. QED
    BY <2>1, <2>3, NothingHappens DEF TellsInOrder
<1>9. CASE UNCHANGED vars
  <2>1. UNCHANGED <<kind, enabled, need_erase_partners, connected_partners, transports, active,
                    active_partners, dev_to_user, user_connections, control, user, notified,
                    known, left, told, made, connections, controls>>
    BY <1>9 DEF vars, partners_told, one_of, switch, counts
  <2>2. TypeOK'
    BY <2>1 DEF Tables, TypeOK
  <2>3. QED
    BY <2>1, <2>2, NothingHappens DEF TellsInOrder
<1>10. QED
  BY <1>1, <1>2, <1>3, <1>4, <1>5, <1>6, <1>7, <1>8, <1>9 DEF Next

\* The tables of the layers are always true of the transports under them.
THEOREM TablesStayTrue == Spec => []TablesAreTrue
<1>1. Tables /\ [Next]_vars => Tables'
  BY NextTables
<1>2. QED
  BY <1>1, InitTables, TablesAreEnough, PTL DEF Spec

\* The user gets the events of every connection in order: once that it is
\* connected, then messages of that connection only, then that it is gone.
THEOREM TheUserGetsEventsInOrder == Spec => EventsAreInOrder
<1>1. Tables /\ [Next]_vars => Tables'
  BY NextTables
<1>2. Tables /\ [Next]_vars => [\A e \in told' \ told : InOrder(e)]_vars
  BY NextTables DEF TellsInOrder
<1>3. QED
  BY <1>1, <1>2, InitTables, PTL DEF Spec, EventsAreInOrder

\* What the user sends to a connection reaches no other one.
LEMMA NumbersLeadHome == Tables => SendReachesItsConnection
<1> SUFFICES ASSUME Tables, ~need_erase_partners, NEW u \in DOMAIN known \ left,
                    NEW at \in find_connection_id(u), at[2] \in transports[at[1]].alive
             PROVE  <<transports[at[1]].name, at[2]>> = known[u]
  BY DEF SendReachesItsConnection, reached
<1>1. CASE kind = "switch"
  <2>1. /\ at[1] \in Devices /\ at[2] \in DOMAIN dev_to_user[at[1]]
        /\ dev_to_user[at[1]][at[2]] = u
    BY <1>1 DEF find_connection_id
  <2>2. QED
    BY <1>1, <2>1 DEF Tables, KnownAreTrue, IsKnownAs
<1>2. CASE kind # "switch"
  <2>1. at[1] \in DOMAIN transports /\ at[2] = u
    BY <1>2 DEF find_connection_id, Tables, TypeOK
  <2>2. QED
    BY <1>2, <2>1 DEF Tables, KnownAreTrue, IsKnownAs
<1>3. QED
  BY <1>1, <1>2

THEOREM SendsReachTheirConnection == Spec => []SendReachesItsConnection
<1>1. Tables /\ [Next]_vars => Tables'
  BY NextTables
<1>2. QED
  BY <1>1, InitTables, NumbersLeadHome, PTL DEF Spec

\* A transport has an event when a connection has any news.
LEMMA NewsIsEvent ==
  ASSUME NEW d, TransportOK(transports[d])
  PROVE  has_event(d) <=> \E id \in DOMAIN transports[d].events : has_news(transports[d].events[id])
<1> DEFINE events == transports[d].events
           T == {id \in DOMAIN events : has_news(events[id])}
<1>1. has_event(d) => \E id \in DOMAIN events : has_news(events[id])
  BY DEF has_event, is_next_event
<1>2. ASSUME NEW id \in DOMAIN events, has_news(events[id])
      PROVE  has_event(d)
  <2>1. T \subseteq Nat /\ T # {}
    BY <1>2 DEF TransportOK
  <2> HIDE DEF T
  <2>2. PICK least \in T : \A other \in T : least <= other
    BY <2>1, LeastNat
  <2>3. is_next_event(events, least)
    BY <2>2 DEF is_next_event, T
  <2>4. QED
    BY <2>2, <2>3 DEF has_event, T
<1>3. QED
  BY <1>1, <1>2

\* The user has got all there is.
Quiet ==
  /\ control = << >>
  /\ need_erase_partners => connected_partners = {}
  /\ \A d \in DOMAIN transports : ~has_event(d)

LEMMA DisconnectKeepsQuiet ==
  ASSUME Tables, Quiet, NEW u \in DOMAIN known, Disconnect(u)
  PROVE  Quiet'
<1> DEFINE ids(d) == {id \in transports[d].alive : <<d, id>> \in find_connection_id(u)}
<1>1. /\ transports' = [d \in DOMAIN transports |->
                         [transports[d] EXCEPT !.alive = @ \ ids(d), !.events = without(@, ids(d))]]
      /\ UNCHANGED <<control, need_erase_partners, connected_partners>>
  BY DEF Disconnect, partners_told
<1>2. Tables'
  BY DisconnectKeeps
<1> HIDE DEF ids
<1>3. ASSUME NEW d \in DOMAIN transports', has_event(d)'
      PROVE  FALSE
  <2>1. d \in DOMAIN transports /\ TransportOK(transports[d]) /\ TransportOK(transports[d])'
    BY <1>1, <1>2 DEF Tables
  <2>2. transports'[d].events = without(transports[d].events, ids(d))
    BY <1>1, <2>1 DEF TransportOK
  <2>3. PICK id \in DOMAIN transports'[d].events : has_news(transports'[d].events[id])
    <3>1. (has_event(d) <=> \E id \in DOMAIN transports[d].events : has_news(transports[d].events[id]))'
      BY <2>1, NewsIsEvent, PTL
    <3>2. QED
      BY <1>3, <3>1
  <2>4. id \in DOMAIN transports[d].events /\ has_news(transports[d].events[id])
    BY <2>2, <2>3 DEF without
  <2>5. has_event(d)
    BY <2>1, <2>4, NewsIsEvent
  <2>6. QED
    BY <2>1, <2>5 DEF Quiet
<1>4. QED
  BY <1>1, <1>3 DEF Quiet

\* Nothing is left for the user that he will not be woken for.
THEOREM TheUserIsWoken == Spec => []NothingIsForgotten
<1> DEFINE I == Tables /\ NothingIsForgotten
<1>1. Init => I
  BY InitTables DEF Init, NothingIsForgotten, Empty
<1>2. I /\ [Next]_vars => I'
  <2> SUFFICES ASSUME I, [Next]_vars PROVE NothingIsForgotten'
    BY NextTables
  <2>1. ASSUME NEW u \in DOMAIN known, Disconnect(u) PROVE NothingIsForgotten'
    <3>1. notified' = notified /\ user' = user
      BY <2>1 DEF Disconnect
    <3>2. CASE notified \/ user # "idle"
      BY <3>1, <3>2 DEF NothingIsForgotten
    <3>3. CASE Quiet
      BY <2>1, <3>3, DisconnectKeepsQuiet DEF Quiet, NothingIsForgotten
    <3>4. QED
      BY <3>2, <3>3 DEF NothingIsForgotten, Quiet
  <2>2. CASE get_new_event
    <3>1. CASE user' = "looping"
      BY <3>1 DEF NothingIsForgotten
    <3>2. CASE NoEvent
      <4>1. /\ need_erase_partners' = FALSE
            /\ transports' = transports /\ control' = << >>
            /\ \A d \in DOMAIN transports : ~has_event(d)
        BY <2>2, <3>2 DEF get_new_event, NoEvent, OldPartnersAreErased, asked
      <4>2. \A d : has_event(d)' <=> has_event(d)
        BY <4>1 DEF has_event
      <4>3. QED
        BY <4>1, <4>2 DEF NothingIsForgotten
    <3>3. QED
      BY <2>2, <3>1, <3>2 DEF get_new_event
  <2>3. CASE WakeUp \/ ReadControl
    BY <2>3 DEF WakeUp, ReadControl, NothingIsForgotten
  <2>4. CASE notified' = TRUE
    BY <2>4 DEF NothingIsForgotten
  <2>5. CASE UNCHANGED vars
    BY <2>5 DEF vars, partners_told, NothingIsForgotten, has_event
  <2>6. QED
    BY <2>1, <2>2, <2>3, <2>4, <2>5
       DEF Next, Connect, Receive, PartnerLost, ReceiveControl, Happens
<1>3. I => NothingIsForgotten
  OBVIOUS
<1>4. QED
  BY <1>1, <1>2, <1>3, PTL DEF Spec

=============================================================================
