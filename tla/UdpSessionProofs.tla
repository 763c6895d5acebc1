-------------------------- MODULE UdpSessionProofs --------------------------
(***************************************************************************)
(* What the user of the UDP transport is told of connections, and the      *)
(* handshake that makes them, for any number of requests, sessions,        *)
(* messages, restarts and time-outs: the events of a connection are its    *)
(* life, in order and with its end, and a session has one partner.         *)
(***************************************************************************)
EXTENDS UdpSession, UdpPartnerProofs

-----------------------------------------------------------------------------
(* The tables of a process *)

\* What a map is when a key was stored, and when one was erased.
LEMMA StoreMap ==
  \A f, key, value :
    /\ store(f, key, value) = [x \in DOMAIN store(f, key, value) |-> store(f, key, value)[x]]
    /\ DOMAIN store(f, key, value) = DOMAIN f \cup {key}
    /\ store(f, key, value)[key] = value
    /\ \A x \in DOMAIN f : x # key => store(f, key, value)[x] = f[x]
  BY DEF store

LEMMA ForgetMap ==
  \A f, key :
    /\ forget(f, key) = [x \in DOMAIN forget(f, key) |-> forget(f, key)[x]]
    /\ DOMAIN forget(f, key) = DOMAIN f \ {key}
    /\ \A x \in DOMAIN f : x # key => forget(f, key)[x] = f[x]
  BY DEF forget, without

Tolds == [connects : Nat, disconnects : Nat, messages : Seq(Bodies)]

\* A process starts with empty tables.
LEMMA NothingYet == ProcessOK(1, EmptyMap, NoEvents, << >>, {})
  BY DEF ProcessOK, EmptyMap, NoEvents

\* A connection begins: it has a partner, and its event says so.
LEMMA Begins ==
  ASSUME NEW n, NEW ps, NEW es, NEW tolds, NEW gone, ProcessOK(n, ps, es, tolds, gone), NEW x
  PROVE  /\ ProcessOK(n + 1, store(ps, n, x), connect(es, n), Append(tolds, NotSeen), gone)
         /\ n \notin DOMAIN ps
<1> DEFINE qs == store(ps, n, x)
           new == Event(TRUE, FALSE, << >>)
           fs == store(es, n, new)
           after == Append(tolds, NotSeen)
<1>1. /\ n \in Nat \ {0} /\ n \notin DOMAIN ps /\ n \notin DOMAIN es
      /\ 1 .. (n + 1) - 1 = (1 .. n - 1) \cup {n}
  BY DEF ProcessOK
<1>2. connect(es, n) = fs
  BY <1>1 DEF connect, insert
<1>3. /\ qs = [c \in DOMAIN qs |-> qs[c]]
      /\ DOMAIN qs = DOMAIN ps \cup {n}
  <2>1. DOMAIN qs = DOMAIN ps \cup {n}
    BY StoreMap
  <2>2. qs = [c \in DOMAIN qs |-> qs[c]]
    BY StoreMap
  <2>3. QED
    BY <2>1, <2>2
<1>4. /\ fs = [c \in DOMAIN fs |-> fs[c]]
      /\ DOMAIN fs = DOMAIN es \cup {n}
      /\ fs[n] = new
      /\ \A c \in DOMAIN es : fs[c] = es[c]
  <2> HIDE DEF new
  <2>1. DOMAIN fs = DOMAIN es \cup {n}
    BY StoreMap
  <2>2. fs = [c \in DOMAIN fs |-> fs[c]]
    BY StoreMap
  <2>3. fs[n] = new
    BY StoreMap
  <2>4. \A c \in DOMAIN es : c # n => fs[c] = es[c]
    BY StoreMap
  <2>5. QED
    BY <1>1, <2>1, <2>2, <2>3, <2>4
<1>5. tolds \in Seq(Tolds) /\ Len(tolds) = n - 1 /\ NotSeen \in Tolds
  BY DEF ProcessOK, Tolds, NotSeen
<1>6. /\ after \in Seq(Tolds) /\ Len(after) = (n + 1) - 1
      /\ after[n] = NotSeen
      /\ \A c \in 1 .. n - 1 : after[c] = tolds[c]
  <2> HIDE DEF Tolds, NotSeen
  <2>1. QED
    BY <1>1, <1>5
<1>7. EventGoesOn(new, TRUE, NotSeen) /\ ToldInOrder(NotSeen) /\ NotSeen.connects = 0
  BY DEF EventGoesOn, Event, NotSeen, ToldInOrder
<1> HIDE DEF qs, fs, new, after, NotSeen
<1>8. ASSUME NEW c \in DOMAIN fs
      PROVE  EventGoesOn(fs[c], c \in DOMAIN qs, after[c])
  <2>1. CASE c = n
    BY <1>3, <1>4, <1>6, <1>7, <2>1
  <2>2. CASE c # n
    <3>1. c \in DOMAIN es /\ c \in 1 .. n - 1
      BY <1>4, <2>2 DEF ProcessOK
    <3>2. fs[c] = es[c] /\ after[c] = tolds[c] /\ (c \in DOMAIN qs <=> c \in DOMAIN ps)
      BY <1>3, <1>4, <1>6, <2>2, <3>1
    <3>3. QED
      BY <3>1, <3>2 DEF ProcessOK
  <2>3. QED
    BY <2>1, <2>2
<1>9. ASSUME NEW c \in 1 .. (n + 1) - 1
      PROVE  /\ ToldInOrder(after[c])
             /\ after[c].connects = 1 /\ after[c].disconnects = 0 /\ c \notin gone => c \in DOMAIN fs
  <2>1. CASE c = n
    BY <1>4, <1>6, <1>7, <2>1
  <2>2. CASE c \in 1 .. n - 1
    <3>1. /\ ToldInOrder(tolds[c])
          /\ tolds[c].connects = 1 /\ tolds[c].disconnects = 0 /\ c \notin gone => c \in DOMAIN es
      BY <2>2 DEF ProcessOK
    <3>2. QED
      BY <1>4, <1>6, <2>2, <3>1
  <2>3. QED
    BY <1>1, <2>1, <2>2
<1>10. /\ DOMAIN qs \subseteq DOMAIN fs /\ DOMAIN fs \subseteq 1 .. (n + 1) - 1
       /\ n + 1 \in Nat \ {0}
  BY <1>1, <1>3, <1>4 DEF ProcessOK
<1>11. ProcessOK(n + 1, qs, fs, after, gone)
  BY <1>3, <1>4, <1>6, <1>8, <1>9, <1>10 DEF ProcessOK, Tolds
<1>12. QED
  BY <1>1, <1>2, <1>11 DEF qs, after

\* A partner changes and its connection goes on; messages of it may come.
LEMMA GoesOn ==
  ASSUME NEW n, NEW ps, NEW es, NEW tolds, NEW gone, ProcessOK(n, ps, es, tolds, gone),
         NEW qs, qs = [c \in DOMAIN qs |-> qs[c]], DOMAIN qs = DOMAIN ps
  PROVE  ProcessOK(n, qs, es, tolds, gone)
  BY DEF ProcessOK

LEMMA SetMessages ==
  ASSUME NEW e, e = Event(e.just_connected, e.just_disconnected, e.messages), NEW v
  PROVE  /\ [e EXCEPT !.messages = v] = Event(e.just_connected, e.just_disconnected, v)
         /\ [e EXCEPT !.just_disconnected = v] = Event(e.just_connected, v, e.messages)
<1> DEFINE a == e.just_connected
           b == e.just_disconnected
           c == e.messages
<1>1. e = [just_connected |-> a, just_disconnected |-> b, messages |-> c]
  BY DEF Event
<1> HIDE DEF a, b, c
<1>2. QED
  BY <1>1 DEF Event, a, b, c

\* The event of one connection changes, and what was told of it.
LEMMA OneChanges ==
  ASSUME NEW n, NEW ps, NEW es, NEW tolds, NEW gone, ProcessOK(n, ps, es, tolds, gone),
         NEW c \in DOMAIN es,
         NEW qs, qs = [x \in DOMAIN qs |-> qs[x]],
         DOMAIN qs \subseteq DOMAIN ps, DOMAIN ps \ {c} \subseteq DOMAIN qs,
         NEW e, NEW told \in Tolds, EventGoesOn(e, c \in DOMAIN qs, told), ToldInOrder(told)
  PROVE  ProcessOK(n, qs, [es EXCEPT ![c] = e], [tolds EXCEPT ![c] = told], gone)
<1> DEFINE fs == [es EXCEPT ![c] = e]
           after == [tolds EXCEPT ![c] = told]
<1>1. /\ DOMAIN fs = DOMAIN es /\ fs = [x \in DOMAIN fs |-> fs[x]] /\ fs[c] = e
      /\ \A x \in DOMAIN es : x # c => fs[x] = es[x]
  BY DEF ProcessOK
<1>2. tolds \in Seq(Tolds) /\ c \in 1 .. Len(tolds) /\ Len(tolds) = n - 1 /\ n \in Nat
  BY DEF ProcessOK, Tolds
<1>3. /\ after \in Seq(Tolds) /\ Len(after) = n - 1 /\ after[c] = told
      /\ \A x \in 1 .. n - 1 : x # c => after[x] = tolds[x]
  <2> HIDE DEF Tolds
  <2>1. QED
    BY <1>2
<1> HIDE DEF fs, after
<1>4. ASSUME NEW x \in DOMAIN fs
      PROVE  EventGoesOn(fs[x], x \in DOMAIN qs, after[x])
  <2>1. CASE x = c
    BY <1>1, <1>3, <2>1
  <2>2. CASE x # c
    <3>1. x \in DOMAIN es /\ x \in 1 .. n - 1 /\ (x \in DOMAIN qs <=> x \in DOMAIN ps)
      BY <1>1, <2>2 DEF ProcessOK
    <3>2. QED
      BY <1>1, <1>3, <2>2, <3>1 DEF ProcessOK
  <2>3. QED
    BY <2>1, <2>2
<1>5. ASSUME NEW x \in 1 .. n - 1
      PROVE  /\ ToldInOrder(after[x])
             /\ after[x].connects = 1 /\ after[x].disconnects = 0 /\ x \notin gone => x \in DOMAIN fs
  <2>1. CASE x = c
    BY <1>1, <1>3, <2>1
  <2>2. CASE x # c
    BY <1>1, <1>3, <2>2 DEF ProcessOK
  <2>3. QED
    BY <2>1, <2>2
<1>6. QED
  BY <1>1, <1>3, <1>4, <1>5 DEF ProcessOK, Tolds, fs, after

\* It does not change what was told.
LEMMA EventChanges ==
  ASSUME NEW n, NEW ps, NEW es, NEW tolds, NEW gone, ProcessOK(n, ps, es, tolds, gone),
         NEW c \in DOMAIN es,
         NEW qs, qs = [x \in DOMAIN qs |-> qs[x]],
         DOMAIN qs \subseteq DOMAIN ps, DOMAIN ps \ {c} \subseteq DOMAIN qs,
         NEW e, EventGoesOn(e, c \in DOMAIN qs, tolds[c])
  PROVE  ProcessOK(n, qs, [es EXCEPT ![c] = e], tolds, gone)
<1> DEFINE told == tolds[c]
<1>1. /\ tolds \in Seq(Tolds) /\ c \in 1 .. Len(tolds)
      /\ ToldInOrder(told)
  BY DEF ProcessOK, Tolds
<1>2. told \in Tolds /\ [tolds EXCEPT ![c] = told] = tolds
  <2> HIDE DEF Tolds
  <2>1. QED
    BY <1>1
<1>3. EventGoesOn(e, c \in DOMAIN qs, told)
  OBVIOUS
<1> HIDE DEF told
<1>4. ProcessOK(n, qs, [es EXCEPT ![c] = e], [tolds EXCEPT ![c] = told], gone)
  BY <1>1, <1>2, <1>3, OneChanges
<1>5. QED
  BY <1>2, <1>4

\* The event of one connection is dropped, with its partner if there is one.
LEMMA OneVanishes ==
  ASSUME NEW n, NEW ps, NEW es, NEW tolds, NEW gone, ProcessOK(n, ps, es, tolds, gone),
         NEW c \in DOMAIN es,
         NEW qs, qs = [x \in DOMAIN qs |-> qs[x]], DOMAIN qs = DOMAIN ps \ {c},
         NEW after \in Seq(Tolds), Len(after) = Len(tolds),
         \A x \in DOMAIN tolds : x # c => after[x] = tolds[x],
         ToldInOrder(after[c]),
         NEW parted, gone \subseteq parted,
         c \in parted \/ after[c].connects # 1 \/ after[c].disconnects # 0
  PROVE  ProcessOK(n, qs, forget(es, c), after, parted)
<1> DEFINE fs == forget(es, c)
<1>1. fs = [x \in DOMAIN fs |-> fs[x]] /\ \A x \in DOMAIN es : x # c => fs[x] = es[x]
  BY ForgetMap
<1>2. DOMAIN fs = DOMAIN es \ {c}
  BY ForgetMap
<1> HIDE DEF fs
<1>3. tolds \in Seq(Tolds) /\ Len(tolds) = n - 1 /\ DOMAIN tolds = 1 .. n - 1 /\ n \in Nat
  BY DEF ProcessOK, Tolds
<1>4. ASSUME NEW x \in DOMAIN fs
      PROVE  EventGoesOn(fs[x], x \in DOMAIN qs, after[x])
  <2>1. x \in DOMAIN es /\ x # c /\ x \in 1 .. n - 1 /\ (x \in DOMAIN qs <=> x \in DOMAIN ps)
    BY <1>2 DEF ProcessOK
  <2>2. QED
    BY <1>1, <1>3, <2>1 DEF ProcessOK
<1>5. ASSUME NEW x \in 1 .. n - 1
      PROVE  /\ ToldInOrder(after[x])
             /\ after[x].connects = 1 /\ after[x].disconnects = 0 /\ x \notin parted => x \in DOMAIN fs
  <2>1. CASE x = c
    BY <2>1
  <2>2. CASE x # c
    BY <1>2, <1>3, <2>2 DEF ProcessOK
  <2>3. QED
    BY <2>1, <2>2
<1>6. QED
  BY <1>1, <1>2, <1>3, <1>4, <1>5 DEF ProcessOK, Tolds, fs

\* Messages come over a connection that has its partner.
LEMMA Hears ==
  ASSUME NEW n, NEW ps, NEW es, NEW tolds, NEW gone, ProcessOK(n, ps, es, tolds, gone),
         NEW c \in DOMAIN ps, NEW messages \in Seq(Bodies)
  PROVE  ProcessOK(n, ps, add_messages(es, c, messages), tolds, gone)
<1> DEFINE old == es[c]
           all == old.messages \o messages
           e == [old EXCEPT !.messages = all]
<1>1. c \in DOMAIN es /\ EventGoesOn(old, c \in DOMAIN ps, tolds[c]) /\ ps = [x \in DOMAIN ps |-> ps[x]]
  BY DEF ProcessOK
<1>2. all \in Seq(Bodies)
  BY <1>1, ConcatProperties DEF EventGoesOn
<1>3. add_messages(es, c, messages) = [es EXCEPT ![c] = e]
  BY <1>1 DEF add_messages, ProcessOK
<1>4. e = Event(old.just_connected, old.just_disconnected, all)
  <2> HIDE DEF all, old
  <2>1. old = Event(old.just_connected, old.just_disconnected, old.messages)
    BY <1>1 DEF EventGoesOn
  <2>2. QED
    BY <2>1, SetMessages
<1> HIDE DEF e
<1>5. EventGoesOn(e, c \in DOMAIN ps, tolds[c])
  <2> HIDE DEF all, old
  <2>1. e.just_connected = old.just_connected /\ e.just_disconnected = old.just_disconnected
        /\ e.messages = all
    BY <1>4 DEF Event
  <2>2. QED
    BY <1>1, <1>2, <1>4, <2>1 DEF EventGoesOn
<1>6. ProcessOK(n, ps, [es EXCEPT ![c] = e], tolds, gone)
  <2> HIDE DEF old
  <2>1. QED
    BY <1>1, <1>5, EventChanges
<1>7. QED
  BY <1>3, <1>6

\* The partner is lost: if the user knows of the connection its end waits for
\* him, else he never hears of it.
LEMMA Loses ==
  ASSUME NEW n, NEW ps, NEW es, NEW tolds, NEW gone, ProcessOK(n, ps, es, tolds, gone),
         NEW c \in DOMAIN ps
  PROVE  ProcessOK(n, forget(ps, c), disconnect(es, c), tolds, gone)
<1> DEFINE qs == forget(ps, c)
           old == es[c]
           e == [old EXCEPT !.just_disconnected = TRUE]
<1>1. /\ c \in DOMAIN es /\ EventGoesOn(old, TRUE, tolds[c])
      /\ tolds \in Seq(Tolds) /\ c \in 1 .. n - 1 /\ Len(tolds) = n - 1 /\ n \in Nat
      /\ ToldInOrder(tolds[c])
  BY DEF ProcessOK, Tolds
<1>2. qs = [x \in DOMAIN qs |-> qs[x]]
  BY ForgetMap
<1>3. DOMAIN qs = DOMAIN ps \ {c}
  BY ForgetMap
<1> HIDE DEF qs
<1>4. CASE old.just_connected
  <2>1. disconnect(es, c) = forget(es, c)
    BY <1>1, <1>4 DEF disconnect
  <2>2. tolds[c].connects # 1
    BY <1>1, <1>4 DEF EventGoesOn
  <2> HIDE DEF old
  <2>3. ProcessOK(n, qs, forget(es, c), tolds, gone)
    BY <1>1, <1>2, <1>3, <2>2, OneVanishes
  <2>4. QED
    BY <2>1, <2>3 DEF qs
<1>5. CASE ~old.just_connected
  <2>1. disconnect(es, c) = [es EXCEPT ![c] = e]
    BY <1>1, <1>5 DEF disconnect
  <2>2. e = Event(old.just_connected, TRUE, old.messages)
    <3> HIDE DEF old
    <3>1. old = Event(old.just_connected, old.just_disconnected, old.messages)
      BY <1>1 DEF EventGoesOn
    <3>2. QED
      BY <3>1, SetMessages
  <2>3. EventGoesOn(e, c \in DOMAIN qs, tolds[c])
    <3> HIDE DEF old, e
    <3>1. e.just_connected = old.just_connected /\ e.just_disconnected = TRUE
          /\ e.messages = old.messages
      BY <2>2 DEF Event
    <3>2. QED
      BY <1>1, <1>3, <1>5, <2>2, <3>1 DEF EventGoesOn
  <2> HIDE DEF e
  <2>4. ProcessOK(n, qs, [es EXCEPT ![c] = e], tolds, gone)
    BY <1>1, <1>2, <1>3, <2>3, EventChanges
  <2>5. QED
    BY <2>1, <2>4 DEF qs
<1>6. QED
  BY <1>4, <1>5

\* The user leaves a connection: nothing more is told of it but, if its partner
\* is lost already, the end that waits.
LEMMA Parts ==
  ASSUME NEW n, NEW ps, NEW es, NEW tolds, NEW gone, ProcessOK(n, ps, es, tolds, gone), NEW c
  PROVE  /\ ProcessOK(n, ps, es, tolds, gone \cup {c})
         /\ c \in DOMAIN ps => ProcessOK(n, forget(ps, c), erase(es, c), tolds, gone \cup {c})
<1>1. ProcessOK(n, ps, es, tolds, gone \cup {c})
  BY DEF ProcessOK
<1>2. ASSUME c \in DOMAIN ps
      PROVE  ProcessOK(n, forget(ps, c), forget(es, c), tolds, gone \cup {c})
  <2> DEFINE qs == forget(ps, c)
  <2>1. /\ c \in DOMAIN es /\ tolds \in Seq(Tolds)
        /\ ToldInOrder(tolds[c])
    BY <1>2 DEF ProcessOK, Tolds
  <2>2. qs = [x \in DOMAIN qs |-> qs[x]]
    BY ForgetMap
  <2>3. DOMAIN qs = DOMAIN ps \ {c}
    BY ForgetMap
  <2> HIDE DEF qs
  <2>4. ProcessOK(n, qs, forget(es, c), tolds, gone \cup {c})
    BY <2>1, <2>2, <2>3, OneVanishes
  <2>5. QED
    BY <2>4 DEF qs
<1>3. QED
  BY <1>1, <1>2 DEF erase

\* The user gets the event of a connection.
LEMMA Learns ==
  ASSUME NEW n, NEW ps, NEW es, NEW tolds, NEW gone, ProcessOK(n, ps, es, tolds, gone),
         NEW c \in DOMAIN es, NEW told,
         told = [connects    |-> tolds[c].connects + (IF es[c].just_connected THEN 1 ELSE 0),
                 disconnects |-> tolds[c].disconnects + (IF es[c].just_disconnected THEN 1 ELSE 0),
                 messages    |-> tolds[c].messages \o es[c].messages]
  PROVE  ProcessOK(n, ps, event_taken(es, c), [tolds EXCEPT ![c] = told], gone)
<1> DEFINE old == es[c]
           e == Event(FALSE, FALSE, << >>)
           after == [tolds EXCEPT ![c] = told]
<1>1. /\ EventGoesOn(old, c \in DOMAIN ps, tolds[c])
      /\ tolds \in Seq(Tolds) /\ c \in 1 .. n - 1 /\ Len(tolds) = n - 1 /\ n \in Nat
      /\ ToldInOrder(tolds[c])
      /\ ps = [x \in DOMAIN ps |-> ps[x]]
  BY DEF ProcessOK, Tolds
<1>2. tolds[c] \in Tolds /\ DOMAIN tolds = 1 .. n - 1
  <2> HIDE DEF Tolds
  <2>1. QED
    BY <1>1
<1>3. /\ tolds[c].connects \in Nat /\ tolds[c].disconnects = 0 /\ tolds[c].connects <= 1
      /\ tolds[c].messages \in Seq(Bodies) /\ old.messages \in Seq(Bodies)
      /\ old.just_connected \in BOOLEAN /\ old.just_disconnected \in BOOLEAN
      /\ old.just_connected <=> tolds[c].connects = 0
      /\ old.just_connected => ~old.just_disconnected
  BY <1>1, <1>2 DEF EventGoesOn, ToldInOrder, Tolds
<1>4. told.messages \in Seq(Bodies)
  BY <1>3, ConcatProperties
<1>5. told.connects = 1 /\ told.disconnects = IF old.just_disconnected THEN 1 ELSE 0
  BY <1>3
<1>6. told \in Tolds /\ ToldInOrder(told)
  <2>1. told = [connects |-> told.connects, disconnects |-> told.disconnects, messages |-> told.messages]
    OBVIOUS
  <2>2. QED
    BY <1>4, <1>5, <2>1 DEF Tolds, ToldInOrder
<1>7. /\ after \in Seq(Tolds) /\ Len(after) = n - 1 /\ after[c] = told
      /\ \A x \in DOMAIN tolds : x # c => after[x] = tolds[x]
  <2> HIDE DEF Tolds
  <2>1. QED
    BY <1>1, <1>2, <1>6
<1>8. CASE old.just_disconnected
  <2>1. event_taken(es, c) = forget(es, c) /\ c \notin DOMAIN ps
    BY <1>1, <1>8 DEF event_taken, EventGoesOn
  <2> HIDE DEF old, after, e
  <2>2. DOMAIN ps = DOMAIN ps \ {c}
    BY <2>1
  <2>3. after[c].disconnects # 0 /\ ToldInOrder(after[c]) /\ Len(after) = Len(tolds)
    BY <1>1, <1>5, <1>6, <1>7, <1>8
  <2>4. ProcessOK(n, ps, forget(es, c), after, gone)
    BY <1>1, <1>7, <2>2, <2>3, OneVanishes
  <2>5. QED
    BY <2>1, <2>4 DEF after
<1>9. CASE ~old.just_disconnected
  <2>1. event_taken(es, c) = [es EXCEPT ![c] = e]
    BY <1>9 DEF event_taken
  <2>2. EventGoesOn(e, c \in DOMAIN ps, told)
    BY <1>1, <1>5, <1>9 DEF EventGoesOn, Event
  <2> HIDE DEF old, after, e
  <2>3. ProcessOK(n, ps, [es EXCEPT ![c] = e], [tolds EXCEPT ![c] = told], gone)
    BY <1>1, <1>6, <2>2, OneChanges
  <2>4. QED
    BY <2>1, <2>3
<1>10. QED
  BY <1>3, <1>8, <1>9

-----------------------------------------------------------------------------
(* The handshake and its sessions *)

\* What the users are told follows from the tables.
LEMMA TablesTellItAll == TablesMatch => EventsTellItAll
<1> SUFFICES ASSUME TablesMatch PROVE EventsAreInOrder /\ EndIsReported
  BY DEF EventsTellItAll
<1>1. ASSUME NEW p \in Peers, NEW c \in DOMAIN seen[p]
      PROVE  /\ ToldInOrder(seen[p][c])
             /\ UserHas(p, c) => \/ c \in DOMAIN partners[p]
                                 \/ c \in DOMAIN events[p] /\ events[p][c].just_disconnected
  <2>1. /\ ProcessOK(conn_counter[p], partners[p], events[p], seen[p], left[p])
        /\ seen[p] \in Seq(Tolds) /\ Len(seen[p]) = conn_counter[p] - 1
    BY DEF TablesMatch, ProcessOK, Tolds
  <2>2. c \in 1 .. conn_counter[p] - 1 /\ seen[p][c] \in Tolds
    <3> HIDE DEF Tolds
    <3>1. QED
      BY <2>1
  <2>3. ToldInOrder(seen[p][c])
    BY <2>1, <2>2 DEF ProcessOK
  <2>4. ASSUME UserHas(p, c), c \notin DOMAIN partners[p]
        PROVE  c \in DOMAIN events[p] /\ events[p][c].just_disconnected
    <3>1. seen[p][c].connects = 1 /\ seen[p][c].disconnects = 0 /\ c \notin left[p]
      BY <2>2, <2>3, <2>4 DEF UserHas, ToldInOrder, Tolds
    <3>2. c \in DOMAIN events[p]
      BY <2>1, <2>2, <3>1 DEF ProcessOK
    <3>3. EventGoesOn(events[p][c], c \in DOMAIN partners[p], seen[p][c])
      BY <2>1, <3>2 DEF ProcessOK
    <3>4. QED
      BY <2>4, <3>2, <3>3 DEF EventGoesOn
  <2>5. QED
    BY <2>3, <2>4
<1>2. QED
  BY <1>1 DEF EventsAreInOrder, EndIsReported

\* A datagram that travels is one that was meant, with its numbers cut.
LEMMA Travels ==
  ASSUME NEW d \in Datagrams
  PROVE  Wire(d) \in Datagrams /\ Wire(Wire(d)) = Wire(d) /\ Wire(d).msg_kind \in {"p", "m"}
<1>1. \A id \in Nat : convert_msg_to_rem(id) \in Nat
  BY MsgIdEndAssumption DEF convert_msg_to_rem
<1>2. \A id \in Nat : convert_msg_to_rem(convert_msg_to_rem(id)) = convert_msg_to_rem(id)
  BY MsgIdEndAssumption DEF convert_msg_to_rem
<1>3. QED
  BY <1>1, <1>2 DEF Datagrams, Wire

LEMMA SendsDatagram ==
  ASSUME NEW p, NEW c, NEW d \in Datagrams
  PROVE  DatagramOK(Addressed(p, c, d))
<1>1. Wire(d) \in Datagrams /\ Wire(Wire(d)) = Wire(d) /\ d.msg_kind \in {"p", "m"}
  BY Travels, WireType
<1>2. Addressed(p, c, d).msg_kind = d.msg_kind /\ Addressed(p, c, d).link = Wire(d)
  BY DEF Addressed
<1>3. QED
  BY <1>1, <1>2 DEF DatagramOK

\* The tables of both processes, with their types.
TablesOK ==
  /\ TablesMatch
  /\ partners = [p \in Peers |-> partners[p]]
  /\ events = [p \in Peers |-> events[p]]
  /\ seen = [p \in Peers |-> seen[p]]
  /\ left = [p \in Peers |-> left[p]]
  /\ conn_counter \in [Peers -> Nat]
  /\ \A p \in Peers : \A c \in DOMAIN partners[p] : PartnerOfSessionOK(partners[p][c])

\* The rest of the state.
RestOK ==
  /\ server_boot_id \in 0 .. BootEnd - 1
  /\ accepted_sessions \subseteq Sessions
  /\ session_id_counter \in Nat
  /\ my_conn_request \subseteq [hash : Nat, sender_msg_id : InitialIds]
  /\ requests \in Nat
  /\ \A d \in net : DatagramOK(d)
  /\ restarts \in [Peers -> Nat]
  /\ session_of \in [Peers -> Seq(BootsAndSessions)]
  /\ origin \in [Peers -> Seq([of : BootsAndSessions, conn : Nat, restart : Nat])]
  /\ numbered \in [Peers -> [BootsAndSessions -> Seq(Bodies)]]
  /\ \A p \in Peers : Len(session_of[p]) = conn_counter[p] - 1

SessionInv == TablesOK /\ RestOK /\ OnePartnerPerSession

LEMMA InvParts == SessionInv <=> TypeOK /\ OnePartnerPerSession /\ TablesMatch
  BY DEF SessionInv, TypeOK, TablesOK, RestOK

\* What the tables of p become in a step.
Become(p, n, ps, es, tolds, gone) ==
  /\ conn_counter' = [conn_counter EXCEPT ![p] = n]
  /\ partners' = [partners EXCEPT ![p] = ps]
  /\ events' = [events EXCEPT ![p] = es]
  /\ seen' = [seen EXCEPT ![p] = tolds]
  /\ left' = [left EXCEPT ![p] = gone]

\* The tables of one process change, and match.
LEMMA OneProcessChanges ==
  ASSUME TablesOK, NEW p \in Peers, NEW n, NEW ps, NEW es, NEW tolds, NEW gone,
         ProcessOK(n, ps, es, tolds, gone), \A c \in DOMAIN ps : PartnerOfSessionOK(ps[c]),
         Become(p, n, ps, es, tolds, gone)
  PROVE  TablesOK'
<1>1. /\ partners' = [q \in Peers |-> partners'[q]] /\ partners'[p] = ps
      /\ \A q \in Peers : q # p => partners'[q] = partners[q]
  BY DEF TablesOK, Become
<1>2. /\ events' = [q \in Peers |-> events'[q]] /\ events'[p] = es
      /\ \A q \in Peers : q # p => events'[q] = events[q]
  BY DEF TablesOK, Become
<1>3. /\ seen' = [q \in Peers |-> seen'[q]] /\ seen'[p] = tolds
      /\ \A q \in Peers : q # p => seen'[q] = seen[q]
  BY DEF TablesOK, Become
<1>4. /\ left' = [q \in Peers |-> left'[q]] /\ left'[p] = gone
      /\ \A q \in Peers : q # p => left'[q] = left[q]
  BY DEF TablesOK, Become
<1>5. /\ conn_counter' \in [Peers -> Nat] /\ conn_counter'[p] = n
      /\ \A q \in Peers : q # p => conn_counter'[q] = conn_counter[q]
  BY DEF TablesOK, ProcessOK, Become
<1>6. ASSUME NEW q \in Peers
      PROVE  /\ ProcessOK(conn_counter'[q], partners'[q], events'[q], seen'[q], left'[q])
             /\ \A c \in DOMAIN partners'[q] : PartnerOfSessionOK(partners'[q][c])
  <2>1. CASE q = p
    BY <1>1, <1>2, <1>3, <1>4, <1>5, <2>1
  <2>2. CASE q # p
    BY <1>1, <1>2, <1>3, <1>4, <1>5, <2>2 DEF TablesOK, TablesMatch
  <2>3. QED
    BY <2>1, <2>2
<1>7. QED
  BY <1>1, <1>2, <1>3, <1>4, <1>5, <1>6 DEF TablesOK, TablesMatch

\* What is left alone is there as it was.
LEMMA LeftAlone ==
  ASSUME TablesOK, NEW p \in Peers
  PROVE  /\ conn_counter = [conn_counter EXCEPT ![p] = conn_counter[p]]
         /\ partners = [partners EXCEPT ![p] = partners[p]]
         /\ events = [events EXCEPT ![p] = events[p]]
         /\ seen = [seen EXCEPT ![p] = seen[p]]
         /\ left = [left EXCEPT ![p] = left[p]]
         /\ ProcessOK(conn_counter[p], partners[p], events[p], seen[p], left[p])
  BY DEF TablesOK, TablesMatch

\* What Handle leaves of the partner and of the events, `q` and `messages` given.
Taken(p, c, known_events, d, q, messages) ==
  /\ partners' = [partners EXCEPT ![p] =
       store(@, c, [server_boot_id |-> d.server_boot_id, session_id |-> d.session_id, link |-> q])]
  /\ events' = [events EXCEPT ![p] = add_messages(known_events, c, messages)]

\* A partner takes a datagram, and the user of the process its messages.
LEMMA HandleGives ==
  ASSUME NEW p, NEW c, NEW link, PartnerOK(link), NEW known_events, NEW d, DatagramOK(d),
         d.msg_kind \in {"p", "m"}, Handle(p, c, link, known_events, d)
  PROVE  \E q, messages :
           PartnerOK(q) /\ messages \in Seq(Bodies) /\ Taken(p, c, known_events, d, q, messages)
<1>1. PICK survive \in 0 .. HistoryMax - 1 :
        \E result \in {handle_valid_message(link, d.link, survive)} :
          /\ partners' = [partners EXCEPT ![p] =
               store(@, c, [server_boot_id |-> d.server_boot_id, session_id |-> d.session_id,
                            link |-> result.partner])]
          /\ events' = [events EXCEPT ![p] = add_messages(known_events, c, result.messages)]
  BY DEF Handle
<1> DEFINE result == handle_valid_message(link, d.link, survive)
<1>2. d.link \in Datagrams /\ d.link = Wire(d.link) /\ survive \in Nat
  BY PartnerAssumption DEF DatagramOK
<1>3. PartnerOK(result.partner) /\ result.messages \in Seq(Bodies)
  BY <1>2, HandleValidOK
<1> HIDE DEF result
<1>4. /\ partners' = [partners EXCEPT ![p] =
           store(@, c, [server_boot_id |-> d.server_boot_id, session_id |-> d.session_id,
                        link |-> result.partner])]
      /\ events' = [events EXCEPT ![p] = add_messages(known_events, c, result.messages)]
  BY <1>1 DEF result
<1>5. QED
  BY <1>3, <1>4 DEF Taken

\* Partners that were there may change or go, and keep their sessions.
LEMMA OnePartnerKept ==
  ASSUME OnePartnerPerSession, my_conn_request' \subseteq my_conn_request,
         \A p \in Peers :
           /\ DOMAIN partners'[p] \subseteq DOMAIN partners[p]
           /\ \A c \in DOMAIN partners'[p] : partners'[p][c].session_id = partners[p][c].session_id
  PROVE  OnePartnerPerSession'
<1>1. "client" \in Peers /\ "server" \in Peers
  BY DEF Peers
<1>2. /\ DOMAIN partners'["client"] \subseteq DOMAIN partners["client"]
      /\ DOMAIN partners'["server"] \subseteq DOMAIN partners["server"]
      /\ \A c \in DOMAIN partners'["server"] :
           partners'["server"][c].session_id = partners["server"][c].session_id
  BY <1>1
<1>3. my_conn_request' # {} => DOMAIN partners'["client"] = {}
  BY <1>2 DEF OnePartnerPerSession
<1>4. QED
  BY <1>2, <1>3 DEF OnePartnerPerSession

\* One partner's link changes, and no event.
LEMMA LinkChanges ==
  ASSUME TablesOK, OnePartnerPerSession, NEW p \in Peers, NEW c \in DOMAIN partners[p],
         NEW q, PartnerOK(q), partners' = [partners EXCEPT ![p][c].link = q],
         UNCHANGED <<conn_counter, events, seen, left, my_conn_request>>
  PROVE  TablesOK' /\ OnePartnerPerSession'
<1> DEFINE ps == partners[p]
           old == ps[c]
           new == [old EXCEPT !.link = q]
           qs == [ps EXCEPT ![c] = new]
<1>1. /\ partners' = [partners EXCEPT ![p] = qs]
      /\ ps = [x \in DOMAIN ps |-> ps[x]]
      /\ PartnerOfSessionOK(old)
  BY DEF TablesOK, TablesMatch, ProcessOK
<1>2. PartnerOfSessionOK(new) /\ new.session_id = old.session_id
  <2> HIDE DEF old
  <2>1. PICK b, s, l : old = [server_boot_id |-> b, session_id |-> s, link |-> l]
    BY <1>1 DEF PartnerOfSessionOK
  <2>2. new = [server_boot_id |-> b, session_id |-> s, link |-> q]
    BY <2>1
  <2>3. QED
    BY <1>1, <2>1, <2>2 DEF PartnerOfSessionOK
<1>3. /\ qs = [x \in DOMAIN qs |-> qs[x]] /\ DOMAIN qs = DOMAIN ps /\ qs[c] = new
      /\ \A x \in DOMAIN ps : x # c => qs[x] = ps[x]
  BY <1>1
<1> HIDE DEF new, qs
<1>4. /\ \A x \in DOMAIN qs : PartnerOfSessionOK(qs[x])
      /\ \A x \in DOMAIN qs : qs[x].session_id = ps[x].session_id
  BY <1>2, <1>3 DEF TablesOK
<1>5. ProcessOK(conn_counter[p], qs, events[p], seen[p], left[p])
  BY <1>3, GoesOn, LeftAlone
<1>6. TablesOK'
  <2> DEFINE n == conn_counter[p]
             es == events[p]
             tolds == seen[p]
             gone == left[p]
  <2>1. Become(p, n, qs, es, tolds, gone)
    BY <1>1, LeftAlone DEF Become
  <2>2. ProcessOK(n, qs, es, tolds, gone) /\ \A x \in DOMAIN qs : PartnerOfSessionOK(qs[x])
    BY <1>4, <1>5
  <2> HIDE DEF ps, n, es, tolds, gone
  <2>3. QED
    BY <2>1, <2>2, OneProcessChanges
<1>7. \A x \in Peers : partners'[x] = IF x = p THEN qs ELSE partners[x]
  BY <1>1 DEF TablesOK
<1>8. OnePartnerPerSession'
  BY <1>3, <1>4, <1>7, OnePartnerKept
<1>9. QED
  BY <1>6, <1>8

-----------------------------------------------------------------------------
(* Every step keeps the invariant *)

LEMMA SendInitKeeps == SessionInv /\ SendInit => SessionInv'
<1> SUFFICES ASSUME TablesOK, RestOK, OnePartnerPerSession, SendInit
             PROVE  TablesOK' /\ RestOK' /\ OnePartnerPerSession'
  BY DEF SessionInv
<1>1. /\ my_conn_request' \subseteq [hash : Nat, sender_msg_id : InitialIds]
      /\ requests' \in Nat
  <2>1. CASE my_conn_request # {}
    BY DEF SendInit, RestOK, client
  <2>2. CASE my_conn_request = {}
    BY <2>2 DEF SendInit, RestOK, client
  <2>3. QED
    BY <2>1, <2>2
<1>2. ASSUME NEW d \in net' PROVE DatagramOK(d)
  <2>1. CASE d \in net
    BY <2>1 DEF RestOK
  <2>2. CASE d \notin net
    <3>1. PICK r \in my_conn_request' :
            d = [msg_kind |-> "i", to |-> "server", sender_msg_id |-> r.sender_msg_id,
                 data |-> r.hash]
      BY <2>2 DEF SendInit
    <3>2. r.sender_msg_id \in InitialIds /\ r.hash \in Nat
      BY <1>1
    <3>3. QED
      BY <3>1, <3>2 DEF DatagramOK
  <2>3. QED
    BY <2>1, <2>2
<1>3. UNCHANGED <<partners, events, seen, left, conn_counter, restarts, session_of, origin, numbered,
                  server_boot_id, accepted_sessions, session_id_counter>>
  BY DEF SendInit, server, history
<1>4. TablesOK'
  BY <1>3 DEF TablesOK, TablesMatch
<1>5. RestOK'
  BY <1>1, <1>2, <1>3 DEF RestOK
<1>6. OnePartnerPerSession'
  BY <1>3 DEF SendInit, OnePartnerPerSession
<1>7. QED
  BY <1>4, <1>5, <1>6

\* What a request of the client is answered with.
LEMMA AnswersType ==
  ASSUME RestOK, NEW hash \in Nat, NEW his \in InitialIds, NEW mine \in InitialIds,
         NEW r \in get_or_create_session_id(hash, his, mine)
  PROVE  /\ r.session \in Sessions /\ r.accepted \subseteq Sessions /\ r.counter \in Nat
<1> DEFINE known == {s \in accepted_sessions : s.hash = hash}
           kept == erase_old_session_ids(accepted_sessions)
           fresh(n) == [hash |-> hash, session_id |-> n % SessionEnd,
                        his_initial_msg_id |-> his, my_initial_msg_id |-> mine]
<1>1. CASE known # {}
  <2>1. \E s \in known : r = [session |-> s, accepted |-> accepted_sessions,
                              counter |-> session_id_counter]
    BY <1>1 DEF get_or_create_session_id
  <2>2. QED
    BY <2>1 DEF RestOK
<1>2. CASE known = {}
  <2>1. PICK n \in fresh_counters(kept) :
          r = [session |-> fresh(n), accepted |-> kept \cup {fresh(n)}, counter |-> n + 1]
    BY <1>2 DEF get_or_create_session_id
  <2>2. n \in Nat
    BY SessionAssumption DEF fresh_counters, RestOK
  <2>3. n % SessionEnd \in 0 .. SessionEnd - 1
    BY <2>2, SessionAssumption
  <2>4. fresh(n) \in Sessions
    BY <2>3 DEF Sessions
  <2>5. kept \subseteq Sessions
    BY DEF erase_old_session_ids, RestOK
  <2>6. QED
    BY <2>1, <2>2, <2>4, <2>5
<1>3. QED
  BY <1>1, <1>2

LEMMA ReceiveInitKeeps ==
  ASSUME SessionInv, NEW d \in net, ReceiveInit(d)
  PROVE  SessionInv'
<1> USE DEF SessionInv
<1>1. TablesOK /\ RestOK /\ OnePartnerPerSession
  OBVIOUS
<1>2. d.msg_kind = "i" /\ d.data \in Nat /\ d.sender_msg_id \in InitialIds
  BY <1>1 DEF ReceiveInit, RestOK, DatagramOK
<1>3. PICK my_initial \in InitialIds :
        \E r \in get_or_create_session_id(d.data, d.sender_msg_id, my_initial) :
          /\ accepted_sessions' = r.accepted
          /\ session_id_counter' = r.counter
          /\ net' = net \cup {[msg_kind |-> "a", to |-> "client", server_boot_id |-> server_boot_id,
                               session_id |-> r.session.session_id,
                               sender_msg_id |-> r.session.my_initial_msg_id, data |-> d.data]}
  BY DEF ReceiveInit
<1>4. PICK r \in get_or_create_session_id(d.data, d.sender_msg_id, my_initial) :
        /\ accepted_sessions' = r.accepted
        /\ session_id_counter' = r.counter
        /\ net' = net \cup {[msg_kind |-> "a", to |-> "client", server_boot_id |-> server_boot_id,
                             session_id |-> r.session.session_id,
                             sender_msg_id |-> r.session.my_initial_msg_id, data |-> d.data]}
  BY <1>3
<1>5. r.session \in Sessions /\ r.accepted \subseteq Sessions /\ r.counter \in Nat
  BY <1>1, <1>2, <1>4, AnswersType
<1>6. ASSUME NEW e \in net' PROVE DatagramOK(e)
  <2>1. CASE e \in net
    BY <1>1, <2>1 DEF RestOK
  <2>2. CASE e \notin net
    <3>1. /\ e.msg_kind = "a" /\ e.session_id = r.session.session_id
          /\ e.sender_msg_id = r.session.my_initial_msg_id /\ e.server_boot_id = server_boot_id
      BY <1>4, <2>2
    <3>2. e.session_id \in 0 .. SessionEnd - 1 /\ e.sender_msg_id \in InitialIds
      BY <1>5, <3>1 DEF Sessions
    <3>3. QED
      BY <1>1, <3>1, <3>2 DEF DatagramOK, RestOK
  <2>3. QED
    BY <2>1, <2>2
<1>7. UNCHANGED <<partners, events, seen, left, conn_counter, restarts, session_of, origin, numbered,
                  server_boot_id, my_conn_request, requests>>
  BY DEF ReceiveInit, client, history
<1>8. TablesOK'
  BY <1>1, <1>7 DEF TablesOK, TablesMatch
<1>9. RestOK'
  BY <1>1, <1>4, <1>5, <1>6, <1>7 DEF RestOK
<1>10. OnePartnerPerSession'
  BY <1>1, <1>7 DEF OnePartnerPerSession
<1>11. QED
  BY <1>8, <1>9, <1>10

\* What a new connection adds to the history has its type.
LEMMA ConnectedType ==
  ASSUME RestOK, TablesOK, NEW p \in Peers, NEW b \in 0 .. BootEnd - 1, NEW s \in 0 .. SessionEnd - 1,
         Connected(p, b, s)
  PROVE  /\ session_of' \in [Peers -> Seq(BootsAndSessions)]
         /\ \A q \in Peers : Len(session_of'[q]) = conn_counter'[q] - 1
<1>1. <<b, s>> \in BootsAndSessions
  BY DEF BootsAndSessions
<1>2. /\ session_of \in [Peers -> Seq(BootsAndSessions)]
      /\ conn_counter \in [Peers -> Nat]
      /\ \A q \in Peers : Len(session_of[q]) = conn_counter[q] - 1
  BY DEF RestOK, TablesOK
<1> HIDE DEF BootsAndSessions
<1>3. /\ session_of' = [session_of EXCEPT ![p] = Append(@, <<b, s>>)]
      /\ conn_counter' = [conn_counter EXCEPT ![p] = @ + 1]
  BY DEF Connected
<1>4. /\ Append(session_of[p], <<b, s>>) \in Seq(BootsAndSessions)
      /\ Len(Append(session_of[p], <<b, s>>)) = conn_counter[p]
  BY <1>1, <1>2
<1>5. QED
  BY <1>2, <1>3, <1>4

LEMMA InitialIdsType == InitialIds \subseteq Nat
  BY SessionAssumption, MsgIdEndAssumption

LEMMA ReceiveAcceptKeeps ==
  ASSUME SessionInv, NEW d \in net, ReceiveAccept(d)
  PROVE  SessionInv'
<1> USE DEF SessionInv
<1> DEFINE p == "client"
           n == conn_counter[p]
           ps == partners[p]
           es == events[p]
           tolds == seen[p]
           gone == left[p]
<1>1. /\ d.session_id \in 0 .. SessionEnd - 1 /\ d.server_boot_id \in 0 .. BootEnd - 1
      /\ d.sender_msg_id \in InitialIds
  BY DEF ReceiveAccept, RestOK, DatagramOK
<1>2. PICK r \in my_conn_request :
        /\ my_conn_request' = {}
        /\ partners' = [partners EXCEPT ![p] =
             insert(@, n, [server_boot_id |-> d.server_boot_id, session_id |-> d.session_id,
                           link |-> new_link(r.sender_msg_id, d.sender_msg_id)])]
  BY DEF ReceiveAccept, request_after
<1> DEFINE x == [server_boot_id |-> d.server_boot_id, session_id |-> d.session_id,
                 link |-> new_link(r.sender_msg_id, d.sender_msg_id)]
           qs == store(ps, n, x)
           fs == connect(es, n)
           after == Append(tolds, NotSeen)
<1>3. PartnerOfSessionOK(x)
  <2>1. r.sender_msg_id \in Nat /\ d.sender_msg_id \in Nat
    BY <1>1, InitialIdsType DEF RestOK
  <2>2. PartnerOK(new_link(r.sender_msg_id, d.sender_msg_id))
    BY <2>1, NewPartnerOK DEF new_link
  <2>3. QED
    BY <1>1, <2>2 DEF PartnerOfSessionOK
<1>4. p \in Peers /\ DOMAIN ps = {}
  BY <1>2 DEF OnePartnerPerSession, Peers
<1>5. ProcessOK(n, ps, es, tolds, gone)
  BY <1>4, LeftAlone
<1>6. insert(ps, n, x) = qs
  BY <1>4 DEF insert
<1>7. DOMAIN qs = {n} /\ qs[n] = x
  <2> HIDE DEF x, ps, n
  <2>1. DOMAIN qs = DOMAIN ps \cup {n}
    BY StoreMap
  <2>2. qs[n] = x
    BY StoreMap
  <2>3. QED
    BY <1>4, <2>1, <2>2
<1>8. Become(p, n + 1, qs, fs, after, gone)
  <2>1. /\ conn_counter' = [conn_counter EXCEPT ![p] = n + 1]
        /\ seen' = [seen EXCEPT ![p] = after]
        /\ events' = [events EXCEPT ![p] = fs]
        /\ left' = [left EXCEPT ![p] = gone]
    BY <1>4, LeftAlone DEF ReceiveAccept, Connected
  <2>2. partners' = [partners EXCEPT ![p] = qs]
    BY <1>2, <1>6
  <2>3. QED
    BY <2>1, <2>2 DEF Become
<1> HIDE DEF x
<1>9. ProcessOK(n + 1, qs, fs, after, gone)
  <2> HIDE DEF n, ps, es, tolds, gone
  <2>1. QED
    BY <1>5, Begins
<1>10. TablesOK'
  <2> DEFINE next == n + 1
  <2>1. /\ ProcessOK(next, qs, fs, after, gone) /\ Become(p, next, qs, fs, after, gone)
        /\ \A c \in DOMAIN qs : PartnerOfSessionOK(qs[c])
    BY <1>3, <1>7, <1>8, <1>9
  <2> HIDE DEF next, qs, fs, after, gone
  <2>2. QED
    BY <1>4, <2>1, OneProcessChanges
<1>11. RestOK'
  <2>1. Connected(p, d.server_boot_id, d.session_id)
    BY DEF ReceiveAccept
  <2>2. /\ session_of' \in [Peers -> Seq(BootsAndSessions)]
        /\ \A q \in Peers : Len(session_of'[q]) = conn_counter'[q] - 1
    BY <1>1, <1>4, <2>1, ConnectedType
  <2>3. UNCHANGED <<server_boot_id, accepted_sessions, session_id_counter, net, requests,
                    restarts, origin, numbered>>
    BY DEF ReceiveAccept, server, history
  <2>4. QED
    BY <1>2, <2>2, <2>3 DEF RestOK
<1>12. OnePartnerPerSession'
  <2>1. partners'[p] = qs /\ partners'["server"] = partners["server"]
    BY <1>4, <1>8 DEF Become, TablesOK, Peers
  <2>2. QED
    BY <1>2, <1>7, <2>1 DEF OnePartnerPerSession
<1>13. QED
  BY <1>10, <1>11, <1>12

LEMMA ReceiveFromPartnerKeeps ==
  ASSUME SessionInv, NEW p \in Peers, NEW d \in net, ReceiveFromPartner(p, d)
  PROVE  SessionInv'
<1> USE DEF SessionInv
<1> DEFINE n == conn_counter[p]
           ps == partners[p]
           es == events[p]
           tolds == seen[p]
           gone == left[p]
<1>1. DatagramOK(d) /\ d.msg_kind \in {"p", "m"}
  BY DEF ReceiveFromPartner, RestOK
<1>2. PICK c \in find_by_session_id(p, d.session_id) :
        /\ is_same_boot(d.server_boot_id, partners[p][c].server_boot_id)
        /\ Handle(p, c, partners[p][c].link, events[p], d)
  BY DEF ReceiveFromPartner
<1>3. /\ c \in DOMAIN ps /\ ps[c].session_id = d.session_id
      /\ ps[c].server_boot_id = d.server_boot_id
      /\ PartnerOfSessionOK(ps[c])
  BY <1>2 DEF find_by_session_id, is_same_boot, TablesOK
<1>4. PartnerOK(partners[p][c].link)
  BY <1>3 DEF PartnerOfSessionOK
<1>5. PICK q, messages :
        PartnerOK(q) /\ messages \in Seq(Bodies) /\ Taken(p, c, events[p], d, q, messages)
  BY <1>1, <1>2, <1>4, HandleGives
<1> DEFINE x == [server_boot_id |-> d.server_boot_id, session_id |-> d.session_id, link |-> q]
           qs == store(ps, c, x)
           fs == add_messages(es, c, messages)
<1>6. PartnerOfSessionOK(x) /\ x.session_id = ps[c].session_id
  BY <1>3, <1>5 DEF PartnerOfSessionOK
<1>7. Become(p, n, qs, fs, tolds, gone)
  <2>1. /\ conn_counter' = [conn_counter EXCEPT ![p] = n]
        /\ seen' = [seen EXCEPT ![p] = tolds]
        /\ left' = [left EXCEPT ![p] = gone]
    BY LeftAlone DEF ReceiveFromPartner
  <2>2. QED
    BY <1>5, <2>1 DEF Become, Taken
<1>8. ProcessOK(n, ps, es, tolds, gone)
  BY LeftAlone
<1> HIDE DEF x
<1>9. qs = [y \in DOMAIN qs |-> qs[y]] /\ qs[c] = x /\ \A y \in DOMAIN ps : y # c => qs[y] = ps[y]
  <2>1. qs = [y \in DOMAIN qs |-> qs[y]]
    BY StoreMap
  <2>2. qs[c] = x
    BY StoreMap
  <2>3. \A y \in DOMAIN ps : y # c => qs[y] = ps[y]
    BY StoreMap
  <2>4. QED
    BY <2>1, <2>2, <2>3
<1>10. DOMAIN qs = DOMAIN ps
  <2>1. DOMAIN qs = DOMAIN ps \cup {c}
    BY StoreMap
  <2>2. QED
    BY <1>3, <2>1
<1> HIDE DEF n, ps, es, tolds, gone, qs
<1>11. ProcessOK(n, qs, fs, tolds, gone)
  <2>1. ProcessOK(n, qs, es, tolds, gone)
    BY <1>8, <1>9, <1>10, GoesOn
  <2>2. QED
    BY <1>3, <1>5, <1>10, <2>1, Hears
<1>12. \A y \in DOMAIN qs : PartnerOfSessionOK(qs[y]) /\ qs[y].session_id = ps[y].session_id
  BY <1>3, <1>6, <1>9, <1>10 DEF TablesOK, ps
<1> HIDE DEF fs
<1>13. TablesOK'
  BY <1>7, <1>11, <1>12, OneProcessChanges
<1>14. RestOK'
  BY DEF ReceiveFromPartner, server, client, RestOK
<1>15. OnePartnerPerSession'
  <2>1. \A y \in Peers : partners'[y] = IF y = p THEN qs ELSE partners[y]
    BY <1>7 DEF Become, TablesOK
  <2>2. my_conn_request' = my_conn_request
    BY DEF ReceiveFromPartner, client
  <2>3. QED
    BY <1>10, <1>12, <2>1, <2>2, OnePartnerKept DEF ps
<1>16. QED
  BY <1>13, <1>14, <1>15

LEMMA ReceiveFirstKeeps ==
  ASSUME SessionInv, NEW d \in net, ReceiveFirst(d)
  PROVE  SessionInv'
<1> USE DEF SessionInv
<1> DEFINE p == "server"
           n == conn_counter[p]
           ps == partners[p]
           es == events[p]
           tolds == seen[p]
           gone == left[p]
<1>1. DatagramOK(d) /\ d.msg_kind \in {"p", "m"} /\ p \in Peers
  BY DEF ReceiveFirst, RestOK, Peers
<1>2. PICK s \in {x \in accepted_sessions : x.session_id = d.session_id} :
        /\ Handle(p, n, new_link(s.my_initial_msg_id, s.his_initial_msg_id), connect(es, n), d)
        /\ Connected(p, server_boot_id, s.session_id)
  BY DEF ReceiveFirst
<1>3. s \in Sessions /\ s.session_id = d.session_id
  BY <1>2 DEF RestOK
<1>4. /\ d.session_id \in 0 .. SessionEnd - 1 /\ d.server_boot_id \in 0 .. BootEnd - 1
      /\ s.my_initial_msg_id \in Nat /\ s.his_initial_msg_id \in Nat
  BY <1>3, InitialIdsType DEF ReceiveFirst, is_same_boot, RestOK, Sessions
<1>5. PartnerOK(new_link(s.my_initial_msg_id, s.his_initial_msg_id))
  BY <1>4, NewPartnerOK DEF new_link
<1>6. PICK q, messages :
        PartnerOK(q) /\ messages \in Seq(Bodies) /\ Taken(p, n, connect(es, n), d, q, messages)
  <2> DEFINE known == connect(es, n)
             link == new_link(s.my_initial_msg_id, s.his_initial_msg_id)
  <2>1. Handle(p, n, link, known, d) /\ PartnerOK(link)
    BY <1>2, <1>5
  <2> HIDE DEF known, link, n
  <2>2. \E q, messages :
          PartnerOK(q) /\ messages \in Seq(Bodies) /\ Taken(p, n, known, d, q, messages)
    BY <1>1, <2>1, HandleGives
  <2>3. QED
    BY <2>2 DEF known
<1> DEFINE x == [server_boot_id |-> d.server_boot_id, session_id |-> d.session_id, link |-> q]
           qs == store(ps, n, x)
           begun == connect(es, n)
           fs == add_messages(begun, n, messages)
           after == Append(tolds, NotSeen)
<1>7. PartnerOfSessionOK(x) /\ x.session_id = d.session_id
  BY <1>4, <1>6 DEF PartnerOfSessionOK
<1>8. Become(p, n + 1, qs, fs, after, gone)
  <2>1. /\ conn_counter' = [conn_counter EXCEPT ![p] = n + 1]
        /\ seen' = [seen EXCEPT ![p] = after]
        /\ left' = [left EXCEPT ![p] = gone]
    BY <1>1, <1>2, LeftAlone DEF ReceiveFirst, Connected
  <2>2. QED
    BY <1>6, <2>1 DEF Become, Taken
<1>9. ProcessOK(n, ps, es, tolds, gone) /\ messages \in Seq(Bodies)
  BY <1>1, <1>6, LeftAlone
<1>10. \A c \in DOMAIN ps : PartnerOfSessionOK(ps[c]) /\ ps[c].session_id # d.session_id
  BY <1>1 DEF TablesOK, ReceiveFirst, find_by_session_id
<1>11. \A c, other \in DOMAIN ps : ps[c].session_id = ps[other].session_id => c = other
  BY DEF OnePartnerPerSession
<1> HIDE DEF x, n, ps, es, tolds, gone, begun
<1>12. DOMAIN qs = DOMAIN ps \cup {n}
  BY StoreMap
<1>13. qs[n] = x /\ \A c \in DOMAIN ps : c # n => qs[c] = ps[c]
  <2>1. qs[n] = x
    BY StoreMap
  <2>2. \A c \in DOMAIN ps : c # n => qs[c] = ps[c]
    BY StoreMap
  <2>3. QED
    BY <2>1, <2>2
<1> DEFINE next == n + 1
<1>14. ProcessOK(next, qs, begun, after, gone) /\ n \notin DOMAIN ps
  BY <1>9, Begins DEF begun
<1>15. Become(p, next, qs, fs, after, gone)
  BY <1>8
<1> HIDE DEF qs, after, next
<1>16. ProcessOK(next, qs, fs, after, gone)
  <2>1. n \in DOMAIN qs
    BY <1>12
  <2>2. QED
    BY <1>9, <1>14, <2>1, Hears
<1> HIDE DEF fs
<1>17. \A c \in DOMAIN qs : PartnerOfSessionOK(qs[c])
  BY <1>7, <1>10, <1>12, <1>13, <1>14
<1>18. TablesOK'
  BY <1>1, <1>15, <1>16, <1>17, OneProcessChanges
<1>19. RestOK'
  <2>1. /\ session_of' \in [Peers -> Seq(BootsAndSessions)]
        /\ \A y \in Peers : Len(session_of'[y]) = conn_counter'[y] - 1
    BY <1>1, <1>2, <1>3, <1>4, ConnectedType DEF RestOK
  <2>2. UNCHANGED <<server_boot_id, accepted_sessions, session_id_counter, net, requests,
                    my_conn_request, restarts, origin, numbered>>
    BY DEF ReceiveFirst, server, client
  <2>3. QED
    BY <2>1, <2>2 DEF RestOK
<1>20. OnePartnerPerSession'
  <2>1. partners'[p] = qs /\ partners'["client"] = partners["client"]
    BY <1>1, <1>15 DEF Become, TablesOK, Peers
  <2>2. my_conn_request' = my_conn_request
    BY DEF ReceiveFirst, client
  <2>3. \A c, other \in DOMAIN qs : qs[c].session_id = qs[other].session_id => c = other
    BY <1>7, <1>10, <1>11, <1>12, <1>13, <1>14
  <2>4. QED
    BY <2>1, <2>2, <2>3 DEF OnePartnerPerSession
<1>21. QED
  BY <1>18, <1>19, <1>20

LEMMA ReceiveKeeps ==
  ASSUME SessionInv, NEW p \in Peers, NEW d \in net, Receive(p, d)
  PROVE  SessionInv'
  BY ReceiveInitKeeps, ReceiveAcceptKeeps, ReceiveFromPartnerKeeps, ReceiveFirstKeeps DEF Receive

\* The messages that p gives their numbers when its partner p becomes q.
newly_numbered(p, q) ==
  [i \in 1 .. q.my_msg_id_counter - p.my_msg_id_counter |->
     q.messages_sent[p.my_msg_id_counter + i - 1].msg]

LEMMA NewlyNumbered ==
  ASSUME NEW p, NEW q, PartnerOK(p), PartnerOK(q), Numbers(p, q)
  PROVE  /\ newly_numbered(p, q) \in Seq(Bodies)
         /\ Len(newly_numbered(p, q)) = q.my_msg_id_counter - p.my_msg_id_counter
         /\ \A i \in 1 .. q.my_msg_id_counter - p.my_msg_id_counter :
              /\ p.my_msg_id_counter + i - 1 \in DOMAIN q.messages_sent
              /\ newly_numbered(p, q)[i] = q.messages_sent[p.my_msg_id_counter + i - 1].msg
<1> DEFINE c == p.my_msg_id_counter
           n == q.my_msg_id_counter - c
<1>1. c \in Nat /\ n \in Nat /\ c + n - 1 = q.my_msg_id_counter - 1
  BY DEF PartnerOK, Numbers
<1>2. \A i \in 1 .. n : c + i - 1 \in c .. q.my_msg_id_counter - 1
  BY <1>1
<1>3. \A i \in 1 .. n : c + i - 1 \in DOMAIN q.messages_sent
  BY <1>2 DEF Numbers
<1>4. \A i \in 1 .. n : q.messages_sent[c + i - 1].msg \in Bodies
  BY <1>3 DEF PartnerOK, IsMap, SentMessages
<1> HIDE DEF n
<1>5. newly_numbered(p, q) = [i \in 1 .. n |-> q.messages_sent[c + i - 1].msg]
  BY DEF newly_numbered, n
<1>6. [i \in 1 .. n |-> q.messages_sent[c + i - 1].msg] \in Seq(Bodies)
  BY <1>1, <1>4
<1>7. QED
  BY <1>1, <1>3, <1>5, <1>6 DEF n

\* What is numbered has its type.
LEMMA NumberedType ==
  ASSUME SessionInv, NEW p \in Peers, NEW c \in DOMAIN partners[p], NEW q, PartnerOK(q),
         Numbers(partners[p][c].link, q), Numbered(p, c, q)
  PROVE  /\ session_of[p][c] \in BootsAndSessions
         /\ numbered' = [numbered EXCEPT ![p][session_of[p][c]] =
                           @ \o newly_numbered(partners[p][c].link, q)]
         /\ numbered' \in [Peers -> [BootsAndSessions -> Seq(Bodies)]]
<1> DEFINE fresh == newly_numbered(partners[p][c].link, q)
<1>1. PartnerOK(partners[p][c].link)
  BY DEF SessionInv, TablesOK, PartnerOfSessionOK
<1>2. fresh \in Seq(Bodies)
  BY <1>1, NewlyNumbered
<1>3. session_of[p][c] \in BootsAndSessions
  <2>1. /\ ProcessOK(conn_counter[p], partners[p], events[p], seen[p], left[p])
        /\ Len(session_of[p]) = conn_counter[p] - 1
        /\ session_of[p] \in Seq(BootsAndSessions)
    BY LeftAlone DEF SessionInv, RestOK
  <2>2. c \in 1 .. Len(session_of[p])
    BY <2>1 DEF ProcessOK
  <2> HIDE DEF BootsAndSessions
  <2>3. QED
    BY <2>1, <2>2
<1>4. numbered' = [numbered EXCEPT ![p][session_of[p][c]] = @ \o fresh]
  BY DEF Numbered, newly_numbered
<1> DEFINE S == Seq(Bodies)
<1>5. numbered \in [Peers -> [BootsAndSessions -> S]] /\ fresh \in S
      /\ \A s \in S : s \o fresh \in S
  BY <1>2 DEF SessionInv, RestOK
<1> HIDE DEF fresh, S, BootsAndSessions
<1>6. numbered' \in [Peers -> [BootsAndSessions -> S]]
  BY <1>3, <1>4, <1>5
<1>7. QED
  BY <1>3, <1>4, <1>6 DEF fresh, S

LEMMA SendKeeps ==
  ASSUME SessionInv, NEW p \in Peers, NEW c \in DOMAIN partners[p], Send(p, c)
  PROVE  SessionInv'
<1> USE DEF SessionInv
<1> DEFINE body == Len(origin[p]) + 1
           link == partners[p][c].link
           id == link.my_msg_id_counter
           one == prepare_messages_to_send(link, <<body>>)
           sent == note_sent(one, {id})
           queued == [link EXCEPT !.queue_to_send = Append(@, body)]
           next == IF can_send_messages(link) THEN sent ELSE queued
<1>1. PartnerOK(link)
  BY DEF TablesOK, PartnerOfSessionOK
<1>2. body \in Bodies /\ <<body>> \in Seq(Bodies)
  <2>1. Len(origin[p]) \in Nat
    BY DEF RestOK
  <2>2. body \in Bodies
    BY <2>1 DEF Bodies
  <2>3. QED
    BY <2>2
<1>3. /\ partners' = [partners EXCEPT ![p][c].link = next]
      /\ net' = net \cup (IF can_send_messages(link)
                            THEN {Addressed(p, c, send_regular_message(next, id))} ELSE {})
      /\ origin' = [origin EXCEPT ![p] = Append(@, Conn(p, c))]
      /\ UNCHANGED <<server, client, conn_counter, events, restarts, left, session_of, seen>>
  BY DEF Send
<1> HIDE DEF body, link
<1>4. PartnerOK(sent) /\ id \in DOMAIN sent.messages_sent
  <2>1. PartnerOK(one)
    BY <1>1, <1>2, PrepareOK
  <2>2. PartnerOK(sent)
    <3> HIDE DEF one
    <3>1. QED
      BY <2>1, NoteSentOK
  <2>3. id \in Nat /\ Len(<<body>>) = 1
    BY <1>1 DEF PartnerOK
  <2>4. id \in DOMAIN one.messages_sent
    <3>1. IsPartner(link)
      BY <1>1 DEF PartnerOK
    <3>2. id \in id .. id + Len(<<body>>) - 1
      BY <2>3
    <3>3. QED
      BY <3>1, <3>2 DEF prepare_messages_to_send, IsPartner
  <2>5. DOMAIN sent.messages_sent = DOMAIN one.messages_sent
    <3>1. IsPartner(one)
      BY <2>1 DEF PartnerOK
    <3> HIDE DEF one
    <3>2. QED
      BY <3>1 DEF note_sent, IsPartner
  <2>6. QED
    BY <2>2, <2>4, <2>5
<1>5. PartnerOK(queued)
  <2>1. IsPartner(link) /\ link.queue_to_send \in Seq(Bodies)
    BY <1>1 DEF PartnerOK
  <2> DEFINE more == Append(link.queue_to_send, body)
  <2>2. more \in Seq(Bodies) /\ queued = [link EXCEPT !.queue_to_send = more]
    BY <1>2, <2>1 DEF Bodies
  <2> HIDE DEF more, queued
  <2>3. queued.queue_to_send = more /\ IsPartner(queued)
    BY <2>1, <2>2 DEF IsPartner
  <2>4. /\ queued.his_msg_id_received = link.his_msg_id_received
        /\ queued.my_msg_id_received = link.my_msg_id_received
        /\ queued.my_msg_id_counter = link.my_msg_id_counter
        /\ queued.ack_window_size = link.ack_window_size
        /\ queued.number_of_datagrams_without_loss = link.number_of_datagrams_without_loss
        /\ queued.messages_sent = link.messages_sent
        /\ queued.ack_delay_history = link.ack_delay_history
        /\ queued.messages_received = link.messages_received
    BY <2>1, <2>2 DEF IsPartner
  <2>5. QED
    BY <1>1, <2>2, <2>3, <2>4 DEF PartnerOK
<1>6. PartnerOK(next)
  BY <1>4, <1>5
<1>7. can_send_messages(link) => send_regular_message(next, id) \in Datagrams
  <2>1. send_regular_message(sent, id) \in Datagrams
    <3> HIDE DEF sent, id
    <3>1. QED
      BY <1>4, SendType
  <2>2. QED
    BY <2>1
<1> HIDE DEF next, id
<1>8. TablesOK' /\ OnePartnerPerSession'
  BY <1>3, <1>6, LinkChanges DEF client
<1>9. \A d \in net' : DatagramOK(d)
  BY <1>3, <1>7, SendsDatagram DEF RestOK
<1>10. origin' \in [Peers -> Seq([of : BootsAndSessions, conn : Nat, restart : Nat])]
  <2> DEFINE Origins == [of : BootsAndSessions, conn : Nat, restart : Nat]
  <2>1. Conn(p, c) \in Origins
    <3>1. /\ ProcessOK(conn_counter[p], partners[p], events[p], seen[p], left[p])
          /\ Len(session_of[p]) = conn_counter[p] - 1
          /\ session_of[p] \in Seq(BootsAndSessions)
          /\ restarts[p] \in Nat
      BY LeftAlone DEF RestOK
    <3>2. c \in 1 .. Len(session_of[p])
      BY <3>1 DEF ProcessOK
    <3>3. session_of[p][c] \in BootsAndSessions
      <4> HIDE DEF BootsAndSessions
      <4>1. QED
        BY <3>1, <3>2
    <3>4. c \in Nat
      BY <3>2
    <3>5. QED
      BY <3>1, <3>3, <3>4 DEF Conn
  <2>2. origin \in [Peers -> Seq(Origins)]
    BY DEF RestOK
  <2> HIDE DEF Origins
  <2>3. origin' \in [Peers -> Seq(Origins)]
    BY <1>3, <2>1, <2>2
  <2>4. QED
    BY <2>3 DEF Origins
<1>11. Numbers(link, next)
  <2>1. Numbers(link, one) /\ PartnerOK(one) /\ one.my_msg_id_counter = link.my_msg_id_counter + 1
    BY <1>1, <1>2, PrepareOK
  <2> HIDE DEF one
  <2>2. Numbers(link, sent)
    BY <1>1, <1>4, <2>1, NoteSentOK, NumbersThen
  <2>3. Numbers(link, queued)
    <3>1. /\ link.my_msg_id_counter \in Nat
          /\ link.my_msg_id_counter .. link.my_msg_id_counter - 1 = {}
      BY <1>1 DEF PartnerOK
    <3>2. QED
      BY <1>1, <3>1 DEF PartnerOK, IsPartner, Numbers
  <2>4. QED
    BY <2>2, <2>3 DEF next
<1>12. numbered' \in [Peers -> [BootsAndSessions -> Seq(Bodies)]]
  <2>1. Numbered(p, c, next)
    BY DEF Send, next, id, link, body
  <2>2. QED
    BY <1>6, <1>11, <2>1, NumberedType DEF link
<1>13. RestOK'
  BY <1>3, <1>9, <1>10, <1>12 DEF RestOK, server, client
<1>14. QED
  BY <1>8, <1>13

LEMMA SendToPartnerKeeps ==
  ASSUME SessionInv, NEW p \in Peers, NEW c \in DOMAIN partners[p],
         NEW expired, NEW ping, SendToPartner(p, c, expired, ping)
  PROVE  SessionInv'
<1> USE DEF SessionInv
<1> DEFINE link == partners[p][c].link
           drained == drain_queue_to_send(link)
           due == messages_to_resend(drained, expired)
           widened == update_window(drained, due)
           next == note_sent(widened, due)
<1>1. PartnerOK(link)
  BY DEF TablesOK, PartnerOfSessionOK
<1>2. /\ partners' = [partners EXCEPT ![p][c].link = next]
      /\ net' = net \cup {Addressed(p, c, send_regular_message(drained, id)) : id \in due}
                    \cup (IF ping THEN {Addressed(p, c, send_ping_message(drained))} ELSE {})
      /\ UNCHANGED <<server, client, conn_counter, events, restarts, left, session_of, seen, origin>>
  BY DEF SendToPartner
<1> HIDE DEF link
<1>3. PartnerOK(drained)
  BY <1>1, DrainOK
<1>4. \A id \in due : send_regular_message(drained, id) \in Datagrams
  <2>1. due \subseteq DOMAIN drained.messages_sent
    BY DEF messages_to_resend
  <2> HIDE DEF drained, due
  <2>2. QED
    BY <1>3, <2>1, SendType
<1>5. send_ping_message(drained) \in Datagrams
  <2> HIDE DEF drained
  <2>1. QED
    BY <1>3, SendType
<1> HIDE DEF drained, due
<1>6. PartnerOK(widened)
  BY <1>3, UpdateWindowOK
<1> HIDE DEF widened
<1>7. PartnerOK(next)
  BY <1>6, NoteSentOK
<1> HIDE DEF next
<1>8. TablesOK' /\ OnePartnerPerSession'
  BY <1>2, <1>7, LinkChanges DEF client
<1>9. \A d \in net' : DatagramOK(d)
  BY <1>2, <1>4, <1>5, SendsDatagram DEF RestOK
<1>10. numbered' \in [Peers -> [BootsAndSessions -> Seq(Bodies)]]
  <2>1. Numbered(p, c, drained)
    BY DEF SendToPartner, drained, link
  <2>2. Numbers(link, drained)
    BY <1>1, DrainOK DEF drained
  <2>3. QED
    BY <1>3, <2>1, <2>2, NumberedType DEF link
<1>11. RestOK'
  BY <1>2, <1>9, <1>10 DEF RestOK, server, client
<1>12. QED
  BY <1>8, <1>11

LEMMA TimeOutKeeps ==
  ASSUME SessionInv, NEW p \in Peers, NEW c, TimeOut(p, c)
  PROVE  SessionInv'
<1> USE DEF SessionInv
<1> DEFINE n == conn_counter[p]
           ps == partners[p]
           es == events[p]
           tolds == seen[p]
           gone == left[p]
           qs == forget(ps, c)
           fs == disconnect(es, c)
<1>1. c \in DOMAIN ps /\ ProcessOK(n, ps, es, tolds, gone)
  BY LeftAlone DEF TimeOut
<1>2. Become(p, n, qs, fs, tolds, gone)
  BY LeftAlone DEF Become, TimeOut, erase_partner
<1>3. \A x \in DOMAIN ps : PartnerOfSessionOK(ps[x])
  BY DEF TablesOK
<1> HIDE DEF n, ps, es, tolds, gone
<1>4. ProcessOK(n, qs, fs, tolds, gone)
  BY <1>1, Loses
<1>5. DOMAIN qs = DOMAIN ps \ {c}
  BY ForgetMap
<1>6. \A x \in DOMAIN ps : x # c => qs[x] = ps[x]
  BY ForgetMap
<1>7. \A x \in DOMAIN qs : PartnerOfSessionOK(qs[x])
  BY <1>3, <1>5, <1>6
<1> HIDE DEF qs, fs
<1>8. TablesOK'
  BY <1>2, <1>4, <1>7, OneProcessChanges
<1>9. RestOK'
  BY DEF TimeOut, RestOK, server, client, history
<1>10. OnePartnerPerSession'
  <2>1. \A y \in Peers : partners'[y] = IF y = p THEN qs ELSE partners[y]
    BY <1>2 DEF Become, TablesOK
  <2>2. my_conn_request' = my_conn_request
    BY DEF TimeOut, client
  <2>3. QED
    BY <1>5, <1>6, <2>1, <2>2, OnePartnerKept DEF ps
<1>11. QED
  BY <1>8, <1>9, <1>10

LEMMA DisconnectKeeps ==
  ASSUME SessionInv, NEW p \in Peers, NEW c, Disconnect(p, c)
  PROVE  SessionInv'
<1> USE DEF SessionInv
<1> DEFINE n == conn_counter[p]
           ps == partners[p]
           es == events[p]
           tolds == seen[p]
           gone == left[p]
           parted == gone \cup {c}
           qs == forget(ps, c)
           fs == erase(es, c)
<1>1. ProcessOK(n, ps, es, tolds, gone) /\ \A x \in DOMAIN ps : PartnerOfSessionOK(ps[x])
  BY LeftAlone DEF TablesOK
<1>2. IF c \in DOMAIN ps
        THEN Become(p, n, qs, fs, tolds, parted)
        ELSE Become(p, n, ps, es, tolds, parted)
  BY LeftAlone DEF Become, Disconnect, erase_partner
<1> HIDE DEF n, ps, es, tolds, gone
<1>3. /\ ProcessOK(n, ps, es, tolds, parted)
      /\ c \in DOMAIN ps => ProcessOK(n, qs, fs, tolds, parted)
  BY <1>1, Parts
<1>4. DOMAIN qs = DOMAIN ps \ {c}
  BY ForgetMap
<1>5. \A x \in DOMAIN ps : x # c => qs[x] = ps[x]
  BY ForgetMap
<1>6. \A x \in DOMAIN qs : PartnerOfSessionOK(qs[x])
  BY <1>1, <1>4, <1>5
<1> HIDE DEF qs, fs, parted
<1>7. TablesOK'
  BY <1>1, <1>2, <1>3, <1>6, OneProcessChanges
<1>8. RestOK'
  BY DEF Disconnect, RestOK, server, client, history
<1>9. OnePartnerPerSession'
  <2>1. \A y \in Peers : partners'[y] = IF y = p THEN IF c \in DOMAIN ps THEN qs ELSE ps ELSE partners[y]
    BY <1>2 DEF Become, TablesOK
  <2>2. my_conn_request' = my_conn_request
    BY DEF Disconnect, client
  <2>3. QED
    BY <1>4, <1>5, <2>1, <2>2, OnePartnerKept DEF ps
<1>10. QED
  BY <1>7, <1>8, <1>9

LEMMA GetNewEventKeeps ==
  ASSUME SessionInv, NEW p \in Peers, NEW c, GetNewEvent(p, c)
  PROVE  SessionInv'
<1> USE DEF SessionInv
<1> DEFINE n == conn_counter[p]
           ps == partners[p]
           es == events[p]
           tolds == seen[p]
           gone == left[p]
           told == [connects    |-> tolds[c].connects + (IF es[c].just_connected THEN 1 ELSE 0),
                    disconnects |-> tolds[c].disconnects + (IF es[c].just_disconnected THEN 1 ELSE 0),
                    messages    |-> tolds[c].messages \o es[c].messages]
           fs == event_taken(es, c)
           after == [tolds EXCEPT ![c] = told]
<1>1. /\ ProcessOK(n, ps, es, tolds, gone) /\ c \in DOMAIN es
      /\ \A x \in DOMAIN ps : PartnerOfSessionOK(ps[x])
  BY LeftAlone DEF TablesOK, GetNewEvent, is_next_event
<1>2. Become(p, n, ps, fs, after, gone)
  <2>1. seen' = [seen EXCEPT ![p] = after]
    BY DEF GetNewEvent
  <2>2. QED
    BY <2>1, LeftAlone DEF Become, GetNewEvent
<1> HIDE DEF n, ps, es, tolds, gone, told
<1>3. ProcessOK(n, ps, fs, after, gone)
  <2>1. told = [connects    |-> tolds[c].connects + (IF es[c].just_connected THEN 1 ELSE 0),
                disconnects |-> tolds[c].disconnects + (IF es[c].just_disconnected THEN 1 ELSE 0),
                messages    |-> tolds[c].messages \o es[c].messages]
    BY DEF told
  <2>2. QED
    BY <1>1, <2>1, Learns
<1> HIDE DEF fs, after
<1>4. TablesOK'
  BY <1>1, <1>2, <1>3, OneProcessChanges
<1>5. RestOK' /\ OnePartnerPerSession'
  BY DEF GetNewEvent, RestOK, OnePartnerPerSession, server, client, history
<1>6. QED
  BY <1>4, <1>5

LEMMA RestartKeeps ==
  ASSUME SessionInv, NEW p \in Peers, Restart(p)
  PROVE  SessionInv'
<1> USE DEF SessionInv
<1> DEFINE ps == EmptyMap
           es == NoEvents
           tolds == << >>
           gone == {}
           one == 1
<1>1. ProcessOK(one, ps, es, tolds, gone)
  BY NothingYet
<1>2. Become(p, one, ps, es, tolds, gone)
  BY DEF Become, Restart
<1>3. DOMAIN ps = {}
  BY DEF EmptyMap
<1> HIDE DEF ps, es, tolds, gone, one
<1>4. TablesOK'
  BY <1>1, <1>2, <1>3, OneProcessChanges
<1>5. /\ server_boot_id' \in 0 .. BootEnd - 1
      /\ accepted_sessions' \subseteq Sessions
      /\ session_id_counter' \in Nat
      /\ my_conn_request' \subseteq my_conn_request
      /\ requests' = requests
  <2>1. CASE p = "server"
    <3>1. server_boot_id' = (server_boot_id + 1) % BootEnd
      BY <2>1 DEF Restart, next_boot_id
    <3>2. server_boot_id' \in 0 .. BootEnd - 1
      BY <3>1, SessionAssumption DEF RestOK
    <3>3. session_id_counter' \in SessionStarts /\ SessionStarts \subseteq 0 .. SessionEnd - 1
      BY <2>1, SessionAssumption DEF Restart
    <3>4. session_id_counter' \in Nat
      BY <3>3
    <3>5. QED
      BY <2>1, <3>2, <3>4 DEF Restart, client
  <2>2. CASE p # "server"
    BY <2>2 DEF Restart, server, RestOK
  <2>3. QED
    BY <2>1, <2>2
<1>6. /\ restarts' \in [Peers -> Nat]
      /\ session_of' \in [Peers -> Seq(BootsAndSessions)]
      /\ \A q \in Peers : Len(session_of'[q]) = conn_counter'[q] - 1
  <2> DEFINE S == Seq(BootsAndSessions)
  <2>1. << >> \in S /\ session_of \in [Peers -> S] /\ session_of' = [session_of EXCEPT ![p] = << >>]
    BY DEF Restart, RestOK
  <2>2. /\ conn_counter' = [conn_counter EXCEPT ![p] = 1] /\ conn_counter \in [Peers -> Nat]
        /\ \A q \in Peers : Len(session_of[q]) = conn_counter[q] - 1
        /\ restarts' = [restarts EXCEPT ![p] = @ + 1] /\ restarts \in [Peers -> Nat]
    BY DEF Restart, RestOK, TablesOK
  <2> HIDE DEF S
  <2>3. session_of' \in [Peers -> S]
    BY <2>1
  <2>4. restarts' \in [Peers -> Nat]
    BY <2>2
  <2>5. \A q \in Peers : Len(session_of'[q]) = conn_counter'[q] - 1
    BY <2>1, <2>2
  <2>6. QED
    BY <2>3, <2>4, <2>5 DEF S
<1>7. RestOK'
  BY <1>5, <1>6 DEF Restart, RestOK, history
<1>8. OnePartnerPerSession'
  <2>1. \A y \in Peers : partners'[y] = IF y = p THEN ps ELSE partners[y]
    BY <1>2 DEF Become, TablesOK
  <2>2. QED
    BY <1>3, <1>5, <2>1, OnePartnerKept
<1>9. QED
  BY <1>4, <1>7, <1>8

LEMMA StutterKeeps == SessionInv /\ UNCHANGED vars => SessionInv'
<1> SUFFICES ASSUME SessionInv, UNCHANGED vars PROVE SessionInv'
  OBVIOUS
<1>1. UNCHANGED <<server_boot_id, accepted_sessions, session_id_counter, my_conn_request,
                  requests, partners, conn_counter, events, net, restarts, left,
                  session_of, seen, origin, numbered>>
  BY DEF vars, server, client, history
<1>2. TablesOK'
  BY <1>1 DEF SessionInv, TablesOK, TablesMatch
<1>3. RestOK'
  BY <1>1 DEF SessionInv, RestOK
<1>4. OnePartnerPerSession'
  BY <1>1 DEF SessionInv, OnePartnerPerSession
<1>5. QED
  BY <1>2, <1>3, <1>4 DEF SessionInv

LEMMA SessionInit == Init => SessionInv
<1> SUFFICES ASSUME Init PROVE SessionInv
  OBVIOUS
<1>1. TablesMatch
  BY NothingYet DEF Init, TablesMatch
<1>2. \A p \in Peers : DOMAIN partners[p] = {} /\ conn_counter[p] = 1 /\ session_of[p] = << >>
  BY DEF Init, EmptyMap
<1>3. TablesOK
  <2>1. /\ partners = [p \in Peers |-> partners[p]]
        /\ events = [p \in Peers |-> events[p]]
        /\ seen = [p \in Peers |-> seen[p]]
        /\ left = [p \in Peers |-> left[p]]
        /\ conn_counter \in [Peers -> Nat]
    BY DEF Init
  <2>2. QED
    BY <1>1, <1>2, <2>1 DEF TablesOK
<1>4. /\ session_of \in [Peers -> Seq(BootsAndSessions)]
      /\ origin \in [Peers -> Seq([of : BootsAndSessions, conn : Nat, restart : Nat])]
      /\ restarts \in [Peers -> Nat]
      /\ numbered \in [Peers -> [BootsAndSessions -> Seq(Bodies)]]
  BY DEF Init
<1>5. \A p \in Peers : Len(session_of[p]) = conn_counter[p] - 1
  BY <1>2
<1>6. RestOK
  BY <1>4, <1>5, SessionAssumption DEF Init, RestOK
<1>7. OnePartnerPerSession
  BY <1>2 DEF OnePartnerPerSession, Init, Peers
<1>8. QED
  BY <1>3, <1>6, <1>7 DEF SessionInv

LEMMA SessionStep == SessionInv /\ [Next]_vars => SessionInv'
<1> SUFFICES ASSUME SessionInv, [Next]_vars PROVE SessionInv'
  OBVIOUS
<1>1. CASE SendInit
  BY <1>1, SendInitKeeps
<1>2. ASSUME NEW p \in Peers, \E d \in net : Receive(p, d)
      PROVE  SessionInv'
  BY <1>2, ReceiveKeeps
<1>3. ASSUME NEW p \in Peers, NEW c \in DOMAIN partners[p], Send(p, c)
      PROVE  SessionInv'
  BY <1>3, SendKeeps
<1>4. ASSUME NEW p \in Peers, NEW c \in DOMAIN partners[p],
             NEW expired \in SUBSET DOMAIN partners[p][c].link.messages_sent,
             NEW ping \in BOOLEAN, SendToPartner(p, c, expired, ping)
      PROVE  SessionInv'
  BY <1>4, SendToPartnerKeeps
<1>5. ASSUME NEW p \in Peers, NEW c, TimeOut(p, c) \/ Disconnect(p, c) \/ GetNewEvent(p, c)
      PROVE  SessionInv'
  BY <1>5, TimeOutKeeps, DisconnectKeeps, GetNewEventKeeps
<1>6. ASSUME NEW p \in Peers, Restart(p)
      PROVE  SessionInv'
  BY <1>6, RestartKeeps
<1>7. CASE UNCHANGED vars
  BY <1>7, StutterKeeps
<1>8. QED
  BY <1>1, <1>2, <1>3, <1>4, <1>5, <1>6, <1>7 DEF Next

-----------------------------------------------------------------------------
(* The theorems *)

LEMMA SessionInvariant == Spec => []SessionInv
<1>1. QED
  BY SessionInit, SessionStep, PTL DEF Spec

\* However often requests, answers and first datagrams are repeated, and in
\* whatever order they come, a process has one partner in a session and a client
\* has one partner: the look-ups of cm_ip_udp_partner_list.cc find the right one.
THEOREM SessionsStaySound == Spec => []SessionsAreSound
<1>1. SessionInv => SessionsAreSound
  BY InvParts DEF SessionsAreSound
<1>2. QED
  BY <1>1, SessionInvariant, PTL

\* The user of a transport is told of each connection that it began, what came
\* over it and that it ended, in this order and each once, whatever time-outs,
\* disconnects, restarts and pick-ups of events cross; and the end of a
\* connection he still has is never kept from him.
THEOREM TheUserIsToldItAll == Spec => []EventsTellItAll
<1>1. SessionInv => EventsTellItAll
  BY InvParts, TablesTellItAll
<1>2. QED
  BY <1>1, SessionInvariant, PTL

\* What was told of a connection that has ended stays as it is.
LEMMA EndedStays ==
  ASSUME SessionInv, [Next]_vars, NEW p \in Peers, restarts'[p] = restarts[p],
         NEW c \in DOMAIN seen[p], seen[p][c].disconnects > 0
  PROVE  seen'[p][c] = seen[p][c]
<1>1. /\ seen[p] \in Seq(Tolds) /\ seen = [q \in Peers |-> seen[q]]
      /\ ProcessOK(conn_counter[p], partners[p], events[p], seen[p], left[p])
      /\ restarts \in [Peers -> Nat]
  BY LeftAlone DEF SessionInv, RestOK, TablesOK, ProcessOK, Tolds
<1>2. c \notin DOMAIN events[p]
  BY <1>1 DEF ProcessOK, EventGoesOn
<1>3. ASSUME NEW q \in Peers, NEW b, NEW s, Connected(q, b, s)
      PROVE  seen'[p][c] = seen[p][c]
  <2>1. seen' = [seen EXCEPT ![q] = Append(@, NotSeen)]
    BY <1>3 DEF Connected
  <2>2. Append(seen[p], NotSeen)[c] = seen[p][c]
    <3> HIDE DEF Tolds
    <3>1. QED
      BY <1>1
  <2>3. QED
    BY <1>1, <2>1, <2>2
<1>4. ASSUME NEW q \in Peers, NEW d \in net, Receive(q, d)
      PROVE  seen'[p][c] = seen[p][c]
  <2>1. CASE ReceiveInit(d)
    BY <2>1 DEF ReceiveInit
  <2>2. CASE ReceiveAccept(d)
    <3>1. Connected("client", d.server_boot_id, d.session_id) /\ "client" \in Peers
      BY <2>2 DEF ReceiveAccept, Peers
    <3>2. QED
      BY <1>3, <3>1
  <2>3. CASE ReceiveFromPartner(q, d)
    BY <2>3 DEF ReceiveFromPartner
  <2>4. CASE ReceiveFirst(d)
    <3>1. \E s : Connected("server", server_boot_id, s)
      BY <2>4 DEF ReceiveFirst
    <3>2. "server" \in Peers
      BY DEF Peers
    <3>3. QED
      BY <1>3, <3>1, <3>2
  <2>5. QED
    BY <1>4, <2>1, <2>2, <2>3, <2>4 DEF Receive
<1>5. ASSUME NEW q \in Peers, NEW x \in DOMAIN events[q], GetNewEvent(q, x)
      PROVE  seen'[p][c] = seen[p][c]
  <2>1. PICK told : seen' = [seen EXCEPT ![q][x] = told]
    BY <1>5 DEF GetNewEvent
  <2>2. q # p \/ x # c
    BY <1>2
  <2>3. QED
    BY <1>1, <2>1, <2>2
<1>6. ASSUME NEW q \in Peers, Restart(q)
      PROVE  seen'[p][c] = seen[p][c]
  <2>1. q # p
    BY <1>1, <1>6 DEF Restart
  <2>2. QED
    BY <1>1, <1>6, <2>1 DEF Restart
<1>7. QED
  BY <1>4, <1>5, <1>6
  DEF Next, SendInit, Send, SendToPartner, TimeOut, Disconnect, vars

\* After the end the user hears nothing more of a connection, even when late
\* datagrams of it come.
THEOREM TheEndIsTheEnd == Spec => NothingAfterTheEnd
<1>1. SessionInv /\ [Next]_vars =>
        [\A p \in Peers :
           restarts'[p] = restarts[p] =>
             \A c \in DOMAIN seen[p] :
               seen[p][c].disconnects > 0 => seen'[p][c] = seen[p][c]]_vars
  BY EndedStays
<1>2. QED
  BY <1>1, SessionInvariant, PTL DEF Spec, NothingAfterTheEnd

=============================================================================
