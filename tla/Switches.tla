------------------------------ MODULE Switches ------------------------------
(***************************************************************************)
(* What stands between a user of connections and the transports:           *)
(* CmIPMasterSlaveOnOff and CmIpOnOff, which make the transports only      *)
(* while this station is the master, over one transport, or a CmIpSwitch,  *)
(* which shows several as one, or a CmIpOneOf, which keeps the first that  *)
(* connects (lib/LibCM/cm_ip.cc, cm_ip_*.hh, cm_ip_switch.cc).             *)
(*                                                                         *)
(* A transport is what EventsState makes of it: connections numbered from  *)
(* 1, and events of them.  Its thread tells the user (the callback), and   *)
(* he gets events until there is none (CmCore::EvalRecv).                  *)
(*                                                                         *)
(* A connection is named <<transport, number>>, where transports are       *)
(* counted as they are made; a message is named after its connection.      *)
(***************************************************************************)
EXTENDS EventsState, FiniteSets
LOCAL INSTANCE Functions

CONSTANTS
  Kinds,           \* what is under CmIpOnOff: "single" transport, "switch" or "one_of"
  Devices,         \* 1 .. n: the ip descriptors
  FirstUserId,     \* 100: the first number a CmIpSwitch gives
  MaxConnections,  \* bounds of the model: connections made
  MaxControls      \* and messages of the master and slave protocol

ASSUME SwitchesAssumption ==
  /\ Kinds \subseteq {"single", "switch", "one_of"}
  /\ IsFiniteSet(Devices)
  /\ Devices = 1 .. Cardinality(Devices)
  /\ {FirstUserId, MaxConnections, MaxControls} \subseteq Nat

VARIABLES
  kind,
  enabled,              \* CmIpOnOff: there is a device
  need_erase_partners,
  connected_partners,
  transports,           \* of the device: those that are made
  active,               \* CmIpOneOf: a set, empty or with the active one
  active_partners,
  dev_to_user,          \* CmIpSwitch: number in the transport -> number of the user
  user_connections,     \*             number of the user -> its transport
  control,              \* master and slave messages that wait: is_master
  user,                 \* "idle", "looping" or, in get_new_event, "calling"
  notified,             \* the callback was called since the user last woke
  known,                \* the connections the user was told of: id -> connection
  left,                 \* those of them that he has disconnected himself
  told,                 \* the event he got last
  made,                 \* transports that were made
  connections,          \* connections that were made
  controls              \* master and slave messages that came

partners_told == <<need_erase_partners, connected_partners>>
one_of == <<active, active_partners>>
switch == <<dev_to_user, user_connections>>
counts == <<connections, controls>>

vars == <<kind, enabled, partners_told, transports, one_of, switch, control, user, notified,
          known, left, told, made, counts>>

Empty == [id \in {} |-> 0]

Init ==
  /\ kind \in Kinds
  /\ enabled = FALSE
  /\ need_erase_partners = FALSE
  /\ connected_partners = {}
  /\ transports = Empty
  /\ active = {}
  /\ active_partners = {}
  /\ dev_to_user = [d \in Devices |-> Empty]
  /\ user_connections = Empty
  /\ control = << >>
  /\ user = "idle"
  /\ notified = FALSE
  /\ known = Empty
  /\ left = {}
  /\ told = {}
  /\ made = 0
  /\ connections = 0
  /\ controls = 0

-----------------------------------------------------------------------------
(* Making and destroying transports *)

\* create_connection: a CmIpOneOf does without the transports that fail.
Make ==
  /\ made' = made + Cardinality(Devices)
  /\ \E usable \in SUBSET Devices :
       /\ kind = "single" => usable = {1}
       /\ kind = "switch" => usable = Devices
       /\ transports' = [d \in usable |-> [name |-> made + d, counter |-> 1, alive |-> {},
                                        events |-> NoEvents]]

\* device = nullptr destroys them.
shut_down(ts) == Empty

\* Mutated form: those who are connected need not be erased.
switched_off_silently(need) == need

switched_off(need) == TRUE

\* set_enabled
SetEnabled(on) ==
  /\ enabled' = on
  /\ IF on = enabled
       THEN UNCHANGED <<transports, one_of, switch, need_erase_partners, notified, made>>
       ELSE /\ active' = {}
            /\ active_partners' = {}
            /\ dev_to_user' = [d \in Devices |-> Empty]
            /\ user_connections' = Empty
            /\ IF on
                 THEN Make /\ UNCHANGED <<need_erase_partners, notified>>
                 ELSE /\ transports' = shut_down(transports)
                      /\ need_erase_partners' = switched_off(need_erase_partners)
                      /\ notified' = (notified \/ connected_partners # {})
                      /\ UNCHANGED made

\* get_new_event of CmIPMasterSlaveOnOff first reads what there is of the master
\* and slave protocol.
ReadControl ==
  /\ user \in {"looping", "calling"}
  /\ control # << >>
  /\ user' = "calling"
  /\ control' = Tail(control)
  /\ SetEnabled(Head(control))
  /\ UNCHANGED <<kind, connected_partners, known, left, told, counts>>

-----------------------------------------------------------------------------
(* Events *)

\* The user acts upon an event.
Tell(id, conn, event) ==
  /\ told' = {[connection_id |-> id, conn |-> conn, event |-> event]}
  /\ known' = IF event.just_disconnected THEN forget(known, id)
              ELSE IF event.just_connected THEN store(known, id, conn)
              ELSE known
  /\ left' = IF event.just_disconnected THEN left \ {id} ELSE left

smallest(ids) == CHOOSE id \in ids : \A other \in ids : id <= other

\* Mutated form: a partner who was told of stays.
erased_never(partners, id) == partners

erased(partners, id) == partners \ {id}

\* An event that says a partner of an earlier device is gone.
EraseOldPartner ==
  /\ need_erase_partners /\ connected_partners # {}
  /\ \E id \in {smallest(connected_partners)} :
       /\ connected_partners' = erased(connected_partners, id)
       /\ Tell(id, << >>, Event(FALSE, TRUE, << >>))
  /\ UNCHANGED <<need_erase_partners, transports, one_of, switch, made>>

OldPartnersAreErased ==
  /\ need_erase_partners => connected_partners = {}
  /\ need_erase_partners' = FALSE

has_event(d) == \E id \in DOMAIN transports[d].events : is_next_event(transports[d].events, id)

\* The number of the next event of a transport.
next_event(d) ==
  CHOOSE id \in DOMAIN transports[d].events : is_next_event(transports[d].events, id)

after_event(d) == [transports[d] EXCEPT !.events = event_taken(@, next_event(d))]

\* Mutated form: who disconnects is kept.
partners_after_kept(partners, id, event) ==
  IF event.just_connected THEN partners \cup {id} ELSE partners

partners_after(partners, id, event) ==
  IF event.just_disconnected THEN partners \ {id}
  ELSE IF event.just_connected THEN partners \cup {id}
  ELSE partners

\* Mutated form: a number that no other connection of the same transport has.
get_unused_key_of(d) ==
  CHOOSE u \in {FirstUserId} \cup {k + 1 : k \in Range(dev_to_user[d])} :
    /\ u \notin Range(dev_to_user[d])
    /\ FirstUserId .. u - 1 \subseteq Range(dev_to_user[d])

get_unused_key(d) ==
  CHOOSE u \in {FirstUserId} \cup {k + 1 : k \in DOMAIN user_connections} :
    /\ u \notin DOMAIN user_connections
    /\ FirstUserId .. u - 1 \subseteq DOMAIN user_connections

\* handle_and_adjust_event: a number is given with the first event
user_conn_id(d, id, event) ==
  IF event.just_connected /\ id \notin DOMAIN dev_to_user[d]
    THEN get_unused_key(d) ELSE dev_to_user[d][id]

\* and taken back with the last.  There it is read once more after it was freed,
\* with nothing in between that could overwrite it.
Translate(d, id, event, u) ==
  /\ dev_to_user' = [dev_to_user EXCEPT ![d] =
       IF event.just_disconnected THEN forget(@, id) ELSE store(@, id, u)]
  /\ user_connections' =
       IF event.just_disconnected THEN forget(user_connections, u) ELSE store(user_connections, u, d)

\* Mutated form: when the first has no event the others are not asked.
asked_first == {d \in DOMAIN transports : \A other \in DOMAIN transports : d <= other}

\* The transports that are asked for an event.
asked == DOMAIN transports

\* The first transport that has an event tells it.
DeviceEvent ==
  /\ OldPartnersAreErased
  /\ \E d \in asked :
     \E id \in {next_event(x) : x \in {y \in {d} : has_event(y)}} :
     \E event \in {transports[d].events[id]} :
       /\ \A other \in DOMAIN transports : has_event(other) => d <= other
       /\ \/ /\ kind = "single"
             /\ transports' = [transports EXCEPT ![d] = after_event(d)]
             /\ connected_partners' = partners_after(connected_partners, id, event)
             /\ Tell(id, <<transports[d].name, id>>, event)
             /\ UNCHANGED <<one_of, switch, made>>
          \/ /\ kind = "switch"
             /\ transports' = [transports EXCEPT ![d] = after_event(d)]
             /\ \E u \in {user_conn_id(d, id, event)} :
                  /\ Translate(d, id, event, u)
                  /\ connected_partners' = partners_after(connected_partners, u, event)
                  /\ Tell(u, <<transports[d].name, id>>, event)
             /\ UNCHANGED <<one_of, made>>
          \/ /\ kind = "one_of"
             /\ connected_partners' = partners_after(connected_partners, id, event)
             /\ Tell(id, <<transports[d].name, id>>, event)
             /\ active_partners' = partners_after(active_partners, id, event)
             /\ IF active_partners' = {}
                  THEN active' = {} /\ Make
                  ELSE /\ active' = {d}
                       /\ transports' = [x \in {d} |-> after_event(x)]
                       /\ UNCHANGED made
             /\ UNCHANGED switch

NoEvent ==
  /\ OldPartnersAreErased
  /\ \A d \in asked : ~has_event(d)
  /\ UNCHANGED <<connected_partners, transports, one_of, switch, made, known, left, told>>

\* EvalRecv gets events until there is none.
WakeUp ==
  /\ user = "idle" /\ notified
  /\ user' = "looping"
  /\ notified' = FALSE
  /\ UNCHANGED <<kind, enabled, partners_told, transports, one_of, switch, control, known, left,
                 told, made, counts>>

get_new_event ==
  /\ user \in {"looping", "calling"}
  /\ control = << >>
  /\ \/ (EraseOldPartner \/ DeviceEvent) /\ user' = "looping"
     \/ NoEvent /\ user' = "idle"
  /\ UNCHANGED <<kind, enabled, control, notified, counts>>

-----------------------------------------------------------------------------
(* The user's calls, and the transports' threads *)

\* Where a number of the user's leads: a transport and the number in it.
find_connection_id(u) ==
  IF kind = "switch"
    THEN {at \in Devices \X (1 .. MaxConnections) :
            /\ u \in DOMAIN user_connections /\ user_connections[u] = at[1]
            /\ at[2] \in DOMAIN dev_to_user[at[1]] /\ dev_to_user[at[1]][at[2]] = u}
    ELSE (IF kind = "one_of" THEN active ELSE DOMAIN transports) \X {u}

\* The connections that send(u) reaches.
reached(u) ==
  {<<transports[at[1]].name, at[2]>> :
     at \in {x \in find_connection_id(u) : x[2] \in transports[x[1]].alive}}

\* disconnect(u) by the user: a transport that has lost the partner does nothing.
Disconnect(u) ==
  /\ user # "calling"
  /\ u \in DOMAIN known \ left
  /\ left' = left \cup {u}
  /\ transports' =
       [d \in DOMAIN transports |->
          LET ids == {id \in transports[d].alive : <<d, id>> \in find_connection_id(u)}
          IN  [transports[d] EXCEPT !.alive = @ \ ids, !.events = without(@, ids)]]
  /\ UNCHANGED <<kind, enabled, partners_told, one_of, switch, control, user, notified, known, told,
                 made, counts>>

\* Something happens to a transport; its thread calls the callback.
Happens(d, after) ==
  /\ transports' = [transports EXCEPT ![d] = after]
  /\ notified' = TRUE
  /\ UNCHANGED <<kind, enabled, partners_told, one_of, switch, control, user, known, left, told,
                 made, controls>>

Connect(d) ==
  LET t == transports[d]
  IN  /\ connections < MaxConnections
      /\ connections' = connections + 1
      /\ Happens(d, [t EXCEPT !.counter = @ + 1, !.alive = @ \cup {t.counter},
                              !.events = connect(@, t.counter)])

\* One message at a time waits for the user.
Receive(d, id) ==
  LET t == transports[d]
  IN  /\ t.events[id].messages = << >>
      /\ Happens(d, [t EXCEPT !.events = add_messages(@, id, << <<t.name, id>> >>)])
      /\ UNCHANGED connections

PartnerLost(d, id) ==
  /\ Happens(d, [transports[d] EXCEPT !.alive = @ \ {id}, !.events = disconnect(@, id)])
  /\ UNCHANGED connections

ReceiveControl(is_master) ==
  /\ controls < MaxControls
  /\ controls' = controls + 1
  /\ control' = Append(control, is_master)
  /\ notified' = TRUE
  /\ UNCHANGED <<kind, enabled, partners_told, transports, one_of, switch, user, known, left, told,
                 made, connections>>

Next ==
  \/ WakeUp \/ ReadControl \/ get_new_event
  \/ \E u \in DOMAIN known : Disconnect(u)
  \/ \E d \in DOMAIN transports :
       \/ Connect(d)
       \/ \E id \in transports[d].alive : Receive(d, id) \/ PartnerLost(d, id)
  \/ \E is_master \in BOOLEAN : ReceiveControl(is_master)

Spec == Init /\ [][Next]_vars

-----------------------------------------------------------------------------
(* Safety *)

\* Types of the state.
TypeOK ==
  /\ kind \in Kinds
  /\ {enabled, need_erase_partners, notified} \subseteq BOOLEAN
  /\ connected_partners \subseteq Nat
  /\ DOMAIN transports \subseteq Devices
  /\ transports = [d \in DOMAIN transports |-> transports[d]]
  /\ \A d \in DOMAIN transports : transports[d].name \in 1 .. made
  /\ active \subseteq DOMAIN transports
  /\ dev_to_user = [d \in Devices |-> dev_to_user[d]]
  /\ \A d \in Devices : dev_to_user[d] = [id \in DOMAIN dev_to_user[d] |-> dev_to_user[d][id]]
  /\ user_connections = [u \in DOMAIN user_connections |-> user_connections[u]]
  /\ IsFiniteSet(DOMAIN user_connections)
  /\ DOMAIN user_connections \subseteq Nat
  /\ control \in Seq(BOOLEAN)
  /\ user \in {"idle", "looping", "calling"}
  /\ known = [u \in DOMAIN known |-> known[u]]
  /\ left \subseteq DOMAIN known
  /\ {made, connections, controls} \subseteq Nat

\* cm_ip.hh: "Kdyz uzivateli davame poprve toto connection_id, tak mu nastavime
\* just_connected.  Kdyz se partner odpoji, tak dame just_disconnected, a od
\* tohoto partnera uz zadny CmIpEvent neprijde."  Through all the layers, while
\* transports come and go and number their connections from 1 each time, an id
\* is told of once as connected, then with messages of that connection only,
\* then as disconnected.  (Also one that the user has disconnected himself.)
InOrder(e) ==
  /\ e.connection_id \notin DOMAIN known <=> e.event.just_connected
  /\ \A i \in DOMAIN e.event.messages :
       e.event.messages[i] = IF e.event.just_connected THEN e.conn ELSE known[e.connection_id]

EventsAreInOrder == [][\A e \in told' \ told : InOrder(e)]_vars

\* cm_ip_onoff.hh: "Nez zacneme pouzivat nove spojeni, tak musime vsechny predat
\* jako disconnected, jinak by se nam mohly pomichat IDcka."  What the user sends
\* to a connection reaches no other one - but while partners of a device that was
\* switched off are still to be told of, ids of the old device lead into the new.
SendReachesItsConnection ==
  need_erase_partners \/ \A u \in DOMAIN known \ left : reached(u) \subseteq {known[u]}

\* cm_ip.hh: "musi se vyzvednout vsechny dostupne CmIpEventy.  Az kdyz teprve
\* get_new_event vrati Nothing, tak muze prijit dalsi callback": nothing is left
\* for the user that he will not be woken for, though transports are destroyed
\* and made in the middle of his loop.
NothingIsForgotten ==
  \/ notified
  \/ user # "idle"
  \/ /\ control = << >>
     /\ need_erase_partners => connected_partners = {}
     /\ \A d \in DOMAIN transports : ~has_event(d)

\* A CmIpOneOf keeps its transport only for partners that are there, whose end
\* the user will be told, or whom he has disconnected himself.
ActiveIsUsed ==
  kind = "one_of" =>
    \A d \in active :
      /\ active_partners # {}
      /\ \A id \in active_partners \ left :
           \/ id \in transports[d].alive
           \/ id \in DOMAIN transports[d].events /\ transports[d].events[id].just_disconnected

\* A CmIpSwitch never gives one number to two connections, and it has kept a
\* number for every connection it has told of.
NumbersAreDistinct ==
  /\ \A d \in Devices :
       \A id \in DOMAIN dev_to_user[d] :
         LET u == dev_to_user[d][id]
         IN  /\ u \in DOMAIN user_connections
             /\ user_connections[u] = d
             /\ \A other \in DOMAIN dev_to_user[d] : dev_to_user[d][other] = u => other = id
  /\ \A u \in DOMAIN user_connections :
       /\ user_connections[u] \in Devices
       /\ \E id \in DOMAIN dev_to_user[user_connections[u]] :
            dev_to_user[user_connections[u]][id] = u

\* An event of the connection `conn`: it tells of the end when it is not alive.
EventOK(e, alive, conn) ==
  /\ e = Event(e.just_connected, e.just_disconnected, e.messages)
  /\ {e.just_connected, e.just_disconnected} \subseteq BOOLEAN
  /\ e.just_disconnected <=> ~alive
  /\ e.just_connected => ~e.just_disconnected
  /\ e.messages \in Seq({conn})

\* A transport keeps events of the connections it has made: of those that are
\* alive, and of those whose end the user, who knows of them, is not told yet.
TransportOK(t) ==
  /\ t = [name |-> t.name, counter |-> t.counter, alive |-> t.alive, events |-> t.events]
  /\ t.counter \in Nat \ {0}
  /\ t.events = [id \in DOMAIN t.events |-> t.events[id]]
  /\ DOMAIN t.events \subseteq 1 .. t.counter - 1
  /\ t.alive \subseteq DOMAIN t.events
  /\ \A id \in DOMAIN t.events :
       EventOK(t.events[id], id \in t.alive, <<t.name, id>>)

\* The user was told of the connection `id` of the transport d.
is_told(d, id) ==
  IF kind = "switch" THEN id \in DOMAIN dev_to_user[d]
                     ELSE ~need_erase_partners /\ id \in DOMAIN known

FirstEventConnects ==
  \A d \in DOMAIN transports :
    \A id \in DOMAIN transports[d].events :
      transports[d].events[id].just_connected <=> ~is_told(d, id)

\* The user knows `u` as the connection `id` of d, and unless he has left it what
\* happens to it will be told.
IsKnownAs(u, d, id) ==
  /\ d \in DOMAIN transports
  /\ known[u] = <<transports[d].name, id>>
  /\ id \in 1 .. transports[d].counter - 1
  /\ u \in left \/ id \in DOMAIN transports[d].events

KnownAreTrue ==
  /\ kind = "switch" =>
       \A d \in Devices : \A id \in DOMAIN dev_to_user[d] : IsKnownAs(dev_to_user[d][id], d, id)
  /\ kind # "switch" /\ ~need_erase_partners =>
       \A u \in DOMAIN known : DOMAIN transports # {} /\ \A d \in DOMAIN transports : IsKnownAs(u, d, u)

\* CmIpOnOff, a CmIpSwitch and a CmIpOneOf know the same partners as the user;
\* those of an earlier device only CmIpOnOff.
PartnersAreKnown ==
  /\ connected_partners = DOMAIN known
  /\ ~need_erase_partners /\ kind = "switch" => DOMAIN user_connections = DOMAIN known
  /\ ~need_erase_partners /\ kind = "one_of" => active_partners = DOMAIN known

\* Nothing in the layers is older than the device.
LayersAreNew ==
  /\ need_erase_partners \/ ~enabled =>
       /\ active = {} /\ active_partners = {}
       /\ user_connections = Empty
       /\ \A d \in Devices : dev_to_user[d] = Empty
  /\ ~enabled => transports = Empty /\ (need_erase_partners \/ connected_partners = {})

\* Which transports there are.
DevicesOfKind ==
  /\ kind = "single" => DOMAIN transports \subseteq {1}
  /\ kind = "one_of" => /\ active = {} <=> active_partners = {}
                        /\ \A d \in active : DOMAIN transports = {d}

\* The tables of the layers are true of the transports under them: the numbers
\* of a CmIpSwitch, the partners of a CmIpOneOf, and what these and the
\* properties above rest on.
TablesAreTrue ==
  /\ TypeOK
  /\ \A d \in DOMAIN transports : TransportOK(transports[d])
  /\ DevicesOfKind
  /\ LayersAreNew
  /\ PartnersAreKnown
  /\ KnownAreTrue
  /\ FirstEventConnects
  /\ NumbersAreDistinct
  /\ ActiveIsUsed

-----------------------------------------------------------------------------
(* Liveness *)

\* The user's thread runs; the loop of EvalRecv goes on until there is nothing.
Fairness == WF_vars(WakeUp) /\ WF_vars(ReadControl) /\ WF_vars(get_new_event)

FairSpec == Spec /\ Fairness

\* When a device is switched off, also if it is on again at once, the user is told
\* that its partners are gone.
OldPartnersAreTold ==
  need_erase_partners /\ connected_partners # {}
    ~> ~need_erase_partners \/ connected_partners = {}

=============================================================================
