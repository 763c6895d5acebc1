---------------------------- MODULE EventsState ----------------------------
(***************************************************************************)
(* What a transport has to tell its user: class EventsState of             *)
(* lib/LibCM/cm_ip_eventstate.hh, as operators on its map `events` from    *)
(* connection ids to events.  The receiving thread fills it; the user      *)
(* empties it, one connection at a time, with get_new_event.  What happens *)
(* to a connection between two pick-ups is coalesced into one event.       *)
(*                                                                         *)
(* Each operator is one critical section of the mutex of the class.        *)
(***************************************************************************)
EXTENDS Naturals, Sequences

\* CmIpEvent: the fields the user acts upon.
Event(connected, disconnected, msgs) ==
  [just_connected |-> connected, just_disconnected |-> disconnected, messages |-> msgs]

NoEvents == [id \in {} |-> Event(FALSE, FALSE, << >>)]

\* What std::map does: operator[]=, insert, which keeps what is there, and erase.
store(map, key, value) ==
  [k \in DOMAIN map \cup {key} |-> IF k = key THEN value ELSE map[k]]

insert(map, key, value) == IF key \in DOMAIN map THEN map ELSE store(map, key, value)

without(map, keys) == [k \in DOMAIN map \ keys |-> map[k]]

forget(map, key) == without(map, {key})

connect(events, id) == insert(events, id, Event(TRUE, FALSE, << >>))

add_messages(events, id, bodies) ==
  IF id \in DOMAIN events THEN [events EXCEPT ![id].messages = @ \o bodies] ELSE events

\* Mutated form: no end is told.
disconnect_silent(events, id) == forget(events, id)

\* A connection the user has not seen yet is dropped with all its messages.
disconnect(events, id) ==
  IF id \notin DOMAIN events THEN events
  ELSE IF events[id].just_connected THEN forget(events, id)
  ELSE [events EXCEPT ![id].just_disconnected = TRUE]

erase(events, id) == forget(events, id)

\* The connection get_new_event tells about: the first with any news.
has_news(event) == event.just_connected \/ event.just_disconnected \/ event.messages # << >>

is_next_event(events, id) ==
  /\ id \in DOMAIN events
  /\ has_news(events[id])
  /\ \A other \in DOMAIN events : has_news(events[other]) => id <= other

\* Mutated form: a connection that has ended stays in the map.
event_taken_kept(events, id) ==
  [events EXCEPT ![id] = Event(FALSE, @.just_disconnected, << >>)]

\* What is left when the user has got events[id].
event_taken(events, id) ==
  IF events[id].just_disconnected
    THEN forget(events, id)
    ELSE [events EXCEPT ![id] = Event(FALSE, FALSE, << >>)]

=============================================================================
