--------------------------- MODULE SchedulerProofs ---------------------------
(***************************************************************************)
(* The safety of the scheduler, for any sources and bounds: no function    *)
(* runs of a PollCond that is gone, no wake-up is lost or slept through,   *)
(* functions of one source run in order, and the shared thread is there    *)
(* as long as anybody refers to it.                                        *)
(***************************************************************************)
EXTENDS Scheduler, TLAPS

\* How references, stopped and the thread belong together: whoever joins is alone.
ReferencesOK ==
  /\ stopped => \A s \in Sources : state[s] \in {"none", "joining"}
  /\ \A s \in Sources :
       state[s] = "joining" => stopped /\ \A u \in Sources \ {s} : state[u] = "none"
  /\ thread = "ended" => stopped
  /\ thread = "none" => ~stopped /\ \A s \in Sources : state[s] = "none"

\* Tasks are numbered as they come, and those of run_async are due at once.
NumbersOK ==
  /\ \A t \in tasks : t.order < calls /\ (~t.primary => t.when = 0)
  /\ \A t \in current : t.order < calls

\* The inductive invariant.
SchedulerInv ==
  /\ TypeOK
  /\ ReferencesOK
  /\ NumbersOK
  /\ NothingRunsOfTheDead
  /\ NoWakeUpIsLost
  /\ NeverOversleeps
  /\ AsyncInOrder

-----------------------------------------------------------------------------

\* The initial state.
LEMMA InitInv == Init => SchedulerInv
<1> SUFFICES ASSUME Init PROVE SchedulerInv
  OBVIOUS
<1> USE SchedulerAssumption DEF Init
<1>1. TypeOK
  <2>1. 0 \in Times /\ 0 \in Nat
    BY DEF Times
  <2>2. state \in [Sources -> {"none", "alive", "erasing", "erased", "joining"}]
    OBVIOUS
  <2>3. life \in [Sources -> Nat] /\ asked \in [Sources -> Times \cup {Never}]
    OBVIOUS
  <2> QED
    BY <2>1, <2>2, <2>3 DEF TypeOK
<1>2. ReferencesOK /\ NumbersOK
  BY DEF ReferencesOK, NumbersOK
<1>3. NothingRunsOfTheDead /\ NoWakeUpIsLost /\ NeverOversleeps /\ AsyncInOrder
  BY DEF NothingRunsOfTheDead, NoWakeUpIsLost, NeverOversleeps, AsyncInOrder
<1> QED
  BY <1>1, <1>2, <1>3 DEF SchedulerInv

\* A source is made.
LEMMA CreateInv ==
  ASSUME SchedulerInv, NEW s \in Sources, Create(s)
  PROVE  SchedulerInv'
<1> USE SchedulerAssumption DEF SchedulerInv, Create
<1>1. TypeOK'
  BY DEF TypeOK, Task, Times
<1>2. ReferencesOK'
  BY DEF TypeOK, ReferencesOK
<1>3. NumbersOK'
  BY DEF NumbersOK
<1>4. NothingRunsOfTheDead'
  BY DEF TypeOK, NothingRunsOfTheDead, Task
<1>5. NoWakeUpIsLost'
  BY DEF TypeOK, NoWakeUpIsLost
<1>6. NeverOversleeps'
  BY DEF NeverOversleeps
<1>7. AsyncInOrder'
  BY <1>4 DEF AsyncInOrder, ReferencesOK, NothingRunsOfTheDead, TypeOK, Task
<1> QED
  BY <1>1, <1>2, <1>3, <1>4, <1>5, <1>6, <1>7

\* A call for the task of s at `when`: what schedule does to the list and to
\* those who wait.  Only a live source, or its own function, calls.
LEMMA ScheduleInv ==
  ASSUME SchedulerInv, NEW s \in Sources, NEW when \in Times, NEW primary \in BOOLEAN,
         MayCall(s), ~stopped,
         (primary /\ Move(s, when)) \/ Push(s, when, primary),
         ~primary => when = 0,
         calls' = calls + 1,
         asked' = IF primary THEN [asked EXCEPT ![s] = smaller(when, @)] ELSE asked,
         UNCHANGED <<now, stopped, deadline, current, state, life>>
  PROVE  SchedulerInv'
<1> USE SchedulerAssumption DEF SchedulerInv
<1>a. state[s] \in {"alive", "erasing"} /\ life[s] \in Nat /\ calls \in Nat
  BY DEF MayCall, TypeOK
<1>b. now \in Int /\ Times \subseteq Nat
  BY DEF Times, TypeOK
<1>1. CASE primary /\ Move(s, when)
  <2>1. PICK t \in primary_of(s) :
          /\ tasks' = (tasks \ {t}) \cup {moved(t, when)}
          /\ IF wakes(t, when) THEN Broadcast ELSE UNCHANGED <<thread, sleeping>>
    BY <1>1 DEF Move
  <2>2. t \in Task /\ t \in tasks /\ t.source = s /\ t.primary
    BY DEF primary_of, TypeOK
  <2> DEFINE m == moved(t, when)
  <2>3. /\ m \in Task /\ m.source = s /\ m.life = t.life /\ m.primary /\ m.order = t.order
        /\ m.when <= when /\ m.when <= t.when /\ (m.when = t.when \/ wakes(t, when))
    BY <2>2, <1>b DEF moved, smaller, wakes, Task
  <2> HIDE DEF m
  <2>4. tasks' = (tasks \ {t}) \cup {m}
    BY <2>1 DEF m
  <2>5. thread' = thread \/ (thread = "asleep" /\ thread' = "ready")
    BY <2>1 DEF Broadcast
  <2>6. wakes(t, when) => thread' # "asleep"
    BY <2>1 DEF Broadcast
  <2>7. sleeping' \in {sleeping, {}}
    BY <2>1 DEF Broadcast
  <2>8. TypeOK'
    BY <2>3, <2>4, <2>5, <2>7, <1>1, <1>a DEF TypeOK, smaller
  <2>9. ReferencesOK'
    BY <2>5 DEF ReferencesOK
  <2>10. NumbersOK'
    BY <2>2, <2>3, <2>4, <1>a DEF NumbersOK, TypeOK, Task
  <2>11. NothingRunsOfTheDead'
    BY <2>2, <2>3, <2>4, <2>5 DEF NothingRunsOfTheDead
  <2>12. NoWakeUpIsLost'
    <3> SUFFICES ASSUME NEW u \in Sources, asked'[u] # Never, state[u] \in {"alive", "erasing"}
                 PROVE  \E v \in tasks' : v.source = u /\ v.primary /\ v.when <= asked'[u]
      BY DEF NoWakeUpIsLost
    <3>1. CASE u = s
      <4>1. asked'[s] = smaller(when, asked[s]) /\ asked[s] \in Nat
        BY <1>1, <1>b DEF TypeOK
      <4>2. CASE when <= asked[s]
        BY <4>1, <4>2, <3>1, <2>3, <2>4, <1>b DEF smaller, Task
      <4>3. CASE ~(when <= asked[s])
        <5>1. asked'[s] = asked[s]
          BY <4>1, <4>3, <1>b DEF smaller
        <5>2. PICK v \in tasks : v.source = s /\ v.primary /\ v.when <= asked[s]
          BY <5>1, <3>1 DEF NoWakeUpIsLost
        <5>3. CASE v = t
          <6>0. m.when \in Times /\ t.when \in Times
            BY <2>2, <2>3 DEF Task
          <6>1. m.when \in Int /\ t.when \in Int
            BY <6>0 DEF Times
          <6>2. m.when <= t.when /\ t.when <= asked[s] /\ asked'[u] = asked[s]
            BY <5>1, <5>2, <5>3, <3>1, <2>3
          <6>3. m.when <= asked'[u]
            BY <6>1, <6>2, <4>1
          <6> QED
            BY <6>3, <3>1, <2>3, <2>4
        <5>4. CASE v # t
          BY <5>1, <5>2, <5>4, <3>1, <2>4
        <5> QED
          BY <5>3, <5>4
      <4> QED
        BY <4>2, <4>3
    <3>2. CASE u # s
      <4>1. asked'[u] = asked[u]
        BY <3>2, <1>1 DEF TypeOK
      <4>2. PICK v \in tasks : v.source = u /\ v.primary /\ v.when <= asked[u]
        BY <4>1 DEF NoWakeUpIsLost
      <4> QED
        BY <4>1, <4>2, <3>2, <2>2, <2>4
    <3> QED
      BY <3>1, <3>2
  <2>13. NeverOversleeps'
    BY <2>2, <2>3, <2>4, <2>5, <2>6 DEF NeverOversleeps
  <2>14. AsyncInOrder'
    BY <2>2, <2>3, <2>4, <2>5 DEF AsyncInOrder
  <2> QED
    BY <2>8, <2>9, <2>10, <2>11, <2>12, <2>13, <2>14
<1>2. CASE Push(s, when, primary)
  <2> DEFINE n == [source |-> s, life |-> life[s], when |-> when, primary |-> primary,
                   order |-> calls]
  <2>1. n \in Task /\ n.source = s /\ n.life = life[s] /\ n.when = when /\ n.order = calls
        /\ n.primary = primary
    BY <1>a DEF Task
  <2> HIDE DEF n
  <2>2. tasks' = tasks \cup {n} /\ sleeping' = {}
        /\ thread' = IF thread = "asleep" THEN "ready" ELSE thread
    BY <1>2 DEF Push, Broadcast, n
  <2>3. TypeOK'
    BY <2>1, <2>2, <1>a DEF TypeOK, smaller
  <2>4. ReferencesOK'
    BY <2>2 DEF ReferencesOK
  <2>5. NumbersOK'
    BY <2>1, <2>2, <1>a DEF NumbersOK, TypeOK, Task
  <2>6. NothingRunsOfTheDead'
    BY <2>1, <2>2, <1>a DEF NothingRunsOfTheDead
  <2>7. NoWakeUpIsLost'
    <3> SUFFICES ASSUME NEW u \in Sources, asked'[u] # Never, state[u] \in {"alive", "erasing"}
                 PROVE  \E v \in tasks' : v.source = u /\ v.primary /\ v.when <= asked'[u]
      BY DEF NoWakeUpIsLost
    <3>1. CASE primary /\ u = s
      <4>1. asked'[s] = smaller(when, asked[s]) /\ asked[s] \in Nat
        BY <3>1, <1>b DEF TypeOK
      <4>2. CASE when <= asked[s]
        <5>1. n.when <= asked'[u]
          BY <4>1, <4>2, <3>1, <2>1, <1>b DEF smaller
        <5> QED
          BY <5>1, <3>1, <2>1, <2>2
      <4>3. CASE ~(when <= asked[s])
        BY <4>1, <4>3, <3>1, <2>2, <1>b DEF smaller, NoWakeUpIsLost
      <4> QED
        BY <4>2, <4>3
    <3>2. CASE ~(primary /\ u = s)
      BY <3>2, <2>2 DEF NoWakeUpIsLost, TypeOK
    <3> QED
      BY <3>1, <3>2
  <2>8. NeverOversleeps'
    BY <2>2 DEF NeverOversleeps
  <2>9. AsyncInOrder'
    BY <2>1, <2>2, <1>a DEF AsyncInOrder, NumbersOK
  <2> QED
    BY <2>3, <2>4, <2>5, <2>6, <2>7, <2>8, <2>9
<1> QED
  BY <1>1, <1>2

-----------------------------------------------------------------------------
(* The thread *)

\* An iteration of the thread: it ends, falls asleep or takes the first task.
LEMMA IterateInv ==
  ASSUME SchedulerInv, Iterate
  PROVE  SchedulerInv'
<1> USE SchedulerAssumption DEF SchedulerInv
<1>a. now \in Int /\ Times \subseteq Nat
  BY DEF Times, TypeOK
<1>b. UNCHANGED <<now, stopped, state, life, calls>> /\ sleeping' \subseteq sleeping
  BY DEF Iterate, told
<1>1. CASE stopped /\ thread' = "ended" /\ current' = {} /\ UNCHANGED <<tasks, deadline, asked>>
  <2>1. TypeOK'
    BY <1>1, <1>b DEF TypeOK
  <2>2. ReferencesOK'
    BY <1>1, <1>b DEF ReferencesOK
  <2>3. (NumbersOK /\ NothingRunsOfTheDead /\ NoWakeUpIsLost)'
    BY <1>1, <1>b DEF NumbersOK, NothingRunsOfTheDead, NoWakeUpIsLost
  <2>4. (NeverOversleeps /\ AsyncInOrder)'
    BY <1>1, <1>b DEF NeverOversleeps, AsyncInOrder
  <2> QED
    BY <2>1, <2>2, <2>3, <2>4
<1>2. CASE /\ thread' = "asleep" /\ current' = {} /\ UNCHANGED <<tasks, asked>>
           /\ deadline' \in Times \cup {Never}
           /\ \A t \in tasks : deadline' <= t.when
  <2>1. TypeOK'
    BY <1>2, <1>b DEF TypeOK
  <2>2. ReferencesOK'
    BY <1>2, <1>b DEF ReferencesOK, Iterate
  <2>3. (NumbersOK /\ NothingRunsOfTheDead /\ NoWakeUpIsLost)'
    BY <1>2, <1>b DEF NumbersOK, NothingRunsOfTheDead, NoWakeUpIsLost
  <2>4. (NeverOversleeps /\ AsyncInOrder)'
    BY <1>2, <1>b DEF NeverOversleeps, AsyncInOrder
  <2> QED
    BY <2>1, <2>2, <2>3, <2>4
<1>3. ASSUME NEW t \in get_first_task,
             ~stopped, thread' = "running", current' = {t}, tasks' = tasks \ {t},
             asked' = IF t.primary THEN [asked EXCEPT ![t.source] = Never] ELSE asked,
             UNCHANGED deadline
      PROVE  SchedulerInv'
  <2>1. t \in tasks /\ t \in Task /\ \A u \in tasks : u = t \/ before(t, u)
    BY DEF get_first_task, TypeOK
  <2>2. TypeOK'
    BY <1>3, <2>1, <1>b DEF TypeOK
  <2>3. ReferencesOK'
    BY <1>3, <1>b DEF ReferencesOK
  <2>4. NumbersOK'
    BY <1>3, <2>1, <1>b DEF NumbersOK
  <2>5. NothingRunsOfTheDead'
    BY <1>3, <2>1, <1>b DEF NothingRunsOfTheDead
  <2>6. NoWakeUpIsLost'
    BY <1>3, <2>1, <1>b DEF NoWakeUpIsLost, TypeOK, Task
  <2>7. NeverOversleeps'
    BY <1>3 DEF NeverOversleeps
  <2>8. AsyncInOrder'
    <3> SUFFICES ASSUME NEW u \in tasks, u # t, ~t.primary, ~u.primary
                 PROVE  t.order < u.order
      BY <1>3 DEF AsyncInOrder
    <3>1. t.when = 0 /\ u.when = 0
      BY <2>1 DEF NumbersOK
    <3> QED
      BY <3>1, <2>1 DEF before
  <2> QED
    BY <2>2, <2>3, <2>4, <2>5, <2>6, <2>7, <2>8
<1>4. CASE ~stopped /\ tasks = {} /\ thread' = "asleep" /\ deadline' = Never /\ current' = {}
           /\ UNCHANGED <<tasks, asked>>
  BY <1>2, <1>4
<1>5. ASSUME NEW t \in get_first_task,
             ~stopped, thread' = "asleep", deadline' = now + wait_time(t), current' = {},
             UNCHANGED <<tasks, asked>>
      PROVE  SchedulerInv'
  <2>1. t \in Task /\ tasks \subseteq Task /\ \A u \in tasks : u = t \/ before(t, u)
    BY DEF get_first_task, TypeOK
  <2>0. t.when \in Times /\ \A u \in tasks : u.when \in Times
    BY <2>1 DEF Task
  <2>2. t.when \in Times /\ t.when \in Int /\ \A u \in tasks : u.when \in Int
    BY <2>0 DEF Times
  <2>3. deadline' = t.when
    BY <1>5, <2>2, <1>a DEF wait_time
  <2>4. \A u \in tasks : t.when <= u.when
    BY <2>1, <2>2 DEF before
  <2> QED
    BY <1>2, <1>5, <2>2, <2>3, <2>4
<1> QED
  BY <1>1, <1>3, <1>4, <1>5 DEF Iterate

\* The clock ticks, a function returns, or WaitTime is over.
LEMMA ThreadWakesInv ==
  ASSUME SchedulerInv, Tick \/ Return \/ WakeUp
  PROVE  SchedulerInv'
<1> USE SchedulerAssumption DEF SchedulerInv
<1>1. /\ UNCHANGED <<tasks, stopped, deadline, current, state, sleeping, life, asked, calls>>
      /\ now' \in Times
      /\ thread' = thread \/ (thread \in {"running", "asleep"} /\ thread' = "ready")
  BY DEF Tick, Return, WakeUp, TypeOK, Times
<1>2. TypeOK'
  BY <1>1 DEF TypeOK
<1>3. ReferencesOK'
  BY <1>1 DEF ReferencesOK
<1>4. (NumbersOK /\ NothingRunsOfTheDead /\ NoWakeUpIsLost)'
  BY <1>1 DEF NumbersOK, NothingRunsOfTheDead, NoWakeUpIsLost
<1>5. (NeverOversleeps /\ AsyncInOrder)'
  BY <1>1 DEF NeverOversleeps, AsyncInOrder
<1> QED
  BY <1>2, <1>3, <1>4, <1>5

-----------------------------------------------------------------------------
(* The destructor *)

\* A destructor begins, waits for the function that runs, or has erased the tasks.
LEMMA EraseInv ==
  ASSUME SchedulerInv, NEW s \in Sources, Destroy(s) \/ erase_by_source(s)
  PROVE  SchedulerInv'
<1> USE SchedulerAssumption DEF SchedulerInv
<1>1. CASE /\ UNCHANGED <<now, tasks, stopped, thread, deadline, current, life, asked, calls>>
           /\ state[s] \in {"alive", "erasing"} /\ state' = [state EXCEPT ![s] = "erasing"]
           /\ sleeping' \subseteq Sources
  <2>1. TypeOK'
    BY <1>1 DEF TypeOK
  <2>2. ReferencesOK'
    BY <1>1 DEF ReferencesOK, TypeOK
  <2>3. NothingRunsOfTheDead'
    BY <1>1 DEF NothingRunsOfTheDead, TypeOK
  <2>4. NoWakeUpIsLost'
    BY <1>1 DEF NoWakeUpIsLost, TypeOK
  <2>5. (NumbersOK /\ NeverOversleeps /\ AsyncInOrder)'
    BY <1>1 DEF NumbersOK, NeverOversleeps, AsyncInOrder
  <2> QED
    BY <2>1, <2>2, <2>3, <2>4, <2>5
<1>2. CASE Destroy(s)
  BY <1>1, <1>2 DEF Destroy, TypeOK
<1>3. CASE erase_by_source(s) /\ must_wait(s)
  <2>1. state' = [state EXCEPT ![s] = "erasing"]
    BY <1>3 DEF erase_by_source, TypeOK
  <2> QED
    BY <1>1, <1>3, <2>1 DEF erase_by_source, TypeOK
<1>4. CASE erase_by_source(s) /\ ~must_wait(s)
  <2>1. /\ UNCHANGED <<now, stopped, thread, deadline, current, sleeping, life, asked, calls>>
        /\ state[s] = "erasing" /\ state' = [state EXCEPT ![s] = "erased"]
        /\ tasks' = {t \in tasks : t.source # s}
        /\ \A t \in current : t.source # s
    BY <1>4 DEF erase_by_source, must_wait, current_source
  <2>2. TypeOK'
    BY <2>1 DEF TypeOK
  <2>3. ReferencesOK'
    BY <2>1 DEF ReferencesOK, TypeOK
  <2>4. NothingRunsOfTheDead'
    BY <2>1 DEF NothingRunsOfTheDead, TypeOK
  <2>5. NoWakeUpIsLost'
    BY <2>1 DEF NoWakeUpIsLost, TypeOK
  <2>6. (NumbersOK /\ NeverOversleeps /\ AsyncInOrder)'
    BY <2>1 DEF NumbersOK, NeverOversleeps, AsyncInOrder
  <2> QED
    BY <2>2, <2>3, <2>4, <2>5, <2>6
<1> QED
  BY <1>2, <1>3, <1>4

\* A reference is given up; with the last one the thread is told to end.
LEMMA ReleaseInv ==
  ASSUME SchedulerInv, NEW s \in Sources, Release(s)
  PROVE  SchedulerInv'
<1> USE SchedulerAssumption DEF SchedulerInv
<1>0. /\ UNCHANGED <<now, deadline, current, life, asked, calls>>
      /\ state[s] = "erased" /\ ~stopped
      /\ thread' = thread \/ (thread = "asleep" /\ thread' = "ready")
      /\ sleeping' \in {sleeping, {}}
  BY DEF Release, Broadcast
<1>1. CASE last_reference(s)
  <2>1. /\ stopped' = TRUE /\ tasks' = {} /\ state' = [state EXCEPT ![s] = "joining"]
        /\ \A u \in Sources \ {s} : state[u] = "none"
        /\ thread' # "asleep"
    BY <1>1 DEF Release, last_reference, Broadcast
  <2>2. TypeOK'
    BY <1>0, <2>1 DEF TypeOK
  <2>3. ReferencesOK'
    BY <1>0, <2>1 DEF ReferencesOK, TypeOK
  <2>4. \A u \in Sources : state'[u] \in {"none", "joining"} /\ state[u] \in {"none", "erased"}
    BY <1>0, <2>1 DEF TypeOK
  <2>5. thread = "running" => current = {}
    BY <2>4 DEF NothingRunsOfTheDead, TypeOK, Task
  <2>6. (NothingRunsOfTheDead /\ NoWakeUpIsLost)'
    BY <1>0, <2>1, <2>4, <2>5 DEF NothingRunsOfTheDead, NoWakeUpIsLost
  <2>7. (NumbersOK /\ NeverOversleeps /\ AsyncInOrder)'
    BY <1>0, <2>1 DEF NumbersOK, NeverOversleeps, AsyncInOrder
  <2> QED
    BY <2>2, <2>3, <2>6, <2>7
<1>2. CASE ~last_reference(s)
  <2>1. UNCHANGED <<stopped, tasks, thread, sleeping>> /\ state' = [state EXCEPT ![s] = "none"]
    BY <1>2 DEF Release
  <2>2. TypeOK'
    BY <1>0, <2>1 DEF TypeOK
  <2>3. ReferencesOK'
    BY <1>0, <2>1 DEF ReferencesOK, TypeOK
  <2>4. NothingRunsOfTheDead'
    BY <1>0, <2>1 DEF NothingRunsOfTheDead, TypeOK, Task
  <2>5. NoWakeUpIsLost'
    BY <1>0, <2>1 DEF NoWakeUpIsLost, TypeOK
  <2>6. (NumbersOK /\ NeverOversleeps /\ AsyncInOrder)'
    BY <1>0, <2>1 DEF NumbersOK, NeverOversleeps, AsyncInOrder
  <2> QED
    BY <2>2, <2>3, <2>4, <2>5, <2>6
<1> QED
  BY <1>1, <1>2

\* The thread has ended and is joined.
LEMMA JoinInv ==
  ASSUME SchedulerInv, NEW s \in Sources, Join(s)
  PROVE  SchedulerInv'
<1> USE SchedulerAssumption DEF SchedulerInv
<1>0. /\ UNCHANGED <<now, tasks, deadline, current, sleeping, life, asked, calls>>
      /\ state[s] = "joining" /\ state' = [state EXCEPT ![s] = "none"]
      /\ thread' = "none" /\ stopped' = FALSE
  BY DEF Join
<1>1. TypeOK'
  BY <1>0 DEF TypeOK
<1>2. ReferencesOK'
  BY <1>0 DEF ReferencesOK, TypeOK
<1>3. NothingRunsOfTheDead'
  BY <1>0 DEF NothingRunsOfTheDead, TypeOK, Task
<1>4. NoWakeUpIsLost'
  BY <1>0 DEF NoWakeUpIsLost, TypeOK
<1>5. (NumbersOK /\ NeverOversleeps /\ AsyncInOrder)'
  BY <1>0 DEF NumbersOK, NeverOversleeps, AsyncInOrder
<1> QED
  BY <1>1, <1>2, <1>3, <1>4, <1>5

-----------------------------------------------------------------------------

\* Every step keeps the invariant.
LEMMA NextInv == SchedulerInv /\ [Next]_vars => SchedulerInv'
<1> SUFFICES ASSUME SchedulerInv, [Next]_vars PROVE SchedulerInv'
  OBVIOUS
<1>1. CASE Iterate
  BY <1>1, IterateInv
<1>2. CASE Return \/ WakeUp \/ Tick
  BY <1>2, ThreadWakesInv
<1>3. ASSUME NEW s \in Sources, NEW when \in Times, ChangeRqTime(s, when)
      PROVE  SchedulerInv'
  BY <1>3, ScheduleInv DEF ChangeRqTime
<1>4. ASSUME NEW s \in Sources, run_async(s)
      PROVE  SchedulerInv'
  <2>1. 0 \in Times
    BY SchedulerAssumption DEF Times
  <2> QED
    BY <1>4, <2>1, ScheduleInv DEF run_async
<1>5. ASSUME NEW s \in Sources, Create(s) \/ Destroy(s) \/ erase_by_source(s) \/ Release(s) \/ Join(s)
      PROVE  SchedulerInv'
  BY <1>5, CreateInv, EraseInv, ReleaseInv, JoinInv
<1>6. CASE UNCHANGED vars
  BY <1>6 DEF vars, SchedulerInv, TypeOK, ReferencesOK, NumbersOK, NothingRunsOfTheDead,
              NoWakeUpIsLost, NeverOversleeps, AsyncInOrder, Task
<1> QED
  BY <1>1, <1>2, <1>3, <1>4, <1>5, <1>6 DEF Next

\* The inductive invariant holds of every reachable state.
THEOREM SchedulerIsSafe == Spec => []SchedulerInv
BY InitInv, NextInv, PTL DEF Spec

\* Type correctness of the scheduler.
THEOREM TypeCorrect == Spec => []TypeOK
<1>1. SchedulerInv => TypeOK
  BY DEF SchedulerInv
<1> QED
  BY <1>1, SchedulerIsSafe, PTL

\* ~PollCond keeps its promise: nothing of a destroyed source runs or will run,
\* also when another source is made at its address.
THEOREM DestroyedSourcesAreSilent == Spec => []NothingRunsOfTheDead
<1>1. SchedulerInv => NothingRunsOfTheDead
  BY DEF SchedulerInv
<1> QED
  BY <1>1, SchedulerIsSafe, PTL

\* Merging calls into one primary task loses no wake-up.
THEOREM WakeUpsAreKept == Spec => []NoWakeUpIsLost
<1>1. SchedulerInv => NoWakeUpIsLost
  BY DEF SchedulerInv
<1> QED
  BY <1>1, SchedulerIsSafe, PTL

\* The thread sleeps no longer than until its first task is due.
THEOREM SleepEndsInTime == Spec => []NeverOversleeps
<1>1. SchedulerInv => NeverOversleeps
  BY DEF SchedulerInv
<1> QED
  BY <1>1, SchedulerIsSafe, PTL

\* Functions of one source given to run_async run in the order of the calls.
THEOREM AsyncIsFifo == Spec => []AsyncInOrder
<1>1. SchedulerInv => AsyncInOrder
  BY DEF SchedulerInv
<1> QED
  BY <1>1, SchedulerIsSafe, PTL

\* Counting references keeps the thread for whoever needs it.
THEOREM ThreadIsThere == Spec => []UsersHaveAThread
<1>1. SchedulerInv => UsersHaveAThread
  BY DEF SchedulerInv, ReferencesOK, UsersHaveAThread
<1> QED
  BY <1>1, SchedulerIsSafe, PTL

=============================================================================
