------------------------------ MODULE Scheduler ------------------------------
(***************************************************************************)
(* The scheduler of lib/LibCM/cm_scheduler.cc: one thread, made for the    *)
(* first PollCond and joined with the last, that runs the functions of all *)
(* PollConds (sources) in the order of their times.  A source may be       *)
(* destroyed while its function runs, and made again at the same address.  *)
(*                                                                         *)
(* Whatever happens between taking and giving up the thread's mutex is one *)
(* step.  Calls may come from any thread, functions that run included.     *)
(* The list of tasks is a set; `order` is the place where push_back put    *)
(* a task.                                                                 *)
(***************************************************************************)
EXTENDS Integers

CONSTANTS
  Sources,   \* addresses of PollConds
  MaxTime,   \* bounds of the model: the clock,
  MaxCalls,  \* calls of run_async, ChangeRqTime and Wake,
  MaxLives,  \* how often a PollCond is made at one address
  Never      \* a time that does not come

ASSUME SchedulerAssumption ==
  /\ MaxTime \in Nat
  /\ MaxCalls \in Nat
  /\ MaxLives \in Nat
  /\ Never \in Nat /\ Never > MaxTime

Times == 0 .. MaxTime

VARIABLES
  now,
  tasks,      \* scheduled_tasks
  stopped,
  thread,     \* "none", "ready", "asleep", "running" or "ended"
  deadline,   \* until when an "asleep" thread waits
  current,    \* the tasks that run: at most one; current_source is its source
  state,      \* of each source: "none", "alive", "erasing", "erased" or "joining"
  sleeping,   \* destructors in cond.Wait that nobody has woken
  life,       \* history: how often each source was made,
  asked,      \* the earliest time asked for since its primary function last started
  calls

vars == <<now, tasks, stopped, thread, deadline, current, state, sleeping, life, asked, calls>>

Init ==
  /\ now = 0
  /\ tasks = {}
  /\ stopped = FALSE
  /\ thread = "none"
  /\ deadline = Never
  /\ current = {}
  /\ state = [s \in Sources |-> "none"]
  /\ sleeping = {}
  /\ life = [s \in Sources |-> 0]
  /\ asked = [s \in Sources |-> Never]
  /\ calls = 0

-----------------------------------------------------------------------------

\* cond.Broadcast()
Broadcast ==
  /\ thread' = IF thread = "asleep" THEN "ready" ELSE thread
  /\ sleeping' = {}

\* current_source
current_source == {t.source : t \in current}

\* The constructor; get_or_create makes the thread if there is none.
Create(s) ==
  /\ state[s] = "none" /\ life[s] < MaxLives
  /\ ~stopped
  /\ state' = [state EXCEPT ![s] = "alive"]
  /\ life' = [life EXCEPT ![s] = @ + 1]
  /\ thread' = IF thread = "none" THEN "ready" ELSE thread
  /\ asked' = [asked EXCEPT ![s] = Never]
  /\ UNCHANGED <<now, tasks, stopped, deadline, current, sleeping, calls>>

\* Who may call the functions of s: its owner until he destroys it, and its own
\* function as long as that runs.
MayCall(s) ==
  /\ calls < MaxCalls
  /\ \/ state[s] = "alive"
     \/ state[s] = "erasing" /\ s \in current_source

smaller(a, b) == IF a < b THEN a ELSE b

\* Mutated form: the last time counts, not the earliest.
moved_to_last(t, when) == [t EXCEPT !.when = when]

moved(t, when) == [t EXCEPT !.when = smaller(when, t.when)]

\* Mutated form: moving a task wakes nobody.
wakes_never(t, when) == FALSE

wakes(t, when) == when < t.when

primary_of(s) == {t \in tasks : t.source = s /\ t.primary}

\* A primary task is in the list once, at the earliest time asked for.
Move(s, when) ==
  \E t \in primary_of(s) :
    /\ tasks' = (tasks \ {t}) \cup {moved(t, when)}
    /\ IF wakes(t, when) THEN Broadcast ELSE UNCHANGED <<thread, sleeping>>

Push(s, when, primary) ==
  /\ primary => primary_of(s) = {}
  /\ tasks' = tasks \cup {[source |-> s, life |-> life[s], when |-> when, primary |-> primary,
                           order |-> calls]}
  /\ Broadcast

\* ChangeRqTime(when), and Wake() if it is now.
ChangeRqTime(s, when) ==
  /\ MayCall(s) /\ ~stopped
  /\ calls' = calls + 1
  /\ Move(s, when) \/ Push(s, when, TRUE)
  /\ asked' = [asked EXCEPT ![s] = smaller(when, @)]
  /\ UNCHANGED <<now, stopped, deadline, current, state, life>>

run_async(s) ==
  /\ MayCall(s) /\ ~stopped
  /\ calls' = calls + 1
  /\ Push(s, 0, FALSE)
  /\ UNCHANGED <<now, stopped, deadline, current, state, life, asked>>

-----------------------------------------------------------------------------
(* The thread *)

\* Mutated form: of tasks with equal times the last is the first.
before_or_last(t, u) ==
  \/ t.when < u.when
  \/ t.when = u.when /\ t.order > u.order

before(t, u) ==
  \/ t.when < u.when
  \/ t.when = u.when /\ t.order < u.order

get_first_task == {t \in tasks : \A u \in tasks : u = t \/ before(t, u)}

\* Mutated form: what is due now has to wait.
due_later(t) == t.when < now

due(t) == t.when <= now

wait_time(t) == t.when - now

\* Mutated form: destructors that wait are not told that a function has ended.
told_nobody(waiting) == waiting

told(waiting) == {}

\* An iteration of recv_main, from its lock to the next wait or function.
Iterate ==
  /\ thread = "ready"
  /\ sleeping' = told(sleeping)
  /\ \/ /\ stopped
        /\ thread' = "ended"
        /\ current' = {}
        /\ UNCHANGED <<tasks, deadline, asked>>
     \/ /\ ~stopped /\ tasks = {}
        /\ thread' = "asleep"
        /\ deadline' = Never
        /\ current' = {}
        /\ UNCHANGED <<tasks, asked>>
     \/ \E t \in get_first_task :
          /\ ~stopped /\ ~due(t)
          /\ thread' = "asleep"
          /\ deadline' = now + wait_time(t)
          /\ current' = {}
          /\ UNCHANGED <<tasks, asked>>
     \/ \E t \in get_first_task :
          /\ ~stopped /\ due(t)
          /\ thread' = "running"
          /\ current' = {t}
          /\ tasks' = tasks \ {t}
          /\ asked' = IF t.primary THEN [asked EXCEPT ![t.source] = Never] ELSE asked
          /\ UNCHANGED deadline
  /\ UNCHANGED <<now, stopped, state, life, calls>>

\* The function returns, and the thread wants the mutex again.
Return ==
  /\ thread = "running"
  /\ thread' = "ready"
  /\ UNCHANGED <<now, tasks, stopped, deadline, current, state, sleeping, life, asked, calls>>

\* WaitTime is over.
WakeUp ==
  /\ thread = "asleep"
  /\ now >= deadline
  /\ thread' = "ready"
  /\ UNCHANGED <<now, tasks, stopped, deadline, current, state, sleeping, life, asked, calls>>

Tick ==
  /\ now < MaxTime
  /\ now' = now + 1
  /\ UNCHANGED <<tasks, stopped, thread, deadline, current, state, sleeping, life, asked, calls>>

-----------------------------------------------------------------------------
(* The destructor *)

Destroy(s) ==
  /\ state[s] = "alive"
  /\ state' = [state EXCEPT ![s] = "erasing"]
  /\ UNCHANGED <<now, tasks, stopped, thread, deadline, current, sleeping, life, asked, calls>>

\* Mutated form: the function that runs is not waited for.
must_wait_never(s) == FALSE

must_wait(s) == s \in current_source

\* A turn of the loop of erase_by_source.
erase_by_source(s) ==
  /\ state[s] = "erasing" /\ s \notin sleeping
  /\ IF must_wait(s)
       THEN sleeping' = sleeping \cup {s} /\ UNCHANGED <<tasks, state>>
       ELSE /\ tasks' = {t \in tasks : t.source # s}
            /\ state' = [state EXCEPT ![s] = "erased"]
            /\ UNCHANGED sleeping
  /\ UNCHANGED <<now, stopped, thread, deadline, current, life, asked, calls>>

\* Nobody else has a reference to the thread.
last_reference(s) == \A u \in Sources \ {s} : state[u] = "none"

\* ~Reference; the last one stops the thread, and waits for it under the mutex
\* of get_or_create.
Release(s) ==
  /\ state[s] = "erased"
  /\ ~stopped
  /\ IF last_reference(s)
       THEN /\ stopped' = TRUE
            /\ tasks' = {}
            /\ state' = [state EXCEPT ![s] = "joining"]
            /\ Broadcast
       ELSE /\ state' = [state EXCEPT ![s] = "none"]
            /\ UNCHANGED <<stopped, tasks, thread, sleeping>>
  /\ UNCHANGED <<now, deadline, current, life, asked, calls>>

Join(s) ==
  /\ state[s] = "joining"
  /\ thread = "ended"
  /\ state' = [state EXCEPT ![s] = "none"]
  /\ thread' = "none"
  /\ stopped' = FALSE
  /\ UNCHANGED <<now, tasks, deadline, current, sleeping, life, asked, calls>>

Next ==
  \/ Iterate \/ Return \/ WakeUp \/ Tick
  \/ \E s \in Sources :
       \/ Create(s)
       \/ \E when \in Times : ChangeRqTime(s, when)
       \/ run_async(s)
       \/ Destroy(s) \/ erase_by_source(s) \/ Release(s) \/ Join(s)

Spec == Init /\ [][Next]_vars

-----------------------------------------------------------------------------
(* Safety *)

Task == [source : Sources, life : Nat, when : Times, primary : BOOLEAN, order : Nat]

\* Types of the state.
TypeOK ==
  /\ now \in Times
  /\ tasks \subseteq Task
  /\ stopped \in BOOLEAN
  /\ thread \in {"none", "ready", "asleep", "running", "ended"}
  /\ deadline \in Times \cup {Never}
  /\ current \subseteq Task
  /\ state \in [Sources -> {"none", "alive", "erasing", "erased", "joining"}]
  /\ sleeping \subseteq Sources
  /\ life \in [Sources -> Nat]
  /\ asked \in [Sources -> Times \cup {Never}]
  /\ calls \in Nat

\* cm_scheduler.hh: "Kdyz Scheduler zanika, tak blokuje, dokud neskonci prave
\* provadena uzivatelova funkce."  No function runs, or is still to run, of a
\* PollCond whose destructor has passed erase_by_source, also if another one was
\* made at its address.
NothingRunsOfTheDead ==
  /\ \A t \in tasks : state[t.source] \in {"alive", "erasing"} /\ t.life = life[t.source]
  /\ thread = "running" =>
       \A t \in current : state[t.source] \in {"alive", "erasing"} /\ t.life = life[t.source]

\* What was asked for of a source's primary function is in the list, at the
\* earliest time asked for, though calls are merged: no wake-up is lost.
NoWakeUpIsLost ==
  \A s \in Sources :
    asked[s] # Never /\ state[s] \in {"alive", "erasing"} =>
      \E t \in tasks : t.source = s /\ t.primary /\ t.when <= asked[s]

\* The thread never waits longer than for the first task, whatever was scheduled
\* or moved since it fell asleep.
NeverOversleeps == thread = "asleep" => \A t \in tasks : deadline <= t.when

\* Functions given to run_async of one source run in the order of the calls.
AsyncInOrder ==
  thread = "running" =>
    \A t \in current, u \in tasks :
      ~t.primary /\ ~u.primary /\ t.source = u.source => t.order < u.order

\* The thread, shared by reference counting, is there as long as anybody needs it.
UsersHaveAThread ==
  (\E s \in Sources : state[s] \in {"alive", "erasing", "erased"})
    => thread \notin {"none", "ended"} /\ ~stopped

-----------------------------------------------------------------------------
(* Liveness *)

\* The thread and the destructors run, functions return and time goes on.
Fairness ==
  /\ WF_vars(Iterate)
  /\ WF_vars(Return)
  /\ WF_vars(WakeUp)
  /\ WF_vars(Tick)
  /\ \A s \in Sources : WF_vars(erase_by_source(s)) /\ WF_vars(Release(s)) /\ WF_vars(Join(s))

FairSpec == Spec /\ Fairness

\* What was asked for is done in the end, unless the source is destroyed.
AskedIsDone ==
  \A s \in Sources : asked[s] # Never /\ state[s] = "alive" ~> asked[s] = Never \/ state[s] # "alive"

\* A destructor ends, unless functions go on scheduling themselves for ever.
DestructionEnds ==
  \A s \in Sources : state[s] \in {"erasing", "erased", "joining"} ~> state[s] = "none"

=============================================================================
