----------------------------- MODULE Variables ------------------------------
(***************************************************************************)
(* One name among processes connected by CmCore: the variable a process    *)
(* defines under it, the variables its partners define under it, their     *)
(* collisions, the filters, the changes waiting to be sent, the numbers    *)
(* by which a conflict of two changes is settled, the master among the     *)
(* partners, and the changes waiting for the user's callback.              *)
(*                                                                         *)
(* Names do not depend on each other, so one is enough.  A connection is   *)
(* two partner records (variables_state of a CCmPartner) and a FIFO in     *)
(* each direction (see UdpLink), which begins with INIT and INIT-ACC of    *)
(* both; what they agree on, prefixes, priorities, fragments and the       *)
(* blocking of what was sent a while ago are left out: a send takes what   *)
(* is waiting about the name, the MOD or the SET, at any time.             *)
(***************************************************************************)
EXTENDS Integers, Sequences, FiniteSets, SequencesExt, FiniteSetsExt, VarChanges

CONSTANTS
  Processes, Nobody,
  Values,      \* what an index of a variable may hold
  Sizes,       \* bound: numbers of indices, one for each type in use
  Plans        \* bounds, each a record of how a behaviour starts and what is done in it

values(n) == [1 .. n -> Values]
Defined == UNION {values(n) : n \in Sizes}

ASSUME VariablesAssumption ==
  /\ IsFiniteSet(Processes) /\ Nobody \notin Processes
  /\ Sizes \subseteq Nat \ {0}
  /\ \A pl \in Plans : /\ pl.first \in Defined /\ pl.callbacks \subseteq BOOLEAN
                       /\ \A p \in Processes : {p} \notin pl.links

VARIABLES
  my,          \* process -> myVariables
  filter,      \* process -> does myFilters match the name
  order,       \* process -> Partners, in the order of connecting
  link,        \* process -> partner -> PartnerVariablesState
  changes,     \* process -> m_var_changes
  seen,        \* process -> what its user knows
  master,      \* process -> master_partner
  master_name, \* process -> msv_master_name
  channel,     \* process -> partner -> messages from one to the other
  plan, left   \* the bounds chosen, and what is left of them

vars == <<my, filter, order, link, changes, seen, master, master_name, channel, plan, left>>

mastering == <<master, master_name>>
bounds == <<plan, left>>

----------------------------------------------------------------------------
(* CmSetCmdMap: the number under which each index was last sent *)

NoIds == [default |-> -1, at |-> <<>>]
numbers(ids) == {ids.default} \cup {ids.at[i] : i \in DOMAIN ids.at}
get_next_id(ids) == Max(numbers(ids)) + 1
get_index(ids, i) == IF i \in DOMAIN ids.at THEN ids.at[i] ELSE ids.default
is_safe_to_apply(ids, id) == Min(numbers(ids)) <= id

update_fully(id) == [default |-> id, at |-> <<>>]
update_from_variable(ids, fields, id) ==
  [ids EXCEPT !.at = [i \in DOMAIN ids.at \cup fields |->
                        IF i \in fields THEN id ELSE ids.at[i]]]

(* Mutated form: a partner's changes always win. *)
diff_event_fields_any(ids, v, fields, id) == fields

(* Of the fields a partner has changed, those nobody has been sent since he
   knew them; a variable that is no array must be exactly what he knew. *)
diff_event_fields(ids, v, fields, id) ==
  {i \in fields : IF Cardinality(DOMAIN v) > 1 THEN get_index(ids, i) <= id
                                               ELSE get_index(ids, i) = id}

----------------------------------------------------------------------------
(* MyVariablesToSend and the queue of changes to his variable *)

NoEvent == [what |-> "none", value |-> Undefined, fields |-> {}]
event(what, v, fields) == [what |-> what, value |-> v, fields |-> fields]
Nothing == [value |-> Undefined, fields |-> {}]

update_existing(e, v, fields) ==
  IF e.what = "none" THEN event("update", v, fields)
  ELSE event(e.what, v,
             IF DOMAIN v \in {fields, e.fields} THEN DOMAIN v
             ELSE diffAllFields(v, e.value) \cup e.fields \cup fields)

full_define_variable(v) == event("define", v, DOMAIN v)

(* CCmPartner::ChangeMyVariable *)
ChangeMyVariable(l, v, fields) ==
  IF ~l.wants THEN l
  ELSE [l EXCEPT !.to_send =
          IF \/ @.what # "none" /\ compareTypeAndLimits(@.value, v)
             \/ @.what = "none" /\ l.sent = DOMAIN v
            THEN update_existing(@, v, fields)
            ELSE full_define_variable(v)]

(* CCmPartner::AddMyVariableModification: what the partner himself has changed *)
AddMyVariableModification(l, v) ==
  IF l.to_send.what = "none" THEN l ELSE [l EXCEPT !.to_send.value = v]

(* Mutated form: also a partner who was never sent the variable. *)
UndefineMyVariable_always(l) == [l EXCEPT !.to_send = event("undefine", Undefined, {})]

UndefineMyVariable(l) ==
  [l EXCEPT !.to_send = IF l.sent # {} THEN event("undefine", Undefined, {}) ELSE NoEvent]

push_back_or_update(queued, v, fields) == [value |-> v, fields |-> queued.fields \cup fields]
erase_variable_changes_from_queue(queued, fields) ==
  IF queued.fields \subseteq fields THEN Nothing ELSE [queued EXCEPT !.fields = @ \ fields]

----------------------------------------------------------------------------
(* A partner record, and the partners of a process *)

NewPartner ==
  [init |-> {}, his |-> Undefined, his_id |-> -1, his_to_send |-> Nothing, collides |-> FALSE,
   wants |-> FALSE, told_filter |-> FALSE,
   sent |-> {}, ids |-> NoIds, to_send |-> NoEvent]

(* The flags of a partner: which steps of the handshake are done.  Its end
   is when both INIT and INIT-ACC have come. *)
Handshake == {"sent_init", "received_init", "sent_init_acc", "received_init_acc"}
inited(l) == {"received_init", "received_init_acc"} \subseteq l.init

partners(p) == ToSet(order[p])
use_master_slave(p) == p \in plan.use_master_slave

(* The partners whose variable counts, and among them those not colliding. *)
counted(p, links, seq, m) ==
  {q \in ToSet(seq) : links[q].his # Undefined /\ (use_master_slave(p) => q = m)}
owners(p, links, seq, m) == {q \in counted(p, links, seq, m) : ~links[q].collides}

(* Where partners are in the list of them. *)
places(seq, S) == {i \in DOMAIN seq : seq[i] \in S}

(* CmCore::GetVariable *)
GetVariable(p) ==
  LET visible == owners(p, link[p], order[p], master[p])
  IN  IF my[p] # Undefined THEN my[p]
      ELSE IF visible = {} THEN Undefined
      ELSE link[p][order[p][Min(places(order[p], visible))]].his

(* tryDefineSomeCollidingVariable: the last colliding partner becomes the owner *)
tryDefineSomeCollidingVariable(p, mine, links, seq, m, c) ==
  LET who == counted(p, links, seq, m)
      last == seq[Max(places(seq, who))]
  IN  IF mine # Undefined \/ who = {} \/ owners(p, links, seq, m) # {}
        THEN [links |-> links, changes |-> c]
        ELSE [links |-> [links EXCEPT ![last].collides = FALSE],
              changes |-> add_foreign_updates(c, links[last].his, DOMAIN links[last].his, TRUE)]

(* Mutated form: only my own variable is looked for. *)
doesPartnerVariableCollide_mine(p, q) == my[p] # Undefined

doesPartnerVariableCollide(p, q) ==
  \/ my[p] # Undefined
  \/ ~use_master_slave(p) /\ owners(p, link[p], order[p], master[p]) \ {q} # {}

(* Every partner but the one the change comes from is told. *)
told_partners(p, links, v, fields, src) ==
  [q \in Processes |->
     IF q \notin partners(p) THEN links[q]
     ELSE IF q = src THEN AddMyVariableModification(links[q], v)
     ELSE ChangeMyVariable(links[q], v, fields)]

(* internalUpdateExistingVariable, -RedefineExistingVariable, -DefineNewVariable *)
internalChangeMyVariable(p, links, c, v, fields, src, gen_cb) ==
  LET update == compareTypeAndLimits(my[p], v)
      told == IF update THEN fields ELSE DOMAIN v
  IN  /\ my' = [my EXCEPT ![p] = v]
      /\ changes' = [changes EXCEPT ![p] = IF gen_cb THEN add_foreign_updates(c, v, told, ~update)
                                                     ELSE add_my_updates(c, v)]
      /\ link' = [link EXCEPT ![p] = told_partners(p, links, v, told, src)]

----------------------------------------------------------------------------
(* Master and slave *)

(* The variable of the new master takes the place of that of the old one. *)
switch_master_variables(c, old, new) ==
  IF new = old THEN c
  ELSE IF new = Undefined THEN deleted
  ELSE IF compareTypeAndLimits(new, old)
    THEN add_foreign_updates(c, new, diffAllFields(new, old), FALSE)
    ELSE add_foreign_updates(c, new, DOMAIN new, TRUE)

his_of(links, m) == IF m = Nobody THEN Undefined ELSE links[m].his

front_or_nobody(seq) == IF plan.msv_always_connect /\ seq # <<>> THEN Head(seq) ELSE Nobody

(* msv_refresh_internal: whom it chooses.  A partner has a name since his INIT. *)
chosen_master(p, links, seq, name) ==
  IF name \in ToSet(seq) /\ "received_init" \in links[name].init THEN name
  ELSE IF plan.msv_always_connect /\ master[p] # Nobody THEN master[p]
  ELSE front_or_nobody(seq)

msv_refresh_internal(p, links, seq, name) ==
  LET m == chosen_master(p, links, seq, name)
  IN  /\ master' = [master EXCEPT ![p] = m]
      /\ changes' = [changes EXCEPT ![p] =
           switch_master_variables(@, his_of(links, master[p]), his_of(links, m))]

----------------------------------------------------------------------------
(* Bounds *)

may(p, op) == <<p, op>> \in DOMAIN left /\ left[<<p, op>>] > 0
does(p, op) == /\ may(p, op)
               /\ left' = [left EXCEPT ![<<p, op>>] = @ - 1]
               /\ UNCHANGED plan

(* A behaviour starts when partners have connected and told each other their
   filters and the variable of the plan's owner, if there is one. *)
has_from(p, q) == q = plan.owner /\ {p, q} \in plan.links /\ filter[p]
settled(p, q) ==
  [NewPartner EXCEPT
     !.init = IF {p, q} \in plan.links THEN Handshake ELSE {},
     !.his = IF has_from(p, q) THEN plan.first ELSE Undefined,
     !.his_id = IF has_from(p, q) THEN 0 ELSE -1,
     !.wants = filter[q] /\ {p, q} \in plan.links,
     !.told_filter = filter[p] /\ {p, q} \in plan.links,
     !.sent = IF has_from(q, p) THEN DOMAIN plan.first ELSE {},
     !.ids = IF has_from(q, p) THEN update_fully(0) ELSE NoIds]

Init ==
  /\ plan \in Plans
  /\ left = plan.ops
  /\ my = [p \in Processes |-> IF p = plan.owner THEN plan.first ELSE Undefined]
  /\ filter = [p \in Processes |-> p \in plan.filters]
  /\ order = [p \in Processes |-> SetToSeq({q \in Processes \ {p} : {p, q} \in plan.links})]
  /\ link = [p \in Processes |-> [q \in Processes |-> settled(p, q)]]
  /\ changes = [p \in Processes |-> NoChange]
  /\ master_name = [p \in Processes |-> Nobody]
  /\ master = [p \in Processes |->
                 IF use_master_slave(p) THEN front_or_nobody(order[p]) ELSE Nobody]
  /\ seen = [p \in Processes |-> GetVariable(p)]
  /\ channel = [p \in Processes |-> [q \in Processes |-> <<>>]]

----------------------------------------------------------------------------
(* What a user does *)

(* DefineMyVariable: a partner's variable of this name collides from now on. *)
Define(p, v, gen_cb) ==
  LET marked == [q \in Processes |->
                   [link[p][q] EXCEPT !.collides = @ \/ (q \in partners(p) /\ link[p][q].his # Undefined)]]
  IN  /\ does(p, "define")
      /\ internalChangeMyVariable(p, marked, IF gen_cb THEN deleted ELSE NoChange,
                                  v, DOMAIN v, Nobody, gen_cb)
      /\ seen' = IF gen_cb THEN seen ELSE [seen EXCEPT ![p] = v]
      /\ UNCHANGED <<filter, order, channel, mastering>>

(* UndefineVariable: a partner's variable may take the place of mine. *)
Undefine(p, gen_cb) ==
  LET undefined == [q \in Processes |-> IF q \in partners(p) THEN UndefineMyVariable(link[p][q])
                                                             ELSE link[p][q]]
      next == tryDefineSomeCollidingVariable(p, Undefined, undefined, order[p], master[p],
                                             IF gen_cb THEN deleted ELSE NoChange)
  IN  /\ my[p] # Undefined
      /\ does(p, "undefine")
      /\ my' = [my EXCEPT ![p] = Undefined]
      /\ link' = [link EXCEPT ![p] = next.links]
      /\ changes' = [changes EXCEPT ![p] = next.changes]
      /\ seen' = IF gen_cb THEN seen ELSE [seen EXCEPT ![p] = Undefined]
      /\ UNCHANGED <<filter, order, channel, mastering>>

(* What the user of a change without a callback knows himself. *)
noted(p, i, x, gen_cb) ==
  seen' = IF gen_cb \/ i \notin DOMAIN seen[p] THEN seen ELSE [seen EXCEPT ![p][i] = x]

(* ChangeVariable..., the variable being mine *)
ChangeMine(p, i, x, gen_cb) ==
  /\ i \in DOMAIN my[p] /\ my[p][i] # x
  /\ does(p, "change")
  /\ internalChangeMyVariable(p, link[p], changes[p], [my[p] EXCEPT ![i] = x], {i}, Nobody, gen_cb)
  /\ noted(p, i, x, gen_cb)
  /\ UNCHANGED <<filter, order, channel, mastering>>

(* ChangeVariable..., the variable being a partner's: it is changed here at once,
   and a MOD waits for him. *)
ChangePartnerVariable(p, q, i, x, gen_cb) ==
  LET l == link[p][q]
      v == [l.his EXCEPT ![i] = x]
  IN  /\ my[p] = Undefined
      /\ q \in owners(p, link[p], order[p], master[p])
      /\ i \in DOMAIN l.his /\ l.his[i] # x
      /\ does(p, "change")
      /\ link' = [link EXCEPT ![p][q] = [l EXCEPT !.his = v,
                                            !.his_to_send = push_back_or_update(@, v, {i})]]
      /\ changes' = [changes EXCEPT ![p] = IF gen_cb THEN add_foreign_updates(@, v, {i}, FALSE)
                                                     ELSE add_my_updates(@, v)]
      /\ noted(p, i, x, gen_cb)
      /\ UNCHANGED <<my, filter, order, channel, mastering>>

(* SetFilters; the partners are told when something is sent *)
SetFilters(p) ==
  /\ does(p, "filter")
  /\ filter' = [filter EXCEPT ![p] = ~@]
  /\ UNCHANGED <<my, order, link, changes, seen, channel, mastering>>

SetMaster(p, name) ==
  /\ use_master_slave(p)
  /\ does(p, "master")
  /\ master_name' = [master_name EXCEPT ![p] = name]
  /\ msv_refresh_internal(p, link[p], order[p], name)
  /\ UNCHANGED <<my, filter, order, link, seen, channel>>

(* GetVariableChanges: the callback *)
GetVariableChanges(p) ==
  /\ changes[p] # NoChange
  /\ seen' = [seen EXCEPT ![p] = apply_var_changes(@, changes[p])]
  /\ changes' = [changes EXCEPT ![p] = NoChange]
  /\ UNCHANGED <<my, filter, order, link, channel, mastering, bounds>>

----------------------------------------------------------------------------
(* Connections *)

(* nowConnected on both sides *)
Connect(p, q) ==
  LET links(x, y) == [link[x] EXCEPT ![y] = NewPartner]
      refreshed(x, y) == IF use_master_slave(x)
                           THEN chosen_master(x, links(x, y), Append(order[x], y), master_name[x])
                           ELSE master[x]
  IN  /\ q \notin partners(p) /\ p \notin partners(q)
      /\ does(p, "connect")
      /\ order' = [order EXCEPT ![p] = Append(@, q), ![q] = Append(@, p)]
      /\ link' = [link EXCEPT ![p] = links(p, q), ![q] = links(q, p)]
      /\ channel' = [channel EXCEPT ![p][q] = <<>>, ![q][p] = <<>>]
      /\ master' = [master EXCEPT ![p] = refreshed(p, q), ![q] = refreshed(q, p)]
      /\ changes' = [changes EXCEPT
           ![p] = switch_master_variables(@, his_of(links(p, q), master[p]),
                                          his_of(links(p, q), refreshed(p, q))),
           ![q] = switch_master_variables(@, his_of(links(q, p), master[q]),
                                          his_of(links(q, p), refreshed(q, p)))]
      /\ UNCHANGED <<my, filter, seen, master_name>>

(* erasePartner: his variable goes with him, and another may take its place *)
erasePartner(p, q) ==
  LET rest == RemoveAt(order[p], Min(places(order[p], {q})))
      l == link[p][q]
      gone == [link[p] EXCEPT ![q] = NewPartner]
      successor == IF master[p] = q THEN front_or_nobody(rest) ELSE master[p]
      next == IF l.his = Undefined THEN [links |-> gone, changes |-> changes[p]]
              ELSE tryDefineSomeCollidingVariable(p, my[p], gone, rest, Nobody,
                                                  IF l.collides THEN changes[p] ELSE deleted)
  IN  /\ order' = [order EXCEPT ![p] = rest]
      /\ IF use_master_slave(p)
           THEN /\ master' = [master EXCEPT ![p] = successor]
                /\ changes' = [changes EXCEPT ![p] =
                     switch_master_variables(@, his_of(link[p], master[p]),
                                             his_of(link[p], successor))]
                /\ link' = [link EXCEPT ![p] = gone]
           ELSE /\ link' = [link EXCEPT ![p] = next.links]
                /\ changes' = [changes EXCEPT ![p] = next.changes]
                /\ UNCHANGED master
      /\ channel' = [channel EXCEPT ![q][p] = <<>>]
      /\ UNCHANGED <<my, filter, seen, master_name>>

(* The connection fails at one end, and the other end learns of it later. *)
Lose(p, q) ==
  /\ q \in partners(p) /\ p \in partners(q)
  /\ does(p, "lose")
  /\ erasePartner(p, q)

Ended(p, q) ==
  /\ q \in partners(p) /\ p \notin partners(q)
  /\ erasePartner(p, q)
  /\ UNCHANGED bounds

----------------------------------------------------------------------------
(* Sending *)

post(p, q, ms) ==
  channel' = IF p \in partners(q) THEN [channel EXCEPT ![p][q] = @ \o ms] ELSE channel

message(what, id, v, wants) == [what |-> what, id |-> id, value |-> v, wants |-> wants]
only(v, fields) == [i \in fields |-> v[i]]

(* EvalSendForPartner before the end of the handshake.  An INIT is answered; and
   sent, unless we have sent one and his has come; and sent again by a timer. *)
unanswered(l) == "received_init" \in l.init /\ "sent_init_acc" \notin l.init

wants_init(l) == ~inited(l) /\ ~({"received_init", "sent_init"} \subseteq l.init)

EvalSendForPartner(p, q, again) ==
  LET l == link[p][q]
      answers == unanswered(l)
      asks == wants_init(l) /\ ("sent_init" \in l.init => again)
      bare(what) == <<message(what, 0, Undefined, FALSE)>>
  IN  /\ q \in partners(p)
      /\ answers \/ asks
      /\ IF again THEN asks /\ "sent_init" \in l.init /\ does(p, "retry") ELSE UNCHANGED bounds
      /\ post(p, q, (IF answers THEN bare("INIT-ACC") ELSE <<>>)
                    \o (IF asks THEN bare("INIT") ELSE <<>>))
      /\ link' = [link EXCEPT ![p][q].init = @ \cup (IF answers THEN {"sent_init_acc"} ELSE {})
                                               \cup (IF asks THEN {"sent_init"} ELSE {})]
      /\ UNCHANGED <<my, filter, order, changes, seen, mastering>>

(* EvalSendForPartnerWhenInited sends to him. *)
can_send(p, q) == q \in partners(p) /\ inited(link[p][q]) /\ ~unanswered(link[p][q])

(* try_send_filters *)
SendFilters(p, q) ==
  /\ can_send(p, q)
  /\ link[p][q].told_filter # filter[p]
  /\ link' = [link EXCEPT ![p][q].told_filter = filter[p]]
  /\ post(p, q, <<message("FILT", 0, Undefined, filter[p])>>)
  /\ UNCHANGED <<my, filter, order, changes, seen, mastering, bounds>>

(* add_his_variables_to_send and update_his_variable_state_after_send *)
SendHis(p, q) ==
  LET l == link[p][q]
      queued == l.his_to_send
  IN  /\ can_send(p, q)
      /\ queued.fields # {}
      /\ post(p, q, <<message("MOD", l.his_id, only(queued.value, queued.fields), FALSE)>>)
      /\ link' = [link EXCEPT ![p][q] = [l EXCEPT !.his = copy_indexes(@, queued.value, queued.fields),
                                            !.his_to_send = Nothing]]
      /\ UNCHANGED <<my, filter, order, changes, seen, mastering, bounds>>

(* add_my_variables_to_send and update_my_variable_state_after_send *)
SendMine(p, q) ==
  LET l == link[p][q]
      e == l.to_send
      id == get_next_id(l.ids)
  IN  /\ can_send(p, q)
      /\ e.what # "none"
      /\ post(p, q, <<message(CASE e.what = "undefine" -> "UNDEF"
                                [] e.what = "define" -> "DEF"
                                [] e.what = "update" -> "SET",
                              id, only(e.value, e.fields), FALSE)>>)
      /\ link' = [link EXCEPT ![p][q] = [l EXCEPT !.to_send = NoEvent, !.sent = DOMAIN e.value,
                                            !.ids = IF e.what = "update"
                                                      THEN update_from_variable(@, e.fields, id)
                                                      ELSE update_fully(id)]]
      /\ UNCHANGED <<my, filter, order, changes, seen, mastering, bounds>>

----------------------------------------------------------------------------
(* Receiving: process p takes the next message of partner q *)

next_message(p, q) == Head(channel[q][p])
takes(p, q, what) ==
  /\ q \in partners(p)
  /\ channel[q][p] # <<>>
  /\ next_message(p, q).what = what
  /\ channel' = [channel EXCEPT ![q][p] = Tail(@)]

(* ProcessINIT: now he has a name, and he is to be answered, each time. *)
ProcessINIT(p, q) ==
  LET links == [link[p] EXCEPT ![q].init = (@ \cup {"received_init"}) \ {"sent_init_acc"}]
  IN  /\ takes(p, q, "INIT")
      /\ link' = [link EXCEPT ![p] = links]
      /\ IF use_master_slave(p) THEN msv_refresh_internal(p, links, order[p], master_name[p])
                               ELSE UNCHANGED <<master, changes>>
      /\ UNCHANGED <<my, filter, order, seen, master_name, bounds>>

ProcessINIT_ACC(p, q) ==
  /\ takes(p, q, "INIT-ACC")
  /\ link' = [link EXCEPT ![p][q].init = @ \cup {"received_init_acc"}]
  /\ UNCHANGED <<my, filter, order, changes, seen, mastering, bounds>>

(* Changes of a partner's variable the user is told of. *)
told_of(p, q) == ~link[p][q].collides /\ (use_master_slave(p) => master[p] = q)

(* A MOD is for the variable it was made from: no DEF or UNDEF waits for the
   partner, and he has been sent none since. *)
applicable(p, q, m) ==
  /\ link[p][q].to_send.what \notin {"define", "undefine"}
  /\ is_safe_to_apply(link[p][q].ids, m.id)
  /\ my[p] # Undefined

ProcessMOD(p, q) ==
  LET m == next_message(p, q)
      v == copy_indexes(my[p], m.value, DOMAIN m.value)
      fields == diff_event_fields(link[p][q].ids, v, diffAllFields(v, my[p]), m.id)
  IN  /\ takes(p, q, "MOD")
      /\ IF applicable(p, q, m) /\ fields # {}
           THEN internalChangeMyVariable(p, link[p], changes[p], copy_indexes(my[p], v, fields),
                                         fields, q, TRUE)
           ELSE UNCHANGED <<my, changes, link>>
      /\ UNCHANGED <<filter, order, seen, mastering, bounds>>

ProcessSET(p, q) ==
  LET m == next_message(p, q)
      l == link[p][q]
      v == copy_indexes(l.his, m.value, DOMAIN m.value)
      fields == diffAllFields(v, l.his)
  IN  /\ takes(p, q, "SET")
      /\ link' = IF l.his = Undefined THEN link
                 ELSE [link EXCEPT ![p][q] = [l EXCEPT !.his = v, !.his_id = m.id,
                        !.his_to_send = erase_variable_changes_from_queue(@, fields)]]
      /\ changes' = IF fields # {} /\ told_of(p, q)
                      THEN [changes EXCEPT ![p] = add_foreign_updates(@, v, fields, FALSE)]
                      ELSE changes
      /\ UNCHANGED <<my, filter, order, seen, mastering, bounds>>

ProcessDEF(p, q) ==
  LET m == next_message(p, q)
      l == link[p][q]
      collides == doesPartnerVariableCollide(p, q)
  IN  /\ takes(p, q, "DEF")
      /\ link' = [link EXCEPT ![p][q] = [l EXCEPT !.his = m.value, !.his_id = m.id,
                                            !.his_to_send = Nothing,
                                            !.collides = @ \/ collides]]
      /\ changes' = IF ~collides /\ (use_master_slave(p) => master[p] = q)
                      THEN [changes EXCEPT ![p] =
                              add_foreign_updates(@, m.value, DOMAIN m.value, TRUE)]
                      ELSE changes
      /\ UNCHANGED <<my, filter, order, seen, mastering, bounds>>

ProcessUNDEF(p, q) ==
  LET m == next_message(p, q)
      erased == [link[p] EXCEPT ![q] = [@ EXCEPT !.his = Undefined, !.his_id = m.id,
                                          !.his_to_send = Nothing, !.collides = FALSE]]
      next == tryDefineSomeCollidingVariable(p, my[p], erased, order[p], master[p],
                                             IF told_of(p, q) THEN deleted ELSE changes[p])
  IN  /\ takes(p, q, "UNDEF")
      /\ IF link[p][q].his = Undefined
           THEN /\ link' = [link EXCEPT ![p][q] = [@ EXCEPT !.his_id = m.id, !.his_to_send = Nothing]]
                /\ UNCHANGED changes
           ELSE /\ link' = [link EXCEPT ![p] = next.links]
                /\ changes' = [changes EXCEPT ![p] = next.changes]
      /\ UNCHANGED <<my, filter, order, seen, mastering, bounds>>

(* FILT_DEF and FILT_UNDEF, with MergeMyVariablesByChangedFilters *)
ProcessFILT(p, q) ==
  LET l == [link[p][q] EXCEPT !.wants = next_message(p, q).wants]
  IN  /\ takes(p, q, "FILT")
      /\ link' = [link EXCEPT ![p][q] =
                    IF my[p] = Undefined THEN l
                    ELSE IF l.wants THEN ChangeMyVariable(l, my[p], DOMAIN my[p])
                    ELSE UndefineMyVariable(l)]
      /\ UNCHANGED <<my, filter, order, changes, seen, mastering, bounds>>

----------------------------------------------------------------------------
Use(p) ==
  \/ \E n \in Sizes : \E v \in values(n), cb \in plan.callbacks : Define(p, v, cb)
  \/ \E cb \in plan.callbacks : Undefine(p, cb)
  \/ \E i \in 1 .. Max(Sizes), x \in Values, cb \in plan.callbacks :
       \/ ChangeMine(p, i, x, cb)
       \/ \E q \in partners(p) : ChangePartnerVariable(p, q, i, x, cb)
  \/ SetFilters(p)
  \/ \E name \in Processes : SetMaster(p, name)
  \/ GetVariableChanges(p)

Exchange(p, q) ==
  \/ Connect(p, q) \/ Lose(p, q) \/ Ended(p, q)
  \/ \E again \in BOOLEAN : EvalSendForPartner(p, q, again)
  \/ SendFilters(p, q) \/ SendHis(p, q) \/ SendMine(p, q)
  \/ ProcessINIT(p, q) \/ ProcessINIT_ACC(p, q)
  \/ ProcessMOD(p, q) \/ ProcessSET(p, q) \/ ProcessDEF(p, q)
  \/ ProcessUNDEF(p, q) \/ ProcessFILT(p, q)

Next == \E p \in Processes : Use(p) \/ \E q \in Processes \ {p} : Exchange(p, q)

Spec == Init /\ [][Next]_vars

----------------------------------------------------------------------------
(* Properties *)

Variable == {Undefined} \cup Defined

(* Types of the state. *)
TypeOK ==
  /\ my \in [Processes -> Variable] /\ seen \in [Processes -> Variable]
  /\ filter \in [Processes -> BOOLEAN]
  /\ \A p \in Processes :
       /\ partners(p) \subseteq Processes \ {p} /\ IsInjective(order[p])
       /\ master[p] \in partners(p) \cup {Nobody}
       /\ changes[p].kind \in {"none", "created", "updated", "deleted"}
       /\ changes[p].value \in Variable
       /\ \A q \in Processes :
            /\ link[p][q].his \in Variable /\ link[p][q].to_send.value \in Variable
            /\ link[p][q].his_id \in Int /\ link[p][q].ids.default \in Int
            /\ link[p][q].init \subseteq Handshake
            /\ link[p][q].collides \in BOOLEAN /\ link[p][q].wants \in BOOLEAN

(* The handshake comes before everything else, and is over when anything else
   comes: an INIT makes the states of the buffers anew, so what was said with the old
   ones would be lost (ReceivedTextData asserts that they are there). *)
InitComesFirst ==
  \A p \in Processes : \A q \in partners(p) :
    channel[q][p] # <<>> =>
      IF next_message(p, q).what = "INIT" THEN ~inited(link[p][q])
      ELSE next_message(p, q).what # "INIT-ACC" => "received_init" \in link[p][q].init

(* The state has its types, the handshake comes first, and the other assertions of
   the code never fail: a MOD that is applied is of the type of the variable, and so
   is what the sender of the MOD was last sent (AddMyVariableModification); a SET or
   an UNDEF is of a variable the partner has defined (his_vars_setcmd_id), a SET of its type; what waits for a
   partner is of the type he was sent or defines it
   (update_my_variable_state_after_send); and a name a partner has defined has
   one owner at most (ChangePartnerVariableNoMasterSlave). *)
AssertionsHold ==
  /\ TypeOK
  /\ InitComesFirst
  /\ \A p \in Processes : \A q \in partners(p) :
       LET l == link[p][q]
           m == next_message(p, q)
       IN  /\ l.his_to_send.fields \subseteq DOMAIN l.his
           /\ l.to_send.what = "update" => l.sent = DOMAIN l.to_send.value
           /\ l.to_send.what = "undefine" => l.sent # {}
           /\ channel[q][p] # <<>> =>
                /\ m.what = "SET" => DOMAIN m.value \subseteq DOMAIN l.his
                /\ m.what \in {"SET", "UNDEF"} => l.his_id # -1
                /\ m.what = "MOD" /\ applicable(p, q, m) =>
                     /\ DOMAIN m.value \subseteq DOMAIN my[p]
                     /\ IF l.to_send.what = "none" THEN l.sent = DOMAIN my[p]
                        ELSE DOMAIN l.to_send.value = DOMAIN my[p]

(* When two partners have nothing more to send each other, their handshake is done
   and each has of the other's variable what the other has, if he asked for it, and
   nothing if he did not: whatever changes of both crossed on the way, were
   dropped or were merged. *)
quiet(p, q) ==
  LET l == link[p][q]
  IN  /\ q \in partners(p)
      /\ channel[p][q] = <<>>
      /\ ~unanswered(l) /\ (wants_init(l) => "sent_init" \in l.init)
      /\ inited(l) => /\ l.to_send.what = "none" /\ l.his_to_send.fields = {}
                      /\ l.told_filter = filter[p]

AgreeWhenQuiet ==
  \A p, q \in Processes :
    quiet(p, q) /\ quiet(q, p) =>
      /\ inited(link[p][q])
      /\ link[p][q].his = IF filter[p] THEN my[q] ELSE Undefined

(* A user who applies the changes of his next callback to what he knows has the
   variable GetVariable gives: no change is lost, told twice over a newer one, or
   told of too few fields, whoever made it (created, updated and deleted of
   CmVarChanges, merged by add_foreign_changes and add_my_changes). *)
ViewAgrees ==
  \A p \in Processes : apply_var_changes(seen[p], changes[p]) = GetVariable(p)

(* Of the variables a process sees under one name just one counts: its own, else
   that of one partner; the others' wait as colliding until it goes. *)
OneOwner ==
  \A p \in Processes \ plan.use_master_slave :
    LET who == owners(p, link[p], order[p], Nobody)
    IN  IF my[p] # Undefined THEN who = {}
        ELSE Cardinality(who) = IF counted(p, link[p], order[p], Nobody) = {} THEN 0 ELSE 1
=============================================================================
