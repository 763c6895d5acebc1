----------------------------- MODULE VarChanges -----------------------------
(***************************************************************************)
(* What CmVarChanges keeps of one variable for the user's next callback:   *)
(* nothing, or that it was created, updated or deleted.  A value is a      *)
(* function from the indices of an array to what is there; the indices     *)
(* stand for type, size and limits, and no indices for "not defined".      *)
(* Empty EventFields, which mean the whole variable, are all indices.      *)
(***************************************************************************)
EXTENDS Integers

Undefined == <<>>
NoChange == [kind |-> "none", value |-> Undefined, fields |-> {}]
created(v) == [kind |-> "created", value |-> v, fields |-> DOMAIN v]
updated(v, fields) == [kind |-> "updated", value |-> v, fields |-> fields]
deleted == [kind |-> "deleted", value |-> Undefined, fields |-> {}]

compareTypeAndLimits(u, v) == DOMAIN u = DOMAIN v

(* EventFields of v against u *)
diffAllFields(v, u) == {i \in DOMAIN v : v[i] # u[i]}
copy_indexes(u, v, fields) == [i \in DOMAIN u |-> IF i \in fields THEN v[i] ELSE u[i]]

(* The change is already in created, or must go there. *)
recreated(c, v) ==
  \/ c.kind = "created"
  \/ c.kind = "updated" /\ ~compareTypeAndLimits(c.value, v)

(* Mutated form: an update that waits is replaced, not widened. *)
add_foreign_updates_last(c, v, fields, was_created) ==
  IF recreated(c, v) \/ was_created THEN created(v) ELSE updated(v, fields)

add_foreign_updates(c, v, fields, was_created) ==
  IF recreated(c, v) THEN created(v)
  ELSE IF c.kind = "updated" THEN updated(v, DOMAIN v)
  ELSE IF was_created THEN created(v) ELSE updated(v, fields)

(* A change the user makes himself goes only where a change waits for him. *)
add_my_updates(c, v) ==
  IF recreated(c, v) THEN created(v)
  ELSE IF c.kind = "updated" THEN updated(v, DOMAIN v) ELSE NoChange

(* What a user who has seen `seen` knows after the callback.  Of an update he
   takes the indices it names, if he has a variable of that type. *)
apply_var_changes(seen, c) ==
  CASE c.kind = "none" -> seen
    [] c.kind = "deleted" -> Undefined
    [] c.kind = "created" -> c.value
    [] c.kind = "updated" -> IF compareTypeAndLimits(seen, c.value)
                               THEN copy_indexes(seen, c.value, c.fields) ELSE c.value
=============================================================================
