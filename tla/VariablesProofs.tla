-------------------------- MODULE VariablesProofs --------------------------
(***************************************************************************)
(* What a user is told of a name, for every number of processes, variables *)
(* and plans.  First the contract of CmVarChanges: a change added to one   *)
(* that waits leaves the user, after his callback, with the new value.     *)
(* Then, along every step of the processes: of the variables under a name  *)
(* one counts, and with the changes that wait for him the user knows it.   *)
(* Last, what two partners hold of each other's variable and what is on    *)
(* its way between them: no assertion about a message fails, and when      *)
(* nothing is left to send each has what the other has.                    *)
(***************************************************************************)
EXTENDS Variables, SequenceTheorems, FiniteSetTheorems, NaturalsInduction, WellFoundedInduction, TLAPS

(* The contract of CmVarChanges *)

IsValue(v) == v = [i \in DOMAIN v |-> v[i]]

Kinds == {"none", "created", "updated", "deleted"}

(* copy_indexes of all indices, or of all that differ, gives the other value. *)
LEMMA CopiedIsEqual ==
  ASSUME NEW u, NEW v, NEW fields, IsValue(v), compareTypeAndLimits(u, v),
         diffAllFields(v, u) \subseteq fields
  PROVE  copy_indexes(u, v, fields) = v
<1>1. copy_indexes(u, v, fields) = [i \in DOMAIN v |-> IF i \in fields THEN v[i] ELSE u[i]]
  BY DEF copy_indexes, compareTypeAndLimits
<1>2. \A i \in DOMAIN v : i \notin fields => u[i] = v[i]
  BY DEF diffAllFields
<1>3. \A i \in DOMAIN v : (IF i \in fields THEN v[i] ELSE u[i]) = v[i]
  BY <1>2
<1>4. [i \in DOMAIN v |-> IF i \in fields THEN v[i] ELSE u[i]] = [i \in DOMAIN v |-> v[i]]
  BY <1>3
<1> QED BY <1>1, <1>4 DEF IsValue

(* What the user has after the callback is the value, where all of it is told. *)
LEMMA WholeIsTold ==
  ASSUME NEW known, NEW v, IsValue(v)
  PROVE  /\ apply_var_changes(known, created(v)) = v
         /\ apply_var_changes(known, updated(v, DOMAIN v)) = v
<1>1. apply_var_changes(known, created(v)) = v
  BY DEF apply_var_changes, created
<1>2. apply_var_changes(known, updated(v, DOMAIN v))
        = IF compareTypeAndLimits(known, v) THEN copy_indexes(known, v, DOMAIN v) ELSE v
  BY DEF apply_var_changes, updated
<1>3. compareTypeAndLimits(known, v) => copy_indexes(known, v, DOMAIN v) = v
  <2>1. diffAllFields(v, known) \subseteq DOMAIN v BY DEF diffAllFields
  <2> QED BY <2>1, CopiedIsEqual
<1> QED BY <1>1, <1>2, <1>3

(* A variable that is defined, by a partner or with a callback by the user, is told
   as it is, whatever waited (add_foreign_changes, created). *)
THEOREM CreatedIsTold ==
  ASSUME NEW known, NEW c, NEW v, IsValue(v)
  PROVE  apply_var_changes(known, add_foreign_updates(c, v, DOMAIN v, TRUE)) = v
<1>1. add_foreign_updates(c, v, DOMAIN v, TRUE) \in {created(v), updated(v, DOMAIN v)}
  BY DEF add_foreign_updates
<1> QED BY <1>1, WholeIsTold

(* An update is told over a waiting change: of fields that hold all that differs from
   what the user would have had, the user gets the whole new value
   (add_foreign_changes, updated). *)
THEOREM UpdatedIsTold ==
  ASSUME NEW known, NEW c, NEW v, NEW fields,
         c.kind \in Kinds, IsValue(v),
         compareTypeAndLimits(apply_var_changes(known, c), v),
         diffAllFields(v, apply_var_changes(known, c)) \subseteq fields
  PROVE  apply_var_changes(known, add_foreign_updates(c, v, fields, FALSE)) = v
<1>1. CASE recreated(c, v) \/ c.kind = "updated"
  <2>1. add_foreign_updates(c, v, fields, FALSE) \in {created(v), updated(v, DOMAIN v)}
    BY <1>1 DEF add_foreign_updates
  <2> QED BY <2>1, WholeIsTold
<1>2. CASE ~recreated(c, v) /\ c.kind # "updated"
  <2>1. c.kind \in {"none", "deleted"}
    BY <1>2 DEF recreated, Kinds
  <2>2. apply_var_changes(known, add_foreign_updates(c, v, fields, FALSE))
          = IF compareTypeAndLimits(known, v) THEN copy_indexes(known, v, fields) ELSE v
    BY <1>2 DEF add_foreign_updates, apply_var_changes, updated
  <2>3. CASE c.kind = "none"
    <3>1. apply_var_changes(known, c) = known BY <2>3 DEF apply_var_changes
    <3> QED BY <2>2, <3>1, CopiedIsEqual
  <2>4. CASE c.kind = "deleted"
    <3>1. apply_var_changes(known, c) = Undefined BY <2>4 DEF apply_var_changes
    <3>2. DOMAIN v = {}
      BY <3>1 DEF compareTypeAndLimits, Undefined
    <3>3. diffAllFields(v, known) \subseteq fields BY <3>2 DEF diffAllFields
    <3> QED BY <2>2, <3>3, CopiedIsEqual
  <2> QED BY <2>1, <2>3, <2>4
<1> QED BY <1>1, <1>2

(* The user's own change without a callback reaches him through the change that
   waits, if one does; if none does he knows it himself (add_my_changes). *)
THEOREM OwnChangeIsKept ==
  ASSUME NEW known, NEW c, NEW v, IsValue(v),
         c.kind \notin {"created", "updated"} => known = v
  PROVE  apply_var_changes(known, add_my_updates(c, v)) = v
<1>1. CASE recreated(c, v) \/ c.kind = "updated"
  <2>1. add_my_updates(c, v) \in {created(v), updated(v, DOMAIN v)}
    BY <1>1 DEF add_my_updates
  <2> QED BY <2>1, WholeIsTold
<1>2. CASE ~recreated(c, v) /\ c.kind # "updated"
  <2>1. add_my_updates(c, v) = NoChange /\ known = v
    BY <1>2 DEF add_my_updates, recreated
  <2> QED BY <2>1 DEF apply_var_changes, NoChange
<1> QED BY <1>1, <1>2

----------------------------------------------------------------------------
(* Numbers, variables and the list of partners *)

(* A set of natural numbers that is not empty has a least one. *)
LEMMA LeastNat ==
  ASSUME NEW T, T \subseteq Nat, T # {}
  PROVE  \E x \in T : \A y \in T : x <= y
<1> DEFINE R == {ss \in Nat \X Nat : ss[1] < ss[2]}
<1>1. IsWellFoundedOn(R, Nat)
  BY NatLessThanWellFounded DEF OpToRel
<1>2. PICK x \in T : \A y \in T : ~(<<y, x>> \in R)
  BY <1>1, WFMin
<1>3. ASSUME NEW y \in T PROVE x <= y
  <2>1. x \in Nat /\ y \in Nat
    OBVIOUS
  <2>2. ~(y < x)
    BY <1>2, <2>1
  <2> QED BY <2>1, <2>2
<1> QED BY <1>2, <1>3

(* A finite set of numbers that is not empty has a last one, so Max is one of it. *)
LEMMA LastOfFinite ==
  ASSUME NEW S, IsFiniteSet(S), S \subseteq Int, S # {}
  PROVE  \E x \in S : \A y \in S : x >= y
<1> DEFINE above(x) == {y \in S : y > x}
           T == {Cardinality(above(x)) : x \in S}
<1>1. \A x \in S : IsFiniteSet(above(x)) /\ Cardinality(above(x)) \in Nat
  BY FS_Subset, FS_CardinalityType
<1>2. T \subseteq Nat /\ T # {}
  BY <1>1
<1>3. PICK n \in T : \A k \in T : n <= k
  <2> HIDE DEF T
  <2> QED BY <1>2, LeastNat
<1>4. PICK x \in S : n = Cardinality(above(x))
  OBVIOUS
<1>5. ASSUME NEW y \in S, y > x PROVE FALSE
  <2>1. above(y) \subseteq above(x) /\ y \in above(x) /\ y \notin above(y)
    <3>1. x \in Int /\ \A z \in S : z \in Int
      OBVIOUS
    <3>2. \A z \in S : z > y => z > x
      BY <1>5, <3>1
    <3>3. ~(y > y)
      BY <3>1
    <3> QED BY <1>5, <3>2, <3>3
  <2>2. Cardinality(above(y)) < Cardinality(above(x))
    <3> DEFINE A == above(y)
               B == above(x)
    <3>1. IsFiniteSet(B) /\ A \subseteq B /\ A # B
      BY <1>1, <2>1
    <3> HIDE DEF A, B
    <3>2. Cardinality(A) <= Cardinality(B) /\ (Cardinality(A) = Cardinality(B) => A = B)
      BY <3>1, FS_Subset
    <3>3. Cardinality(A) \in Nat /\ Cardinality(B) \in Nat
      BY <3>1, FS_Subset, FS_CardinalityType
    <3> QED BY <3>1, <3>2, <3>3 DEF A, B
  <2>3. n <= Cardinality(above(y))
    BY <1>3
  <2> QED BY <1>1, <1>4, <2>2, <2>3
<1>6. \A y \in S : x >= y
  BY <1>5
<1> QED BY <1>6

LEMMA MaxIsOne ==
  ASSUME NEW S, IsFiniteSet(S), S \subseteq Int, S # {}
  PROVE  Max(S) \in S
BY LastOfFinite DEF Max
----------------------------------------------------------------------------
(* The types of the state *)

Part == UNION {[S -> Values] : S \in SUBSET Nat}
Numbered == [default : Int, at : UNION {[S -> Int] : S \in {T \in SUBSET Nat : IsFiniteSet(T)}}]
ChangeSet == [kind : Kinds, value : Variable, fields : SUBSET Nat]
Events == [what : {"none", "define", "update", "undefine"}, value : Variable, fields : SUBSET Nat]
Queued == [value : Variable, fields : SUBSET Nat]
Links == [init : SUBSET Handshake, his : Variable, his_id : Int, his_to_send : Queued,
          collides : BOOLEAN, wants : BOOLEAN, told_filter : BOOLEAN,
          sent : SUBSET Nat, ids : Numbered, to_send : Events]
Messages == {m \in [what : {"INIT", "INIT-ACC", "FILT", "MOD", "SET", "DEF", "UNDEF"},
                    id : Int, value : Part, wants : BOOLEAN] : m.what = "DEF" => m.value \in Defined}
Orders(p) == {seq \in Seq(Processes) : p \notin ToSet(seq) /\ IsInjective(seq)}

(* A variable has some indices, 1 to its size, or is not defined and has none. *)
LEMMA VariableFacts ==
  ASSUME NEW v \in Variable
  PROVE  /\ IsValue(v) /\ IsFiniteSet(DOMAIN v) /\ DOMAIN v \subseteq Nat
         /\ (v = Undefined) <=> (DOMAIN v = {})
         /\ \A i \in DOMAIN v : v[i] \in Values
         /\ v # Undefined => v \in Defined
<1>1. CASE v = Undefined
  <2>1. DOMAIN v = {} /\ v = [i \in DOMAIN v |-> v[i]]
    BY <1>1 DEF Undefined
  <2> QED BY <1>1, <2>1, FS_EmptySet DEF IsValue
<1>2. CASE v \in Defined
  <2>1. PICK n \in Sizes : v \in [1 .. n -> Values]
    BY <1>2 DEF Defined, values
  <2>2. n \in Nat \ {0}
    BY VariablesAssumption
  <2>3. DOMAIN v = 1 .. n /\ 1 \in DOMAIN v
    BY <2>1, <2>2
  <2>4. IsFiniteSet(1 .. n)
    BY <2>2, FS_Interval
  <2>5. v # Undefined
    <3>1. DOMAIN Undefined = {}
      BY DEF Undefined
    <3> QED BY <2>3, <3>1
  <2> QED BY <1>2, <2>1, <2>2, <2>3, <2>4, <2>5 DEF IsValue
<1> QED BY <1>1, <1>2 DEF Variable

LEMMA DefinedFacts ==
  ASSUME NEW v \in Defined
  PROVE  v \in Variable /\ v # Undefined
<1>1. v \in Variable
  BY DEF Variable
<1>2. PICK n \in Sizes : v \in [1 .. n -> Values]
  BY DEF Defined, values
<1>3. 1 \in DOMAIN v
  BY <1>2, VariablesAssumption
<1> QED BY <1>1, <1>3, VariableFacts

(* What has the indices of a variable, and values there, is a variable. *)
LEMMA SameShape ==
  ASSUME NEW v \in Variable, NEW u, IsValue(u), DOMAIN u = DOMAIN v,
         \A i \in DOMAIN v : u[i] \in Values
  PROVE  u \in Variable /\ (u = Undefined <=> v = Undefined)
<1>1. CASE v = Undefined
  <2>1. DOMAIN v = {}
    BY <1>1, VariableFacts
  <2>2. u = [i \in {} |-> u[i]]
    BY <2>1 DEF IsValue
  <2>3. u = Undefined
    BY <2>2 DEF Undefined
  <2> QED BY <1>1, <2>3
<1>2. CASE v # Undefined
  <2>1. PICK n \in Sizes : v \in [1 .. n -> Values]
    BY <1>2, VariableFacts DEF Defined, values
  <2>2. u \in [1 .. n -> Values]
    BY <2>1 DEF IsValue
  <2>3. u \in Defined
    BY <2>2 DEF Defined, values
  <2>4. DOMAIN u # {}
    BY <1>2, VariableFacts
  <2> QED BY <1>2, <2>3, <2>4, VariableFacts DEF Variable
<1> QED BY <1>1, <1>2

LEMMA CopiedType ==
  ASSUME NEW u \in Variable, NEW v, NEW fields, \A i \in fields \cap DOMAIN u : v[i] \in Values
  PROVE  /\ copy_indexes(u, v, fields) \in Variable
         /\ DOMAIN copy_indexes(u, v, fields) = DOMAIN u
<1> DEFINE w == copy_indexes(u, v, fields)
<1>1. w = [i \in DOMAIN u |-> IF i \in fields THEN v[i] ELSE u[i]]
  BY DEF copy_indexes
<1>2. IsValue(w) /\ DOMAIN w = DOMAIN u
  BY <1>1 DEF IsValue
<1>3. \A i \in DOMAIN u : w[i] \in Values
  BY <1>1, VariableFacts
<1> HIDE DEF w
<1>4. w \in Variable
  BY <1>2, <1>3, SameShape
<1> QED BY <1>2, <1>4 DEF w

LEMMA ChangedType ==
  ASSUME NEW v \in Variable, NEW i \in DOMAIN v, NEW x \in Values
  PROVE  /\ [v EXCEPT ![i] = x] \in Variable
         /\ DOMAIN [v EXCEPT ![i] = x] = DOMAIN v
         /\ diffAllFields([v EXCEPT ![i] = x], v) \subseteq {i}
<1> DEFINE w == [v EXCEPT ![i] = x]
<1>1. IsValue(w) /\ DOMAIN w = DOMAIN v /\ \A j \in DOMAIN v : w[j] = IF j = i THEN x ELSE v[j]
  BY VariableFacts DEF IsValue
<1>2. \A j \in DOMAIN v : w[j] \in Values
  BY <1>1, VariableFacts
<1>3. diffAllFields(w, v) \subseteq {i}
  BY <1>1 DEF diffAllFields
<1> HIDE DEF w
<1>4. w \in Variable
  BY <1>1, <1>2, SameShape
<1> QED BY <1>1, <1>3, <1>4 DEF w

----------------------------------------------------------------------------
(* The list of partners *)

LEMMA PlacesFacts ==
  ASSUME NEW seq \in Seq(Processes), NEW who, who \subseteq ToSet(seq), who # {}
  PROVE  /\ places(seq, who) \subseteq Nat /\ places(seq, who) # {}
         /\ IsFiniteSet(places(seq, who))
         /\ \A i \in places(seq, who) : i \in 1 .. Len(seq) /\ seq[i] \in who
<1>1. DOMAIN seq = 1 .. Len(seq) /\ Len(seq) \in Nat
  OBVIOUS
<1>2. places(seq, who) \subseteq 1 .. Len(seq)
  BY <1>1 DEF places
<1>3. IsFiniteSet(1 .. Len(seq))
  BY <1>1, FS_Interval
<1>4. IsFiniteSet(places(seq, who))
  BY <1>2, <1>3, FS_Subset
<1>5. PICK q \in who : TRUE
  OBVIOUS
<1>6. PICK i \in DOMAIN seq : seq[i] = q
  BY <1>5 DEF ToSet
<1>7. i \in places(seq, who)
  BY <1>5, <1>6 DEF places
<1>8. \A j \in places(seq, who) : seq[j] \in who
  BY DEF places
<1> QED BY <1>1, <1>2, <1>4, <1>7, <1>8

(* The first of some partners in the list, and the last, are among them. *)
LEMMA FirstPlace ==
  ASSUME NEW seq \in Seq(Processes), NEW who, who \subseteq ToSet(seq), who # {}
  PROVE  /\ Min(places(seq, who)) \in 1 .. Len(seq)
         /\ seq[Min(places(seq, who))] \in who
<1> DEFINE S == places(seq, who)
<1>1. S \subseteq Nat /\ S # {} /\ \A i \in S : i \in 1 .. Len(seq) /\ seq[i] \in who
  BY PlacesFacts
<1> HIDE DEF S
<1>2. \E x \in S : \A y \in S : x <= y
  BY <1>1, LeastNat
<1>3. Min(S) \in S
  BY <1>2 DEF Min
<1> QED BY <1>1, <1>3 DEF S

LEMMA LastPlace ==
  ASSUME NEW seq \in Seq(Processes), NEW who, who \subseteq ToSet(seq), who # {}
  PROVE  seq[Max(places(seq, who))] \in who
<1> DEFINE S == places(seq, who)
<1>1. /\ S \subseteq Int /\ S # {} /\ IsFiniteSet(S)
      /\ \A i \in S : i \in 1 .. Len(seq) /\ seq[i] \in who
  BY PlacesFacts
<1> HIDE DEF S
<1>2. Max(S) \in S
  BY <1>1, MaxIsOne
<1> QED BY <1>1, <1>2 DEF S

LEMMA AppendedOrder ==
  ASSUME NEW p \in Processes, NEW seq \in Orders(p), NEW q \in Processes \ {p}, q \notin ToSet(seq)
  PROVE  /\ Append(seq, q) \in Orders(p)
         /\ ToSet(Append(seq, q)) = ToSet(seq) \cup {q}
<1> DEFINE new == Append(seq, q)
<1>1. seq \in Seq(Processes) /\ p \notin ToSet(seq) /\ IsInjective(seq)
  BY DEF Orders
<1>2. /\ new \in Seq(Processes) /\ Len(new) = Len(seq) + 1
      /\ \A i \in 1 .. Len(seq) : new[i] = seq[i]
      /\ new[Len(seq) + 1] = q
  BY <1>1, AppendProperties
<1> HIDE DEF new
<1>3. /\ DOMAIN seq = 1 .. Len(seq) /\ DOMAIN new = 1 .. Len(seq) + 1 /\ Len(seq) \in Nat
  BY <1>1, <1>2
<1>4. ToSet(new) = ToSet(seq) \cup {q}
  BY <1>2, <1>3 DEF ToSet
<1>5. IsInjective(new)
  <2> SUFFICES ASSUME NEW i \in DOMAIN new, NEW j \in DOMAIN new, new[i] = new[j] PROVE i = j
    BY DEF IsInjective
  <2>1. \A k \in 1 .. Len(seq) : seq[k] # q
    BY <1>3 DEF ToSet
  <2>2. CASE i \in 1 .. Len(seq) /\ j \in 1 .. Len(seq)
    BY <1>1, <1>2, <1>3, <2>2 DEF IsInjective
  <2>3. CASE i = Len(seq) + 1
    BY <1>2, <1>3, <2>1, <2>3
  <2>4. CASE j = Len(seq) + 1
    BY <1>2, <1>3, <2>1, <2>4
  <2> QED BY <1>3, <2>2, <2>3, <2>4
<1> QED BY <1>1, <1>2, <1>4, <1>5 DEF Orders, new

LEMMA ErasedOrder ==
  ASSUME NEW p \in Processes, NEW seq \in Orders(p), NEW q \in ToSet(seq)
  PROVE  /\ RemoveAt(seq, Min(places(seq, {q}))) \in Orders(p)
         /\ ToSet(RemoveAt(seq, Min(places(seq, {q})))) = ToSet(seq) \ {q}
<1>1. seq \in Seq(Processes) /\ p \notin ToSet(seq) /\ IsInjective(seq)
  BY DEF Orders
<1>2. PICK k \in 1 .. Len(seq) : k = Min(places(seq, {q})) /\ seq[k] = q
  BY <1>1, FirstPlace
<1> DEFINE front == SubSeq(seq, 1, k - 1)
           back == SubSeq(seq, k + 1, Len(seq))
           rest == RemoveAt(seq, k)
<1>3. DOMAIN seq = 1 .. Len(seq) /\ Len(seq) \in Nat /\ k \in Nat /\ \A i \in 1 .. Len(seq) : seq[i] \in Processes
  BY <1>1
<1>4. /\ front \in Seq(Processes) /\ Len(front) = k - 1
      /\ \A i \in 1 .. k - 1 : front[i] = seq[i]
  <2>1. \A i \in 1 .. k - 1 : seq[i] \in Processes
    BY <1>3
  <2>2. 1 \in Int /\ k - 1 \in Int
    BY <1>3
  <2> HIDE DEF front
  <2> QED BY <2>1, <2>2, <1>3, SubSeqProperties DEF front
<1>5. /\ back \in Seq(Processes) /\ Len(back) = Len(seq) - k
      /\ \A i \in 1 .. Len(seq) - k : back[i] = seq[k + i]
  <2>1. \A i \in k + 1 .. Len(seq) : seq[i] \in Processes
    BY <1>3
  <2>2. k + 1 \in Int /\ Len(seq) \in Int
    BY <1>3
  <2>3. /\ back \in Seq(Processes)
        /\ Len(back) = IF k + 1 <= Len(seq) THEN Len(seq) - (k + 1) + 1 ELSE 0
        /\ \A i \in 1 .. Len(seq) - (k + 1) + 1 : back[i] = seq[k + 1 + i - 1]
    BY <2>1, <2>2, SubSeqProperties
  <2> HIDE DEF back
  <2>4. Len(back) = Len(seq) - k
    <3>1. \/ k + 1 <= Len(seq) /\ Len(seq) - (k + 1) + 1 = Len(seq) - k
          \/ ~(k + 1 <= Len(seq)) /\ Len(seq) - k = 0
      <4>1. PICK n \in Nat : n = Len(seq)
        BY <1>3
      <4>2. k \in 1 .. n
        BY <4>1
      <4>3. \/ k + 1 <= n /\ n - (k + 1) + 1 = n - k
            \/ ~(k + 1 <= n) /\ n - k = 0
        BY <4>2
      <4> QED BY <4>1, <4>3
    <3> QED BY <2>3, <3>1
  <2>5. ASSUME NEW i \in 1 .. Len(seq) - k PROVE back[i] = seq[k + i]
    <3>1. i \in 1 .. Len(seq) - (k + 1) + 1 /\ k + 1 + i - 1 = k + i
      BY <1>3
    <3> QED BY <2>3, <3>1
  <2> QED BY <2>3, <2>4, <2>5
<1>6. rest = front \o back
  BY DEF RemoveAt
<1> HIDE DEF front, back, rest
<1>7. /\ rest \in Seq(Processes) /\ Len(rest) = Len(seq) - 1
      /\ \A i \in 1 .. Len(seq) - 1 : rest[i] = IF i < k THEN seq[i] ELSE seq[i + 1]
  <2>1. /\ rest \in Seq(Processes) /\ Len(rest) = Len(front) + Len(back)
        /\ \A i \in 1 .. Len(front) + Len(back) :
             rest[i] = IF i <= Len(front) THEN front[i] ELSE back[i - Len(front)]
    BY <1>4, <1>5, <1>6, ConcatProperties
  <2>2. Len(rest) = Len(seq) - 1
    BY <1>3, <1>4, <1>5, <2>1
  <2>3. ASSUME NEW i \in 1 .. Len(seq) - 1 PROVE rest[i] = IF i < k THEN seq[i] ELSE seq[i + 1]
    <3>1. i \in 1 .. Len(front) + Len(back)
      BY <1>3, <1>4, <1>5
    <3>2. CASE i < k
      <4>1. i <= Len(front) /\ i \in 1 .. k - 1
        BY <1>3, <1>4, <3>2
      <4> QED BY <1>4, <2>1, <3>1, <3>2, <4>1
    <3>3. CASE ~(i < k)
      <4>1. ~(i <= Len(front)) /\ i - Len(front) \in 1 .. Len(seq) - k /\ k + (i - Len(front)) = i + 1
        BY <1>3, <1>4, <3>3
      <4>2. back[i - Len(front)] = seq[i + 1]
        BY <1>5, <4>1
      <4> QED BY <2>1, <3>1, <3>3, <4>1, <4>2
    <3> QED BY <3>2, <3>3
  <2> QED BY <2>1, <2>2, <2>3
<1>8. DOMAIN rest = 1 .. Len(seq) - 1
  BY <1>3, <1>7
<1> DEFINE at(i) == IF i < k THEN i ELSE i + 1
<1>9. \A i \in DOMAIN rest : at(i) \in DOMAIN seq /\ rest[i] = seq[at(i)] /\ at(i) # k
  BY <1>3, <1>7, <1>8
<1>10. ToSet(rest) = ToSet(seq) \ {q}
  <2>1. ASSUME NEW i \in DOMAIN rest PROVE rest[i] \in ToSet(seq) \ {q}
    BY <1>1, <1>2, <1>3, <1>9 DEF ToSet, IsInjective
  <2>2. ASSUME NEW x \in ToSet(seq) \ {q} PROVE x \in ToSet(rest)
    <3>1. PICK j \in DOMAIN seq : seq[j] = x
      BY DEF ToSet
    <3>2. j # k
      BY <1>2, <3>1
    <3>3. CASE j < k
      <4>1. j \in DOMAIN rest /\ at(j) = j
        BY <1>3, <1>8, <3>3
      <4> QED BY <1>9, <3>1, <4>1 DEF ToSet
    <3>4. CASE j > k
      <4>1. j - 1 \in DOMAIN rest /\ at(j - 1) = j
        BY <1>3, <1>8, <3>4
      <4> QED BY <1>9, <3>1, <4>1 DEF ToSet
    <3> QED BY <1>3, <3>1, <3>2, <3>3, <3>4
  <2> QED BY <2>1, <2>2 DEF ToSet
<1>11. IsInjective(rest)
  <2> SUFFICES ASSUME NEW i \in DOMAIN rest, NEW j \in DOMAIN rest, rest[i] = rest[j] PROVE i = j
    BY DEF IsInjective
  <2>1. at(i) = at(j)
    <3>1. at(i) \in DOMAIN seq /\ at(j) \in DOMAIN seq /\ seq[at(i)] = seq[at(j)]
      BY <1>9
    <3> HIDE DEF at
    <3> QED BY <1>1, <3>1 DEF IsInjective
  <2> QED BY <1>3, <1>8, <2>1
<1> QED BY <1>1, <1>2, <1>7, <1>10, <1>11 DEF Orders, rest

(* The partners at the start are listed, each once. *)
LEMMA FirstOrder ==
  ASSUME NEW p \in Processes, NEW S, S \subseteq Processes \ {p}
  PROVE  SetToSeq(S) \in Orders(p) /\ ToSet(SetToSeq(S)) = S
<1>1. IsFiniteSet(S)
  BY VariablesAssumption, FS_Subset
<1> DEFINE n == Cardinality(S)
           f == SetToSeq(S)
<1>2. n \in Nat /\ ExistsBijection(1 .. n, S)
  BY <1>1, FS_CardinalityType
<1>3. \E g \in [1 .. n -> S] : IsInjective(g)
  <2>1. PICK g : g \in Bijection(1 .. n, S)
    BY <1>2 DEF ExistsBijection
  <2>2. g \in [1 .. n -> S] /\ IsInjective(g)
    BY <2>1 DEF Bijection, Injection, IsInjective
  <2> QED BY <2>2
<1>4. f \in [1 .. n -> S] /\ IsInjective(f)
  BY <1>3 DEF SetToSeq
<1>5. f \in Injection(1 .. n, S)
  BY <1>4 DEF Injection
<1> HIDE DEF f
<1>6. f \in Surjection(1 .. n, S)
  <2>1. IsFiniteSet(1 .. n) /\ Cardinality(1 .. n) = Cardinality(S)
    BY <1>1, <1>2, FS_CountingElements, FS_Interval
  <2> HIDE DEF n
  <2> QED BY <1>1, <1>5, <2>1, FS_Injection
<1> QED BY <1>2, <1>4, <1>6 DEF Orders, ToSet, Surjection, f

----------------------------------------------------------------------------
(* What a process has with a partner *)

(* The changes that wait for his variable are of it as it is here; only a variable
   collides; what waits of mine is of mine, and he wants it. *)
Coherent(l, mine) ==
  /\ l.his_to_send.fields \subseteq DOMAIN l.his
  /\ \A i \in l.his_to_send.fields : l.his_to_send.value[i] = l.his[i]
  /\ l.his = Undefined => ~l.collides
  /\ l.to_send.what = "undefine" => l.to_send.value = Undefined /\ l.to_send.fields = {}
  /\ l.to_send.what \in {"define", "update"} =>
       /\ l.wants /\ mine # Undefined
       /\ DOMAIN l.to_send.value = DOMAIN mine /\ l.to_send.fields \subseteq DOMAIN mine
       /\ l.to_send.what = "define" => l.to_send.fields = DOMAIN mine

(* A partner record of which only what waits for the partner is another. *)
SaysNow(l, e) == [l EXCEPT !.to_send = e]

LEMMA SaysNowFacts ==
  ASSUME NEW l \in Links, NEW e \in Events
  PROVE  /\ SaysNow(l, e) \in Links /\ SaysNow(l, e).to_send = e
         /\ SaysNow(l, e).his = l.his /\ SaysNow(l, e).collides = l.collides
         /\ SaysNow(l, e).his_to_send = l.his_to_send /\ SaysNow(l, e).wants = l.wants
BY DEF SaysNow, Links

LEMMA SaidCoherent ==
  ASSUME NEW l \in Links, NEW mine, NEW v, Coherent(l, mine), NEW e \in Events,
         e.what = "undefine" => e.value = Undefined /\ e.fields = {},
         e.what \in {"define", "update"} =>
           /\ l.wants /\ v # Undefined
           /\ DOMAIN e.value = DOMAIN v /\ e.fields \subseteq DOMAIN v
           /\ e.what = "define" => e.fields = DOMAIN v
  PROVE  Coherent(SaysNow(l, e), v)
<1> DEFINE n == SaysNow(l, e)
<1>1. /\ n.to_send = e /\ n.his = l.his /\ n.collides = l.collides
      /\ n.his_to_send = l.his_to_send /\ n.wants = l.wants
  BY SaysNowFacts
<1> HIDE DEF n
<1>2. Coherent(n, v)
  BY <1>1 DEF Coherent
<1> QED BY <1>2 DEF n

(* What waits for a partner after a change of mine is of mine as it is now. *)
LEMMA ChangeIsSaid ==
  ASSUME NEW l \in Links, NEW mine, NEW v \in Defined, Coherent(l, mine),
         NEW fields \in SUBSET DOMAIN v
  PROVE  \E e \in Events : /\ ChangeMyVariable(l, v, fields) = SaysNow(l, e)
                           /\ Coherent(SaysNow(l, e), v)
<1>1. v \in Variable /\ v # Undefined /\ DOMAIN v \subseteq Nat
  BY DefinedFacts, VariableFacts
<1>2. l.to_send \in Events /\ l.wants \in BOOLEAN
  BY DEF Links
<1>3. l = SaysNow(l, l.to_send)
  BY DEF SaysNow, Links
<1>4. CASE ~l.wants
  <2>1. /\ l.to_send.what \notin {"define", "update"}
        /\ l.to_send.what = "undefine" => l.to_send.value = Undefined /\ l.to_send.fields = {}
    BY <1>4 DEF Coherent
  <2>2. Coherent(SaysNow(l, l.to_send), v)
    BY <1>2, <2>1, SaidCoherent
  <2> QED BY <1>2, <1>3, <1>4, <2>2 DEF ChangeMyVariable
<1>5. CASE l.wants
  <2> DEFINE old == l.to_send
             keeps == \/ old.what # "none" /\ compareTypeAndLimits(old.value, v)
                      \/ old.what = "none" /\ l.sent = DOMAIN v
             new == IF keeps THEN update_existing(old, v, fields) ELSE full_define_variable(v)
  <2>1. ChangeMyVariable(l, v, fields) = SaysNow(l, new)
    BY <1>5 DEF ChangeMyVariable, SaysNow
  <2>2. full_define_variable(v) = [what |-> "define", value |-> v, fields |-> DOMAIN v]
    BY DEF full_define_variable, event
  <2>3. CASE ~keeps
    <3>1. new = [what |-> "define", value |-> v, fields |-> DOMAIN v]
      BY <2>2, <2>3
    <3> HIDE DEF new, keeps, old
    <3>2. new \in Events
      BY <1>1, <3>1 DEF Events
    <3>3. Coherent(SaysNow(l, new), v)
      BY <1>1, <1>5, <3>1, <3>2, SaidCoherent
    <3> QED BY <2>1, <3>2, <3>3
  <2>4. CASE keeps /\ old.what = "none"
    <3>1. new = [what |-> "update", value |-> v, fields |-> fields]
      BY <2>4 DEF update_existing, event
    <3> HIDE DEF new, keeps, old
    <3>2. new \in Events
      BY <1>1, <3>1 DEF Events
    <3>3. Coherent(SaysNow(l, new), v)
      BY <1>1, <1>5, <3>1, <3>2, SaidCoherent
    <3> QED BY <2>1, <3>2, <3>3
  <2>5. CASE keeps /\ old.what # "none"
    <3>1. DOMAIN old.value = DOMAIN v
      BY <2>5 DEF compareTypeAndLimits
    <3>2. old.what \in {"define", "update"} /\ old.value \in Variable /\ old.fields \subseteq DOMAIN v
      <4>1. old.what \in {"none", "define", "update", "undefine"} /\ old.value \in Variable
        BY <1>2 DEF Events
      <4>2. old.what # "undefine"
        <5>1. old.what = "undefine" => old.value = Undefined
          BY DEF Coherent
        <5>2. DOMAIN old.value # {}
          BY <1>1, <3>1, VariableFacts
        <5> QED BY <4>1, <5>1, <5>2, VariableFacts
      <4>3. old.what \in {"define", "update"}
        BY <2>5, <4>1, <4>2
      <4>4. DOMAIN old.value = DOMAIN mine /\ old.fields \subseteq DOMAIN mine
        BY <4>3 DEF Coherent
      <4> QED BY <3>1, <4>1, <4>3, <4>4
    <3> DEFINE some == IF DOMAIN v \in {fields, old.fields} THEN DOMAIN v
                       ELSE diffAllFields(v, old.value) \cup old.fields \cup fields
    <3>3. new = [what |-> old.what, value |-> v, fields |-> some]
      BY <2>5 DEF update_existing, event
    <3>4. some \subseteq DOMAIN v
      BY <3>2 DEF diffAllFields
    <3>5. old.what = "define" => some = DOMAIN v
      <4>1. old.what = "define" => old.fields = DOMAIN v
        BY <3>1 DEF Coherent
      <4> QED BY <4>1
    <3> HIDE DEF new, keeps, old, some
    <3>6. new \in Events
      <4>1. some \in SUBSET Nat
        BY <1>1, <3>4
      <4> QED BY <1>1, <3>2, <3>3, <4>1 DEF Events
    <3>7. Coherent(SaysNow(l, new), v)
      <4>1. /\ new.what = old.what /\ DOMAIN new.value = DOMAIN v /\ new.fields = some
        BY <3>3
      <4> QED BY <1>1, <1>5, <3>2, <3>4, <3>5, <3>6, <4>1, SaidCoherent
    <3> QED BY <2>1, <3>6, <3>7
  <2> QED BY <2>3, <2>4, <2>5
<1> QED BY <1>2, <1>4, <1>5

LEMMA OwnChangeIsSaid ==
  ASSUME NEW l \in Links, NEW mine, NEW v \in Defined, Coherent(l, mine), DOMAIN v = DOMAIN mine,
         v # Undefined, l.to_send.what \notin {"define", "undefine"}
  PROVE  \E e \in Events : /\ AddMyVariableModification(l, v) = SaysNow(l, e)
                           /\ Coherent(SaysNow(l, e), v)
<1>1. l.to_send \in Events /\ l = SaysNow(l, l.to_send)
  BY DEF Links, SaysNow
<1>2. l.to_send.what \in {"none", "update"}
  BY <1>1 DEF Events
<1>3. CASE l.to_send.what = "none"
  <2>1. PICK e \in Events : e = l.to_send
    BY <1>1
  <2>2. e.what = "none"
    BY <1>3, <2>1
  <2>3. Coherent(SaysNow(l, e), v)
    BY <2>2, SaidCoherent
  <2> QED BY <1>1, <1>3, <2>1, <2>3 DEF AddMyVariableModification
<1>4. CASE l.to_send.what = "update"
  <2>1. PICK e : e = [l.to_send EXCEPT !.value = v]
    OBVIOUS
  <2>2. e \in Events /\ e.what = "update" /\ e.value = v /\ e.fields = l.to_send.fields
    BY <1>1, <1>4, <2>1 DEF Events, Variable
  <2>3. AddMyVariableModification(l, v) = SaysNow(l, e)
    BY <1>4, <2>1 DEF AddMyVariableModification, SaysNow
  <2>4. l.wants /\ l.to_send.fields \subseteq DOMAIN v
    BY <1>4 DEF Coherent
  <2>5. Coherent(SaysNow(l, e), v)
    BY <2>2, <2>4, SaidCoherent
  <2> QED BY <2>2, <2>3, <2>5
<1> QED BY <1>2, <1>3, <1>4

LEMMA UndefinedIsSaid ==
  ASSUME NEW l \in Links, NEW mine, Coherent(l, mine)
  PROVE  \E e \in Events : /\ UndefineMyVariable(l) = SaysNow(l, e)
                           /\ \A v : Coherent(SaysNow(l, e), v)
<1>1. PICK e : e = IF l.sent # {} THEN event("undefine", Undefined, {}) ELSE NoEvent
  OBVIOUS
<1>2. e \in Events /\ e.what \in {"none", "undefine"} /\ e.value = Undefined /\ e.fields = {}
  BY <1>1 DEF Events, event, NoEvent, Variable
<1>3. UndefineMyVariable(l) = SaysNow(l, e)
  BY <1>1 DEF UndefineMyVariable, SaysNow
<1>4. \A v : Coherent(SaysNow(l, e), v)
  BY <1>2, SaidCoherent
<1> QED BY <1>2, <1>3, <1>4

----------------------------------------------------------------------------
(* What a process holds, its user's view and its partners *)

Counted(links, seq) == {q \in ToSet(seq) : links[q].his # Undefined}
Owning(links, seq) == {q \in Counted(links, seq) : ~links[q].collides}

(* The partner records of a process: the others have none. *)
Partners(mine, links, seq) ==
  /\ links \in [Processes -> Links]
  /\ \A q \in Processes : Coherent(links[q], mine) /\ (q \notin ToSet(seq) => links[q] = NewPartner)

(* Without master and slave: his own variable counts and all others collide, or one
   partner's does; and what counts is what the user will know. *)
OneCounts(mine, view, links, seq) ==
  IF mine # Undefined THEN Owning(links, seq) = {} /\ view = mine
  ELSE \/ Counted(links, seq) = {} /\ view = Undefined
       \/ \E q \in ToSet(seq) : Owning(links, seq) = {q} /\ view = links[q].his

(* With a master, and nothing of his own: the master's variable counts. *)
MasterCounts(mine, view, links, m) ==
  /\ mine = Undefined
  /\ \A q \in Processes : ~links[q].collides
  /\ view = his_of(links, m)

(* Records of two moments with the same variables of the partners. *)
SameVariables(links, new) ==
  \A q \in Processes : new[q].his = links[q].his /\ new[q].collides = links[q].collides

LEMMA SameCounts ==
  ASSUME NEW mine, NEW view, NEW links, NEW new, NEW seq \in Seq(Processes), SameVariables(links, new)
  PROVE  /\ Counted(new, seq) = Counted(links, seq) /\ Owning(new, seq) = Owning(links, seq)
         /\ OneCounts(mine, view, links, seq) => OneCounts(mine, view, new, seq)
         /\ \A m \in ToSet(seq) \cup {Nobody} :
              MasterCounts(mine, view, links, m) => MasterCounts(mine, view, new, m)
<1>1. ToSet(seq) \subseteq Processes
  BY DEF ToSet
<1>2. \A q \in ToSet(seq) : new[q].his = links[q].his /\ new[q].collides = links[q].collides
  BY <1>1 DEF SameVariables
<1>3. Counted(new, seq) = Counted(links, seq) /\ Owning(new, seq) = Owning(links, seq)
  BY <1>2 DEF Counted, Owning
<1>4. OneCounts(mine, view, links, seq) => OneCounts(mine, view, new, seq)
  BY <1>2, <1>3 DEF OneCounts
<1>5. \A m \in ToSet(seq) \cup {Nobody} : his_of(new, m) = his_of(links, m)
  BY <1>2 DEF his_of
<1>6. (\A q \in Processes : ~links[q].collides) => \A q \in Processes : ~new[q].collides
  BY DEF SameVariables
<1> QED BY <1>3, <1>4, <1>5, <1>6 DEF MasterCounts

(* What the partners are told of a change of mine. *)
LEMMA PartnersTold ==
  ASSUME NEW p \in Processes, NEW links, NEW mine, NEW v \in Defined, Partners(mine, links, order[p]),
         NEW fields \in SUBSET DOMAIN v, NEW src,
         src \in partners(p) =>
           DOMAIN v = DOMAIN mine /\ links[src].to_send.what \notin {"define", "undefine"}
  PROVE  /\ Partners(v, told_partners(p, links, v, fields, src), order[p])
         /\ SameVariables(links, told_partners(p, links, v, fields, src))
<1> DEFINE new == told_partners(p, links, v, fields, src)
<1>1. \A q \in Processes : links[q] \in Links /\ Coherent(links[q], mine)
  BY DEF Partners
<1>2. v # Undefined
  BY DefinedFacts
<1>3. ASSUME NEW q \in Processes
      PROVE  \E e \in Events : /\ new[q] = SaysNow(links[q], e)
                               /\ Coherent(SaysNow(links[q], e), v)
                               /\ q \notin partners(p) => new[q] = NewPartner
  <2>1. CASE q \notin partners(p)
    <3>1. new[q] = links[q] /\ links[q] = NewPartner
      BY <2>1 DEF told_partners, Partners, partners
    <3>2. links[q].to_send = NoEvent /\ NoEvent \in Events
      BY <3>1 DEF NewPartner, NoEvent, Events, Variable
    <3>3. SaysNow(links[q], NoEvent) = links[q]
      BY <1>1, <3>2 DEF SaysNow, Links
    <3>4. Coherent(SaysNow(links[q], NoEvent), v)
      BY <1>1, <3>2, SaidCoherent DEF NoEvent
    <3> QED BY <3>1, <3>2, <3>3, <3>4
  <2>2. CASE q \in partners(p) /\ q = src
    <3>1. new[q] = AddMyVariableModification(links[q], v)
      BY <2>2 DEF told_partners
    <3> QED BY <1>1, <1>2, <2>2, <3>1, OwnChangeIsSaid
  <2>3. CASE q \in partners(p) /\ q # src
    <3>1. new[q] = ChangeMyVariable(links[q], v, fields)
      BY <2>3 DEF told_partners
    <3> QED BY <1>1, <2>3, <3>1, ChangeIsSaid
  <2> QED BY <2>1, <2>2, <2>3
<1>4. new = [q \in Processes |-> new[q]]
  BY DEF told_partners
<1> HIDE DEF new
<1>5. ASSUME NEW q \in Processes
      PROVE  /\ new[q] \in Links /\ Coherent(new[q], v)
             /\ q \notin ToSet(order[p]) => new[q] = NewPartner
             /\ new[q].his = links[q].his /\ new[q].collides = links[q].collides
  <2>1. PICK e \in Events : /\ new[q] = SaysNow(links[q], e)
                            /\ Coherent(SaysNow(links[q], e), v)
                            /\ q \notin partners(p) => new[q] = NewPartner
    BY <1>3
  <2> QED BY <1>1, <2>1, SaysNowFacts DEF partners
<1>6. new \in [Processes -> Links]
  BY <1>4, <1>5
<1> QED BY <1>5, <1>6 DEF Partners, SameVariables, new

----------------------------------------------------------------------------
(* What the user will know *)

LEMMA ChangeTypes ==
  ASSUME NEW c, NEW v \in Variable, NEW fields \in SUBSET Nat, NEW was_created \in BOOLEAN
  PROVE  /\ NoChange \in ChangeSet /\ deleted \in ChangeSet
         /\ add_foreign_updates(c, v, fields, was_created) \in ChangeSet
         /\ add_my_updates(c, v) \in ChangeSet
<1>1. DOMAIN v \in SUBSET Nat /\ Undefined \in Variable
  BY VariableFacts DEF Variable
<1>2. created(v) \in ChangeSet /\ updated(v, fields) \in ChangeSet /\ updated(v, DOMAIN v) \in ChangeSet
  BY <1>1 DEF created, updated, ChangeSet, Kinds
<1>3. NoChange \in ChangeSet /\ deleted \in ChangeSet
  BY <1>1 DEF NoChange, deleted, ChangeSet, Kinds
<1> QED BY <1>2, <1>3 DEF add_foreign_updates, add_my_updates

LEMMA ViewType ==
  ASSUME NEW s \in Variable, NEW c \in ChangeSet
  PROVE  apply_var_changes(s, c) \in Variable
<1>1. c.kind \in Kinds /\ c.value \in Variable
  BY DEF ChangeSet
<1>2. CASE c.kind = "updated" /\ compareTypeAndLimits(s, c.value)
  <2>1. \A i \in c.fields \cap DOMAIN s : c.value[i] \in Values
    BY <1>1, <1>2, VariableFacts DEF compareTypeAndLimits
  <2>2. copy_indexes(s, c.value, c.fields) \in Variable
    BY <2>1, CopiedType
  <2> QED BY <1>2, <2>2 DEF apply_var_changes
<1>3. CASE ~(c.kind = "updated" /\ compareTypeAndLimits(s, c.value))
  BY <1>1, <1>3 DEF apply_var_changes, Kinds, Variable
<1> QED BY <1>2, <1>3

LEMMA NoneWaits ==
  ASSUME NEW s
  PROVE  apply_var_changes(s, NoChange) = s /\ apply_var_changes(s, deleted) = Undefined
BY DEF apply_var_changes, NoChange, deleted

LEMMA TellsCreated ==
  ASSUME NEW s, NEW c, NEW v \in Variable
  PROVE  /\ add_foreign_updates(c, v, DOMAIN v, TRUE) \in ChangeSet
         /\ apply_var_changes(s, add_foreign_updates(c, v, DOMAIN v, TRUE)) = v
<1>1. IsValue(v) /\ DOMAIN v \in SUBSET Nat
  BY VariableFacts
<1>2. add_foreign_updates(c, v, DOMAIN v, TRUE) \in ChangeSet
  BY <1>1, ChangeTypes
<1>3. apply_var_changes(s, add_foreign_updates(c, v, DOMAIN v, TRUE)) = v
  BY <1>1, CreatedIsTold
<1> QED BY <1>2, <1>3

LEMMA TellsUpdated ==
  ASSUME NEW s, NEW c \in ChangeSet, NEW v \in Variable, NEW fields \in SUBSET Nat,
         compareTypeAndLimits(apply_var_changes(s, c), v),
         diffAllFields(v, apply_var_changes(s, c)) \subseteq fields
  PROVE  /\ add_foreign_updates(c, v, fields, FALSE) \in ChangeSet
         /\ apply_var_changes(s, add_foreign_updates(c, v, fields, FALSE)) = v
<1>1. IsValue(v) /\ c.kind \in Kinds
  BY VariableFacts DEF ChangeSet
<1>2. add_foreign_updates(c, v, fields, FALSE) \in ChangeSet
  BY ChangeTypes
<1>3. apply_var_changes(s, add_foreign_updates(c, v, fields, FALSE)) = v
  BY <1>1, UpdatedIsTold
<1> QED BY <1>2, <1>3

(* The variable of a new master takes the place of that of the old one. *)
LEMMA MasterIsTold ==
  ASSUME NEW s, NEW c \in ChangeSet, NEW old \in Variable, NEW new \in Variable,
         apply_var_changes(s, c) = old
  PROVE  /\ switch_master_variables(c, old, new) \in ChangeSet
         /\ apply_var_changes(s, switch_master_variables(c, old, new)) = new
<1> DEFINE t == switch_master_variables(c, old, new)
<1>1. IsValue(new) /\ DOMAIN new \in SUBSET Nat
  BY VariableFacts
<1>2. CASE new = old
  BY <1>2 DEF switch_master_variables
<1>3. CASE new # old /\ new = Undefined
  <2>1. t = deleted
    BY <1>3 DEF switch_master_variables
  <2> QED BY <1>3, <2>1, NoneWaits, ChangeTypes
<1>4. CASE new # old /\ new # Undefined /\ compareTypeAndLimits(old, new)
  <2>1. t = add_foreign_updates(c, new, diffAllFields(new, old), FALSE)
    BY <1>4 DEF switch_master_variables, compareTypeAndLimits
  <2>2. diffAllFields(new, old) \in SUBSET Nat
    BY <1>1 DEF diffAllFields
  <2>3. /\ add_foreign_updates(c, new, diffAllFields(new, old), FALSE) \in ChangeSet
        /\ apply_var_changes(s, add_foreign_updates(c, new, diffAllFields(new, old), FALSE)) = new
    <3> DEFINE fields == diffAllFields(new, old)
    <3>1. /\ fields \in SUBSET Nat /\ compareTypeAndLimits(apply_var_changes(s, c), new)
          /\ diffAllFields(new, apply_var_changes(s, c)) \subseteq fields
      BY <1>4, <2>2
    <3> HIDE DEF fields
    <3>2. /\ add_foreign_updates(c, new, fields, FALSE) \in ChangeSet
          /\ apply_var_changes(s, add_foreign_updates(c, new, fields, FALSE)) = new
      BY <3>1, TellsUpdated
    <3> QED BY <3>2 DEF fields
  <2> QED BY <2>1, <2>3
<1>5. CASE new # old /\ new # Undefined /\ ~compareTypeAndLimits(old, new)
  <2>1. t = add_foreign_updates(c, new, DOMAIN new, TRUE)
    BY <1>5 DEF switch_master_variables, compareTypeAndLimits
  <2>2. /\ add_foreign_updates(c, new, DOMAIN new, TRUE) \in ChangeSet
        /\ apply_var_changes(s, add_foreign_updates(c, new, DOMAIN new, TRUE)) = new
    BY TellsCreated
  <2> QED BY <2>1, <2>2
<1> QED BY <1>2, <1>3, <1>4, <1>5

(* A partner's variable takes the place of one that goes, if there is another. *)
LEMMA NoMasterCounts ==
  ASSUME NEW p, p \notin plan.use_master_slave, NEW links, NEW seq, NEW m
  PROVE  /\ counted(p, links, seq, m) = Counted(links, seq)
         /\ owners(p, links, seq, m) = Owning(links, seq)
<1>1. counted(p, links, seq, m) = Counted(links, seq)
  BY DEF counted, Counted, use_master_slave
<1> QED BY <1>1 DEF owners, Owning

LEMMA TryKeeps ==
  ASSUME NEW p, p \notin plan.use_master_slave, NEW mine, NEW links, NEW seq, NEW m, NEW c,
         mine # Undefined \/ Owning(links, seq) # {}
  PROVE  tryDefineSomeCollidingVariable(p, mine, links, seq, m, c) = [links |-> links, changes |-> c]
BY NoMasterCounts DEF tryDefineSomeCollidingVariable

LEMMA TryKeepsMaster ==
  ASSUME NEW p, p \in plan.use_master_slave, NEW mine, NEW links, NEW seq \in Seq(Processes), NEW m, NEW c,
         \A q \in Processes : ~links[q].collides
  PROVE  tryDefineSomeCollidingVariable(p, mine, links, seq, m, c) = [links |-> links, changes |-> c]
<1>1. ToSet(seq) \subseteq Processes
  BY DEF ToSet
<1>2. owners(p, links, seq, m) = counted(p, links, seq, m)
  BY <1>1 DEF owners, counted
<1> QED BY <1>2 DEF tryDefineSomeCollidingVariable

(* Whoever it finds, the records stay coherent. *)
Freed(links, new, q) ==
  \A x \in Processes : new[x].his = links[x].his /\ new[x].collides = (links[x].collides /\ x # q)

LEMMA Uncollided ==
  ASSUME NEW mine, NEW links, NEW seq \in Seq(Processes), Partners(mine, links, seq), NEW q \in ToSet(seq),
         NEW new, new = [links EXCEPT ![q].collides = FALSE]
  PROVE  q \in Processes /\ Partners(mine, new, seq) /\ Freed(links, new, q)
<1>1. q \in Processes /\ links \in [Processes -> Links]
  BY DEF ToSet, Partners
<1>2. links[q] \in Links /\ Coherent(links[q], mine)
  BY <1>1 DEF Partners
<1>3. PICK k \in Links : k = links[q]
  BY <1>2
<1>4. PICK l : l = [k EXCEPT !.collides = FALSE]
  OBVIOUS
<1>5. /\ l \in Links /\ l.collides = FALSE /\ l.his = k.his /\ l.to_send = k.to_send
      /\ l.his_to_send = k.his_to_send /\ l.wants = k.wants
  BY <1>4 DEF Links
<1>6. Coherent(l, mine)
  BY <1>2, <1>3, <1>5 DEF Coherent
<1>7. new = [links EXCEPT ![q] = l]
  BY <1>3, <1>4
<1>8. \A x \in Processes : new[x] = IF x = q THEN l ELSE links[x]
  BY <1>1, <1>7
<1>9. new \in [Processes -> Links]
  BY <1>1, <1>5, <1>7
<1>10. Partners(mine, new, seq)
  BY <1>1, <1>5, <1>6, <1>8, <1>9 DEF Partners
<1>11. \A x \in Processes : new[x].his = links[x].his /\ new[x].collides = (links[x].collides /\ x # q)
  <2> SUFFICES ASSUME NEW x \in Processes
               PROVE  new[x].his = links[x].his /\ new[x].collides = (links[x].collides /\ x # q)
    OBVIOUS
  <2>1. links[x].collides \in BOOLEAN
    BY <1>1 DEF Links
  <2>2. CASE x = q
    <3>1. new[x] = l
      BY <1>8, <2>2
    <3> QED BY <1>3, <1>5, <2>2, <3>1
  <2>3. CASE x # q
    <3>1. new[x] = links[x]
      BY <1>8, <2>3
    <3> QED BY <2>1, <2>3, <3>1
  <2> QED BY <2>2, <2>3
<1> QED BY <1>1, <1>10, <1>11 DEF Freed

LEMMA TryType ==
  ASSUME NEW p, NEW mine, NEW links, NEW seq \in Seq(Processes), NEW m, NEW c \in ChangeSet,
         Partners(mine, links, seq),
         NEW t, t = tryDefineSomeCollidingVariable(p, mine, links, seq, m, c)
  PROVE  t.changes \in ChangeSet /\ Partners(mine, t.links, seq)
<1> DEFINE who == counted(p, links, seq, m)
<1>1. CASE t = [links |-> links, changes |-> c]
  BY <1>1
<1>2. CASE t # [links |-> links, changes |-> c]
  <2>1. who # {}
    BY <1>2 DEF tryDefineSomeCollidingVariable
  <2>2. who \subseteq ToSet(seq)
    BY DEF counted
  <2>3. PICK last : last = seq[Max(places(seq, who))]
    OBVIOUS
  <2>4. last \in ToSet(seq)
    <3> HIDE DEF who
    <3> QED BY <2>1, <2>2, <2>3, LastPlace
  <2>5. PICK new : new = [links EXCEPT ![last].collides = FALSE]
    OBVIOUS
  <2>6. Partners(mine, new, seq) /\ last \in Processes
    BY <2>4, <2>5, Uncollided
  <2>7. PICK v \in Variable : v = links[last].his
    BY <2>6 DEF Partners, Links
  <2>8. PICK ch \in ChangeSet : ch = add_foreign_updates(c, v, DOMAIN v, TRUE)
    BY TellsCreated
  <2>9. t = [links |-> new, changes |-> ch]
    BY <1>2, <2>3, <2>5, <2>7, <2>8 DEF tryDefineSomeCollidingVariable
  <2> QED BY <2>6, <2>9
<1> QED BY <1>1, <1>2

LEMMA TryFinds ==
  ASSUME NEW p, p \notin plan.use_master_slave, NEW links, NEW seq \in Seq(Processes), NEW m,
         Partners(Undefined, links, seq), Owning(links, seq) = {},
         NEW s, NEW c \in ChangeSet, Counted(links, seq) = {} => apply_var_changes(s, c) = Undefined,
         NEW t, t = tryDefineSomeCollidingVariable(p, Undefined, links, seq, m, c)
  PROVE  /\ t.changes \in ChangeSet /\ Partners(Undefined, t.links, seq)
         /\ OneCounts(Undefined, apply_var_changes(s, t.changes), t.links, seq)
<1> DEFINE who == Counted(links, seq)
<1>1. counted(p, links, seq, m) = who /\ owners(p, links, seq, m) = {}
  BY NoMasterCounts
<1>2. t.changes \in ChangeSet /\ Partners(Undefined, t.links, seq)
  BY TryType
<1>3. CASE who = {}
  <2>1. t = [links |-> links, changes |-> c]
    BY <1>1, <1>3 DEF tryDefineSomeCollidingVariable
  <2> QED BY <1>3, <2>1 DEF OneCounts
<1>4. CASE who # {}
  <2>1. who \subseteq ToSet(seq)
    BY DEF Counted
  <2>2. PICK last : last = seq[Max(places(seq, who))]
    OBVIOUS
  <2>3. last \in who
    <3> HIDE DEF who
    <3> QED BY <1>4, <2>1, <2>2, LastPlace
  <2>4. last \in ToSet(seq) /\ links[last].his # Undefined
    BY <2>3 DEF Counted
  <2>5. PICK lk : lk = [links EXCEPT ![last].collides = FALSE]
    OBVIOUS
  <2>6. /\ last \in Processes
        /\ \A x \in Processes : /\ lk[x].his = links[x].his
                                /\ lk[x].collides = (links[x].collides /\ x # last)
    <3>1. last \in Processes /\ Freed(links, lk, last)
      BY <2>4, <2>5, Uncollided
    <3> QED BY <3>1 DEF Freed
  <2>7. PICK v \in Variable : v = links[last].his
    BY <2>4 DEF Partners, Links, ToSet
  <2>8. PICK ch : ch = add_foreign_updates(c, v, DOMAIN v, TRUE)
    OBVIOUS
  <2>9. t = [links |-> lk, changes |-> ch]
    BY <1>1, <1>4, <2>2, <2>5, <2>7, <2>8 DEF tryDefineSomeCollidingVariable
  <2>10. apply_var_changes(s, ch) = v
    BY <2>8, TellsCreated
  <2>11. Owning(lk, seq) = {last}
    <3>1. ToSet(seq) \subseteq Processes
      BY DEF ToSet
    <3> QED BY <2>4, <2>6, <3>1 DEF Owning, Counted
  <2>12. OneCounts(Undefined, v, lk, seq)
    BY <2>4, <2>6, <2>7, <2>11 DEF OneCounts
  <2> QED BY <1>2, <2>9, <2>10, <2>12
<1> QED BY <1>3, <1>4

----------------------------------------------------------------------------
(* The invariant *)

Typed ==
  /\ my \in [Processes -> Variable] /\ seen \in [Processes -> Variable]
  /\ filter \in [Processes -> BOOLEAN]
  /\ order \in [Processes -> Seq(Processes)]
  /\ link \in [Processes -> [Processes -> Links]]
  /\ changes \in [Processes -> ChangeSet]
  /\ master \in [Processes -> Processes \cup {Nobody}]
  /\ channel \in [Processes -> [Processes -> Seq(Messages)]]
  /\ plan \in Plans /\ DOMAIN left = DOMAIN plan.ops

(* A process that will have no variable of this name of its own. *)
DefinesNothing(pl, p) == p # pl.owner /\ <<p, "define">> \notin DOMAIN pl.ops

(* What its user will know is the variable that counts; a process with master and slave
   has none of its own, as its master's is made known whether or not it has one. *)
Counts(pl, p, mine, view, links, seq, m) ==
  IF p \in pl.use_master_slave
    THEN m \in ToSet(seq) \cup {Nobody} /\ (DefinesNothing(pl, p) => MasterCounts(mine, view, links, m))
    ELSE m = Nobody /\ OneCounts(mine, view, links, seq)

Held(p) ==
  /\ order[p] \in Orders(p)
  /\ Partners(my[p], link[p], order[p])
  /\ Counts(plan, p, my[p], apply_var_changes(seen[p], changes[p]), link[p], order[p], master[p])

Inv == Typed /\ \A p \in Processes : Held(p)

LEMMA TypedFacts ==
  ASSUME Inv, NEW p \in Processes
  PROVE  /\ my[p] \in Variable /\ seen[p] \in Variable /\ changes[p] \in ChangeSet
         /\ order[p] \in Orders(p) /\ order[p] \in Seq(Processes)
         /\ partners(p) \subseteq Processes \ {p}
         /\ link[p] \in [Processes -> Links]
         /\ Partners(my[p], link[p], order[p])
         /\ master[p] \in partners(p) \cup {Nobody}
         /\ p \notin plan.use_master_slave => master[p] = Nobody
<1>1. /\ my[p] \in Variable /\ seen[p] \in Variable /\ changes[p] \in ChangeSet
      /\ order[p] \in Seq(Processes) /\ link[p] \in [Processes -> Links]
  BY DEF Inv, Typed
<1>2. order[p] \in Orders(p) /\ Partners(my[p], link[p], order[p])
  BY DEF Inv, Held
<1>3. partners(p) \subseteq Processes \ {p}
  BY <1>1, <1>2 DEF Orders, partners, ToSet
<1>4. master[p] \in partners(p) \cup {Nobody} /\ (p \notin plan.use_master_slave => master[p] = Nobody)
  BY DEF Inv, Held, Counts, partners
<1> QED BY <1>1, <1>2, <1>3, <1>4

BoundsKept == plan' = plan /\ DOMAIN left' = DOMAIN left
ChannelsTyped == channel' \in [Processes -> [Processes -> Seq(Messages)]]

LEMMA BoundsStay ==
  /\ UNCHANGED bounds => BoundsKept
  /\ \A p, op : does(p, op) => BoundsKept
BY DEF bounds, BoundsKept, does

(* A step of one process: what of its state is new, and that it is as it should be. *)
Stepped(p, mn, sn, ch, lk, sq, ms) ==
  /\ my' = [my EXCEPT ![p] = mn] /\ seen' = [seen EXCEPT ![p] = sn]
  /\ changes' = [changes EXCEPT ![p] = ch] /\ link' = [link EXCEPT ![p] = lk]
  /\ order' = [order EXCEPT ![p] = sq] /\ master' = [master EXCEPT ![p] = ms]
  /\ filter' \in [Processes -> BOOLEAN] /\ ChannelsTyped /\ BoundsKept
  /\ mn \in Variable /\ sn \in Variable /\ ch \in ChangeSet /\ sq \in Orders(p)
  /\ Partners(mn, lk, sq)
  /\ Counts(plan, p, mn, apply_var_changes(sn, ch), lk, sq, ms)

LEMMA OneProcess ==
  ASSUME Inv, NEW p \in Processes, NEW mn, NEW sn, NEW ch, NEW lk, NEW sq, NEW ms,
         Stepped(p, mn, sn, ch, lk, sq, ms)
  PROVE  Inv'
<1> USE DEF Stepped
<1>1. sq \in Seq(Processes) /\ lk \in [Processes -> Links]
  BY DEF Orders, Partners
<1>2. ms \in Processes \cup {Nobody}
  BY <1>1 DEF Counts, ToSet
<1>3. Typed
  BY DEF Inv
<1>4. Typed'
  BY <1>1, <1>2, <1>3 DEF Typed, ChannelsTyped, BoundsKept
<1>5. ASSUME NEW x \in Processes PROVE Held(x)'
  <2>1. CASE x = p
    <3>1. /\ my'[x] = mn /\ seen'[x] = sn /\ changes'[x] = ch
          /\ link'[x] = lk /\ order'[x] = sq /\ master'[x] = ms /\ plan' = plan
      BY <1>3, <2>1 DEF Typed, BoundsKept
    <3>2. Counts(plan, x, my'[x], apply_var_changes(seen'[x], changes'[x]), link'[x], order'[x], master'[x])
      BY <2>1, <3>1
    <3> QED BY <2>1, <3>1, <3>2 DEF Held
  <2>2. CASE x # p
    <3>1. /\ my'[x] = my[x] /\ seen'[x] = seen[x] /\ changes'[x] = changes[x]
          /\ link'[x] = link[x] /\ order'[x] = order[x] /\ master'[x] = master[x] /\ plan' = plan
      BY <1>3, <2>2 DEF Typed, BoundsKept
    <3>2. Held(x)
      BY DEF Inv
    <3> QED BY <3>1, <3>2 DEF Held
  <2> QED BY <2>1, <2>2
<1> QED BY <1>4, <1>5 DEF Inv

LEMMA Same ==
  ASSUME Inv, NEW p \in Processes
  PROVE  /\ my = [my EXCEPT ![p] = my[p]] /\ seen = [seen EXCEPT ![p] = seen[p]]
         /\ changes = [changes EXCEPT ![p] = changes[p]] /\ link = [link EXCEPT ![p] = link[p]]
         /\ order = [order EXCEPT ![p] = order[p]] /\ master = [master EXCEPT ![p] = master[p]]
BY DEF Inv, Typed

(* What counts is as it was when the partners' variables are. *)
LEMMA StillCounts ==
  ASSUME Inv, NEW p \in Processes, NEW lk, SameVariables(link[p], lk)
  PROVE  Counts(plan, p, my[p], apply_var_changes(seen[p], changes[p]), lk, order[p], master[p])
<1>1. Counts(plan, p, my[p], apply_var_changes(seen[p], changes[p]), link[p], order[p], master[p])
  BY DEF Inv, Held
<1>2. order[p] \in Seq(Processes)
  BY TypedFacts
<1> DEFINE view == apply_var_changes(seen[p], changes[p])
<1> HIDE DEF view
<1>3. /\ OneCounts(my[p], view, link[p], order[p]) => OneCounts(my[p], view, lk, order[p])
      /\ \A m \in ToSet(order[p]) \cup {Nobody} :
           MasterCounts(my[p], view, link[p], m) => MasterCounts(my[p], view, lk, m)
  BY <1>2, SameCounts
<1> QED BY <1>1, <1>3 DEF Counts, view

(* A step that only changes what a process has with its partners. *)
LEMMA OnlyLinks ==
  ASSUME Inv, NEW p \in Processes, NEW lk, link' = [link EXCEPT ![p] = lk],
         Partners(my[p], lk, order[p]), SameVariables(link[p], lk),
         UNCHANGED <<my, seen, changes, order, master>>,
         filter' \in [Processes -> BOOLEAN], ChannelsTyped, BoundsKept
  PROVE  Inv'
<1>1. Counts(plan, p, my[p], apply_var_changes(seen[p], changes[p]), lk, order[p], master[p])
  BY StillCounts
<1>2. /\ my[p] \in Variable /\ seen[p] \in Variable /\ changes[p] \in ChangeSet
      /\ order[p] \in Orders(p)
  BY TypedFacts
<1>3. /\ my' = [my EXCEPT ![p] = my[p]] /\ seen' = [seen EXCEPT ![p] = seen[p]]
      /\ changes' = [changes EXCEPT ![p] = changes[p]]
      /\ order' = [order EXCEPT ![p] = order[p]] /\ master' = [master EXCEPT ![p] = master[p]]
  BY Same
<1>4. PICK mn, sn, ch, sq, ms :
        mn = my[p] /\ sn = seen[p] /\ ch = changes[p] /\ sq = order[p] /\ ms = master[p]
  OBVIOUS
<1>5. Stepped(p, mn, sn, ch, lk, sq, ms)
  BY <1>1, <1>2, <1>3, <1>4 DEF Stepped
<1> QED BY <1>5, OneProcess
----------------------------------------------------------------------------
(* Messages and single partners *)

LEMMA PostTyped ==
  ASSUME Inv, NEW p \in Processes, NEW q \in Processes, NEW ms \in Seq(Messages), post(p, q, ms)
  PROVE  ChannelsTyped
<1>1. channel \in [Processes -> [Processes -> Seq(Messages)]]
  BY DEF Inv, Typed
<1>2. channel[p][q] \o ms \in Seq(Messages)
  BY <1>1, ConcatProperties
<1>3. [channel EXCEPT ![p][q] = @ \o ms] \in [Processes -> [Processes -> Seq(Messages)]]
  BY <1>1, <1>2
<1> QED BY <1>1, <1>3 DEF post, ChannelsTyped

LEMMA TakesTyped ==
  ASSUME Inv, NEW p \in Processes, NEW q \in Processes, NEW what, takes(p, q, what)
  PROVE  /\ ChannelsTyped /\ next_message(p, q) \in Messages /\ next_message(p, q).what = what
         /\ q \in partners(p) /\ q \in ToSet(order[p])
<1>1. channel \in [Processes -> [Processes -> Seq(Messages)]]
  BY DEF Inv, Typed
<1>2. channel[q][p] \in Seq(Messages) /\ channel[q][p] # <<>>
  BY <1>1 DEF takes
<1>3. Head(channel[q][p]) \in Messages /\ Tail(channel[q][p]) \in Seq(Messages)
  BY <1>2, HeadTailProperties
<1>4. [channel EXCEPT ![q][p] = Tail(@)] \in [Processes -> [Processes -> Seq(Messages)]]
  BY <1>1, <1>3
<1> QED BY <1>3, <1>4 DEF takes, ChannelsTyped, next_message, partners

LEMMA SameCoherent ==
  ASSUME NEW l, NEW n, NEW mine, Coherent(l, mine), n.his = l.his, n.collides = l.collides,
         n.his_to_send = l.his_to_send, n.wants = l.wants, n.to_send = l.to_send
  PROVE  Coherent(n, mine)
BY DEF Coherent

LEMMA OnePartner ==
  ASSUME NEW mine, NEW links, NEW seq \in Seq(Processes), Partners(mine, links, seq),
         NEW q \in ToSet(seq), NEW l \in Links, Coherent(l, mine)
  PROVE  /\ q \in Processes /\ Partners(mine, [links EXCEPT ![q] = l], seq)
         /\ l.his = links[q].his /\ l.collides = links[q].collides =>
              SameVariables(links, [links EXCEPT ![q] = l])
<1>1. q \in Processes /\ links \in [Processes -> Links]
  BY DEF ToSet, Partners
<1>2. /\ [links EXCEPT ![q] = l] \in [Processes -> Links]
      /\ \A x \in Processes : [links EXCEPT ![q] = l][x] = IF x = q THEN l ELSE links[x]
  BY <1>1
<1> DEFINE new == [links EXCEPT ![q] = l]
<1> HIDE DEF new
<1>3. /\ new \in [Processes -> Links]
      /\ \A x \in Processes : new[x] = IF x = q THEN l ELSE links[x]
  BY <1>2 DEF new
<1>4. Partners(mine, new, seq)
  BY <1>1, <1>3 DEF Partners
<1>5. l.his = links[q].his /\ l.collides = links[q].collides => SameVariables(links, new)
  BY <1>3 DEF SameVariables
<1> QED BY <1>1, <1>4, <1>5 DEF new

(* A step that only changes what a process has with one partner, not his variable. *)
LEMMA OnlyLink ==
  ASSUME Inv, NEW p \in Processes, NEW q \in partners(p), NEW l \in Links,
         Coherent(l, my[p]), l.his = link[p][q].his, l.collides = link[p][q].collides,
         link' = [link EXCEPT ![p] = [link[p] EXCEPT ![q] = l]],
         UNCHANGED <<my, seen, changes, order, master>>,
         filter' \in [Processes -> BOOLEAN], ChannelsTyped, BoundsKept
  PROVE  Inv'
<1>1. order[p] \in Seq(Processes) /\ Partners(my[p], link[p], order[p]) /\ q \in ToSet(order[p])
  BY TypedFacts DEF partners
<1>2. PICK lk : lk = [link[p] EXCEPT ![q] = l]
  OBVIOUS
<1>3. Partners(my[p], lk, order[p]) /\ SameVariables(link[p], lk)
  BY <1>1, <1>2, OnePartner
<1>4. link' = [link EXCEPT ![p] = lk]
  BY <1>2
<1> QED BY <1>3, <1>4, OnlyLinks

LEMMA LinkFacts ==
  ASSUME Inv, NEW p \in Processes, NEW q \in Processes
  PROVE  /\ link[p][q] \in Links /\ Coherent(link[p][q], my[p])
         /\ link[p][q].his \in Variable /\ link[p][q].collides \in BOOLEAN
         /\ link[p][q].his_to_send \in Queued /\ link[p][q].to_send \in Events
         /\ link[p][q].his_id \in Int /\ link[p][q].ids \in Numbered
<1>1. link[p][q] \in Links /\ Coherent(link[p][q], my[p])
  BY TypedFacts DEF Partners
<1> QED BY <1>1 DEF Links

LEMMA NothingElse == Inv => filter \in [Processes -> BOOLEAN]
BY DEF Inv, Typed

(* The messages *)
LEMMA BareMessage ==
  ASSUME NEW what \in {"INIT", "INIT-ACC", "FILT"}, NEW wants \in BOOLEAN
  PROVE  message(what, 0, Undefined, wants) \in Messages
<1>1. Undefined \in [{} -> Values]
  BY DEF Undefined
<1>2. Undefined \in Part
  BY <1>1 DEF Part
<1> QED BY <1>2 DEF message, Messages

LEMMA OneMessage ==
  /\ <<>> \in Seq(Messages)
  /\ \A m \in Messages : <<m>> \in Seq(Messages)
<1>1. \A S : \A m \in S : <<m>> \in Seq(S)
  OBVIOUS
<1> QED BY <1>1

LEMMA OnlyType ==
  ASSUME NEW v, NEW fields \in SUBSET Nat, \A i \in fields : v[i] \in Values
  PROVE  only(v, fields) \in Part
<1>1. only(v, fields) \in [fields -> Values]
  BY DEF only
<1> QED BY <1>1 DEF Part

----------------------------------------------------------------------------
(* Steps that do not change what counts *)

LEMMA EvalSendForPartnerStep ==
  ASSUME Inv, NEW p \in Processes, NEW q \in Processes \ {p}, NEW again \in BOOLEAN,
         EvalSendForPartner(p, q, again)
  PROVE  Inv'
<1> DEFINE l == link[p][q]
           answers == unanswered(l)
           asks == wants_init(l) /\ ("sent_init" \in l.init => again)
           ms == (IF answers THEN <<message("INIT-ACC", 0, Undefined, FALSE)>> ELSE <<>>)
                   \o (IF asks THEN <<message("INIT", 0, Undefined, FALSE)>> ELSE <<>>)
           init == l.init \cup (IF answers THEN {"sent_init_acc"} ELSE {})
                          \cup (IF asks THEN {"sent_init"} ELSE {})
<1>1. /\ q \in partners(p) /\ post(p, q, ms)
      /\ link' = [link EXCEPT ![p] = [link[p] EXCEPT ![q] = [l EXCEPT !.init = init]]]
      /\ UNCHANGED <<my, filter, order, changes, seen, mastering>>
  BY DEF EvalSendForPartner
<1>2. BoundsKept
  <2>1. does(p, "retry") \/ UNCHANGED bounds
    BY DEF EvalSendForPartner
  <2> QED BY <2>1, BoundsStay
<1>3. ms \in Seq(Messages)
  <2>1. /\ message("INIT-ACC", 0, Undefined, FALSE) \in Messages
        /\ message("INIT", 0, Undefined, FALSE) \in Messages
    BY BareMessage
  <2>2. /\ (IF answers THEN <<message("INIT-ACC", 0, Undefined, FALSE)>> ELSE <<>>) \in Seq(Messages)
        /\ (IF asks THEN <<message("INIT", 0, Undefined, FALSE)>> ELSE <<>>) \in Seq(Messages)
    <3> HIDE DEF answers, asks
    <3> QED BY <2>1, OneMessage
  <2> HIDE DEF answers, asks
  <2> QED BY <2>2, ConcatProperties
<1>4. ChannelsTyped
  <2> HIDE DEF ms
  <2> QED BY <1>1, <1>3, PostTyped
<1>5. l \in Links /\ Coherent(l, my[p])
  BY LinkFacts
<1>6. PICK n : n = [l EXCEPT !.init = init]
  OBVIOUS
<1>7. init \in SUBSET Handshake
  BY <1>5 DEF Links, Handshake
<1>8. /\ n \in Links /\ n.his = l.his /\ n.collides = l.collides
      /\ n.his_to_send = l.his_to_send /\ n.wants = l.wants /\ n.to_send = l.to_send
  <2> HIDE DEF init, l
  <2> QED BY <1>5, <1>6, <1>7 DEF Links
<1>9. Coherent(n, my[p])
  BY <1>5, <1>8, SameCoherent
<1>10. link' = [link EXCEPT ![p] = [link[p] EXCEPT ![q] = n]]
  BY <1>1, <1>6
<1> HIDE DEF l, ms, init
<1> QED BY <1>1, <1>2, <1>4, <1>8, <1>9, <1>10, NothingElse, OnlyLink DEF mastering, l

LEMMA ProcessINIT_ACCStep ==
  ASSUME Inv, NEW p \in Processes, NEW q \in Processes \ {p}, ProcessINIT_ACC(p, q)
  PROVE  Inv'
<1> DEFINE l == link[p][q]
           init == l.init \cup {"received_init_acc"}
<1>1. /\ takes(p, q, "INIT-ACC")
      /\ link' = [link EXCEPT ![p] = [link[p] EXCEPT ![q] = [l EXCEPT !.init = init]]]
      /\ UNCHANGED <<my, filter, order, changes, seen, mastering, bounds>>
  BY DEF ProcessINIT_ACC
<1>2. ChannelsTyped /\ q \in partners(p)
  BY <1>1, TakesTyped
<1>3. l \in Links /\ Coherent(l, my[p])
  BY LinkFacts
<1>4. PICK n : n = [l EXCEPT !.init = init]
  OBVIOUS
<1>5. init \in SUBSET Handshake
  BY <1>3 DEF Links, Handshake
<1>6. /\ n \in Links /\ n.his = l.his /\ n.collides = l.collides
      /\ n.his_to_send = l.his_to_send /\ n.wants = l.wants /\ n.to_send = l.to_send
  <2> HIDE DEF init, l
  <2> QED BY <1>3, <1>4, <1>5 DEF Links
<1>7. Coherent(n, my[p])
  BY <1>3, <1>6, SameCoherent
<1>8. link' = [link EXCEPT ![p] = [link[p] EXCEPT ![q] = n]]
  BY <1>1, <1>4
<1>9. BoundsKept
  BY <1>1, BoundsStay
<1> HIDE DEF l, init
<1> QED BY <1>1, <1>2, <1>6, <1>7, <1>8, <1>9, NothingElse, OnlyLink DEF mastering, l

LEMMA SendFiltersStep ==
  ASSUME Inv, NEW p \in Processes, NEW q \in Processes \ {p}, SendFilters(p, q)
  PROVE  Inv'
<1> DEFINE l == link[p][q]
<1>1. /\ q \in partners(p)
      /\ post(p, q, <<message("FILT", 0, Undefined, filter[p])>>)
      /\ link' = [link EXCEPT ![p] = [link[p] EXCEPT ![q] = [l EXCEPT !.told_filter = filter[p]]]]
      /\ UNCHANGED <<my, filter, order, changes, seen, mastering, bounds>>
  BY DEF SendFilters, can_send
<1>2. filter[p] \in BOOLEAN
  BY NothingElse
<1>3. PICK ms : ms = <<message("FILT", 0, Undefined, filter[p])>>
  OBVIOUS
<1>4. ms \in Seq(Messages)
  <2>1. message("FILT", 0, Undefined, filter[p]) \in Messages
    BY <1>2, BareMessage
  <2> QED BY <1>3, <2>1
<1>5. ChannelsTyped
  BY <1>1, <1>3, <1>4, PostTyped
<1>6. l \in Links /\ Coherent(l, my[p])
  BY LinkFacts
<1>7. PICK n : n = [l EXCEPT !.told_filter = filter[p]]
  OBVIOUS
<1>8. /\ n \in Links /\ n.his = l.his /\ n.collides = l.collides
      /\ n.his_to_send = l.his_to_send /\ n.wants = l.wants /\ n.to_send = l.to_send
  <2> HIDE DEF l
  <2> QED BY <1>2, <1>6, <1>7 DEF Links
<1>9. Coherent(n, my[p])
  BY <1>6, <1>8, SameCoherent
<1>10. link' = [link EXCEPT ![p] = [link[p] EXCEPT ![q] = n]]
  BY <1>1, <1>7
<1>11. BoundsKept
  BY <1>1, BoundsStay
<1> HIDE DEF l
<1> QED BY <1>1, <1>5, <1>8, <1>9, <1>10, <1>11, NothingElse, OnlyLink DEF mastering, l

LEMMA SetFiltersStep ==
  ASSUME Inv, NEW p \in Processes, SetFilters(p)
  PROVE  Inv'
<1>1. /\ filter' = [filter EXCEPT ![p] = ~@]
      /\ UNCHANGED <<my, order, link, changes, seen, channel, master>>
  BY DEF SetFilters, mastering
<1>2. filter' \in [Processes -> BOOLEAN]
  BY <1>1, NothingElse
<1>3. ChannelsTyped
  BY <1>1 DEF ChannelsTyped, Inv, Typed
<1>4. BoundsKept
  BY BoundsStay DEF SetFilters
<1>5. PICK lk : lk = link[p]
  OBVIOUS
<1>6. link' = [link EXCEPT ![p] = lk]
  BY <1>1, <1>5, Same
<1>7. Partners(my[p], lk, order[p]) /\ SameVariables(link[p], lk)
  BY <1>5, TypedFacts DEF SameVariables
<1> QED BY <1>1, <1>2, <1>3, <1>4, <1>6, <1>7, OnlyLinks

(* A change of a partner's variable that is sent is in his variable here already. *)
LEMMA SendHisStep ==
  ASSUME Inv, NEW p \in Processes, NEW q \in Processes \ {p}, SendHis(p, q)
  PROVE  Inv'
<1> DEFINE l == link[p][q]
           m == message("MOD", l.his_id, only(l.his_to_send.value, l.his_to_send.fields), FALSE)
           his == copy_indexes(l.his, l.his_to_send.value, l.his_to_send.fields)
<1>1. /\ q \in partners(p) /\ post(p, q, <<m>>)
      /\ link' = [link EXCEPT ![p] = [link[p] EXCEPT ![q] =
                    [l EXCEPT !.his = his, !.his_to_send = Nothing]]]
      /\ UNCHANGED <<my, filter, order, changes, seen, mastering, bounds>>
  BY DEF SendHis, can_send
<1>2. /\ l \in Links /\ Coherent(l, my[p]) /\ l.his \in Variable /\ l.his_to_send \in Queued
      /\ l.his_id \in Int
  BY LinkFacts
<1>3. /\ l.his_to_send.fields \in SUBSET Nat /\ l.his_to_send.fields \subseteq DOMAIN l.his
      /\ \A i \in l.his_to_send.fields : l.his_to_send.value[i] = l.his[i]
  BY <1>2 DEF Coherent, Queued
<1>4. his = l.his
  <2>1. his = [i \in DOMAIN l.his |-> IF i \in l.his_to_send.fields THEN l.his_to_send.value[i]
                                                                  ELSE l.his[i]]
    BY DEF copy_indexes
  <2>2. his = [i \in DOMAIN l.his |-> l.his[i]]
    BY <1>3, <2>1
  <2>3. IsValue(l.his)
    BY <1>2, VariableFacts
  <2> QED BY <2>2, <2>3 DEF IsValue
<1>5. m \in Messages
  <2>1. \A i \in l.his_to_send.fields : l.his_to_send.value[i] \in Values
    BY <1>2, <1>3, VariableFacts
  <2>2. only(l.his_to_send.value, l.his_to_send.fields) \in Part
    BY <1>3, <2>1, OnlyType
  <2> QED BY <1>2, <2>2 DEF message, Messages
<1>6. PICK ms : ms = <<m>>
  OBVIOUS
<1>7. ms \in Seq(Messages)
  BY <1>5, <1>6, OneMessage
<1>8. ChannelsTyped
  BY <1>1, <1>6, <1>7, PostTyped
<1>9. PICK n : n = [l EXCEPT !.his_to_send = Nothing]
  OBVIOUS
<1>10. [l EXCEPT !.his = his, !.his_to_send = Nothing] = n
  <2> HIDE DEF l, his
  <2> QED BY <1>2, <1>4, <1>9 DEF Links
<1>11. /\ n \in Links /\ n.his = l.his /\ n.collides = l.collides
       /\ n.his_to_send = Nothing /\ n.wants = l.wants /\ n.to_send = l.to_send
  <2>1. Nothing \in Queued
    BY DEF Nothing, Queued, Variable
  <2> HIDE DEF l
  <2> QED BY <1>2, <1>9, <2>1 DEF Links
<1>12. Coherent(n, my[p])
  BY <1>2, <1>11 DEF Coherent, Nothing
<1>13. link' = [link EXCEPT ![p] = [link[p] EXCEPT ![q] = n]]
  BY <1>1, <1>10
<1>14. BoundsKept
  BY <1>1, BoundsStay
<1> HIDE DEF l, m, his
<1> QED BY <1>1, <1>8, <1>11, <1>12, <1>13, <1>14, NothingElse, OnlyLink DEF mastering, l

(* Numbers of what was sent *)
LEMMA NextIdType ==
  ASSUME NEW ids \in Numbered
  PROVE  get_next_id(ids) \in Int
<1>1. PICK S \in SUBSET Nat : IsFiniteSet(S) /\ ids.at \in [S -> Int]
  BY DEF Numbered
<1>2. ids.default \in Int /\ DOMAIN ids.at = S
  BY <1>1 DEF Numbered
<1> DEFINE T == {ids.at[i] : i \in DOMAIN ids.at}
<1>3. IsFiniteSet(T)
  <2>1. ids.at \in Surjection(S, T)
    BY <1>1, <1>2 DEF Surjection
  <2> HIDE DEF T
  <2> QED BY <1>1, <2>1, FS_Surjection
<1>4. T \subseteq Int
  BY <1>1, <1>2
<1>5. numbers(ids) = T \cup {ids.default}
  BY DEF numbers
<1> HIDE DEF T
<1>6. IsFiniteSet(numbers(ids)) /\ numbers(ids) \subseteq Int /\ numbers(ids) # {}
  <2>1. IsFiniteSet(T \cup {ids.default})
    BY <1>3, FS_AddElement
  <2> QED BY <1>2, <1>4, <1>5, <2>1
<1>7. Max(numbers(ids)) \in Int
  BY <1>6, MaxIsOne
<1> QED BY <1>7 DEF get_next_id

LEMMA IdsType ==
  ASSUME NEW ids \in Numbered, NEW id \in Int, NEW fields \in SUBSET Nat, IsFiniteSet(fields)
  PROVE  /\ update_fully(id) \in Numbered /\ update_from_variable(ids, fields, id) \in Numbered
         /\ NoIds \in Numbered
<1>1. ASSUME NEW d \in Int PROVE [default |-> d, at |-> <<>>] \in Numbered
  <2>1. <<>> \in [{} -> Int] /\ IsFiniteSet({})
    BY FS_EmptySet
  <2>2. <<>> \in UNION {[S -> Int] : S \in {T \in SUBSET Nat : IsFiniteSet(T)}}
    BY <2>1
  <2> QED BY <2>2 DEF Numbered
<1>2. PICK S \in SUBSET Nat : IsFiniteSet(S) /\ ids.at \in [S -> Int]
  BY DEF Numbered
<1> DEFINE at == [i \in DOMAIN ids.at \cup fields |-> IF i \in fields THEN id ELSE ids.at[i]]
<1>3. IsFiniteSet(S \cup fields) /\ S \cup fields \in SUBSET Nat
  BY <1>2, FS_Union
<1>4. at \in [S \cup fields -> Int]
  BY <1>2
<1>5. update_from_variable(ids, fields, id) = [ids EXCEPT !.at = at]
  BY DEF update_from_variable
<1> HIDE DEF at
<1>6. at \in UNION {[U -> Int] : U \in {T \in SUBSET Nat : IsFiniteSet(T)}}
  BY <1>3, <1>4
<1>7. [ids EXCEPT !.at = at] \in Numbered
  BY <1>6 DEF Numbered
<1> QED BY <1>1, <1>5, <1>7 DEF update_fully, NoIds

LEMMA SendMineStep ==
  ASSUME Inv, NEW p \in Processes, NEW q \in Processes \ {p}, SendMine(p, q)
  PROVE  Inv'
<1> DEFINE l == link[p][q]
           e == l.to_send
           id == get_next_id(l.ids)
           what == CASE e.what = "undefine" -> "UNDEF"
                     [] e.what = "define" -> "DEF"
                     [] e.what = "update" -> "SET"
           m == message(what, id, only(e.value, e.fields), FALSE)
           ids == IF e.what = "update" THEN update_from_variable(l.ids, e.fields, id)
                                       ELSE update_fully(id)
<1>1. /\ q \in partners(p) /\ e.what # "none" /\ post(p, q, <<m>>)
      /\ link' = [link EXCEPT ![p] = [link[p] EXCEPT ![q] =
                    [l EXCEPT !.to_send = NoEvent, !.sent = DOMAIN e.value, !.ids = ids]]]
      /\ UNCHANGED <<my, filter, order, changes, seen, mastering, bounds>>
  BY DEF SendMine, can_send
<1>2. l \in Links /\ Coherent(l, my[p]) /\ e \in Events /\ l.ids \in Numbered
  BY LinkFacts
<1>3. e.what \in {"define", "update", "undefine"} /\ e.value \in Variable /\ e.fields \in SUBSET Nat
  BY <1>1, <1>2 DEF Events
<1>4. /\ e.fields \subseteq DOMAIN e.value
      /\ e.what = "define" => e.fields = DOMAIN e.value /\ e.value # Undefined
  <2>1. e.what = "undefine" => e.fields = {}
    BY <1>2 DEF Coherent
  <2>2. e.what \in {"define", "update"} =>
          /\ e.fields \subseteq DOMAIN e.value
          /\ e.what = "define" => e.fields = DOMAIN e.value
          /\ my[p] # Undefined /\ DOMAIN e.value = DOMAIN my[p]
    BY <1>2 DEF Coherent
  <2>3. my[p] \in Variable
    BY TypedFacts
  <2>4. e.what = "define" => e.value # Undefined
    BY <1>3, <2>2, <2>3, VariableFacts
  <2> HIDE DEF e
  <2> QED BY <1>3, <2>1, <2>2, <2>4
<1>5. id \in Int
  BY <1>2, NextIdType
<1>6. DOMAIN e.value \in SUBSET Nat /\ IsFiniteSet(DOMAIN e.value) /\ IsFiniteSet(e.fields)
      /\ \A i \in DOMAIN e.value : e.value[i] \in Values
  <2>1. DOMAIN e.value \in SUBSET Nat /\ IsFiniteSet(DOMAIN e.value)
        /\ \A i \in DOMAIN e.value : e.value[i] \in Values
    BY <1>3, VariableFacts
  <2>2. IsFiniteSet(e.fields)
    BY <1>4, <2>1, FS_Subset
  <2> QED BY <2>1, <2>2
<1>7. ids \in Numbered
  <2> HIDE DEF e, id
  <2> QED BY <1>2, <1>3, <1>5, <1>6, IdsType DEF e
<1>8. m \in Messages
  <2>1. only(e.value, e.fields) \in Part
    <3>1. \A i \in e.fields : e.value[i] \in Values
      BY <1>4, <1>6
    <3> QED BY <1>3, <3>1, OnlyType
  <2>2. what \in {"UNDEF", "DEF", "SET"} /\ (what = "DEF" => e.what = "define")
    BY <1>3
  <2>3. what = "DEF" => only(e.value, e.fields) \in Defined
    <3>1. e.value = [i \in DOMAIN e.value |-> e.value[i]] /\ (e.value # Undefined => e.value \in Defined)
      BY <1>3, VariableFacts DEF IsValue
    <3>2. what = "DEF" => only(e.value, e.fields) = e.value
      BY <1>4, <2>2, <3>1 DEF only
    <3> QED BY <1>4, <2>2, <3>1, <3>2
  <2> DEFINE v == only(e.value, e.fields)
  <2> HIDE DEF what, v, id
  <2>4. message(what, id, v, FALSE) \in Messages
    BY <1>5, <2>1, <2>2, <2>3 DEF message, Messages, v
  <2> QED BY <2>4 DEF v
<1>9. PICK ms : ms = <<m>>
  OBVIOUS
<1>10. ms \in Seq(Messages)
  BY <1>8, <1>9, OneMessage
<1>11. ChannelsTyped
  BY <1>1, <1>9, <1>10, PostTyped
<1>12. PICK n : n = [l EXCEPT !.to_send = NoEvent, !.sent = DOMAIN e.value, !.ids = ids]
  OBVIOUS
<1>13. /\ n \in Links /\ n.his = l.his /\ n.collides = l.collides
       /\ n.his_to_send = l.his_to_send /\ n.wants = l.wants /\ n.to_send = NoEvent
  <2>1. NoEvent \in Events
    BY DEF NoEvent, Events, Variable
  <2> DEFINE sent == DOMAIN e.value
  <2>2. sent \in SUBSET Nat
    BY <1>6
  <2>3. n = [l EXCEPT !.to_send = NoEvent, !.sent = sent, !.ids = ids]
    BY <1>12
  <2> HIDE DEF l, ids, sent
  <2> QED BY <1>2, <1>7, <2>1, <2>2, <2>3 DEF Links
<1>14. Coherent(n, my[p])
  BY <1>2, <1>13 DEF Coherent, NoEvent
<1>15. link' = [link EXCEPT ![p] = [link[p] EXCEPT ![q] = n]]
  BY <1>1, <1>12
<1>16. BoundsKept
  BY <1>1, BoundsStay
<1> HIDE DEF l, e, id, what, m, ids
<1> QED BY <1>1, <1>11, <1>13, <1>14, <1>15, <1>16, NothingElse, OnlyLink DEF mastering, l

(* FILT_DEF and FILT_UNDEF: what waits for him is of mine if he wants it now. *)
LEMMA ProcessFILTStep ==
  ASSUME Inv, NEW p \in Processes, NEW q \in Processes \ {p}, ProcessFILT(p, q)
  PROVE  Inv'
<1> DEFINE m == next_message(p, q)
<1>1. PICK l : l = [link[p][q] EXCEPT !.wants = m.wants]
  OBVIOUS
<1>2. PICK n : n = IF my[p] = Undefined THEN l
                   ELSE IF l.wants THEN ChangeMyVariable(l, my[p], DOMAIN my[p])
                   ELSE UndefineMyVariable(l)
  OBVIOUS
<1>3. /\ takes(p, q, "FILT")
      /\ link' = [link EXCEPT ![p] = [link[p] EXCEPT ![q] = n]]
      /\ UNCHANGED <<my, filter, order, changes, seen, mastering, bounds>>
  BY <1>1, <1>2 DEF ProcessFILT
<1>4. ChannelsTyped /\ m \in Messages /\ q \in partners(p)
  BY <1>3, TakesTyped
<1>5. link[p][q] \in Links /\ Coherent(link[p][q], my[p])
  BY LinkFacts
<1>6. m.wants \in BOOLEAN
  BY <1>4 DEF Messages
<1>7. /\ l \in Links /\ l.his = link[p][q].his /\ l.collides = link[p][q].collides
      /\ l.his_to_send = link[p][q].his_to_send /\ l.wants = m.wants
      /\ l.to_send = link[p][q].to_send
  <2>1. PICK k \in Links : k = link[p][q]
    BY <1>5
  <2> HIDE DEF m
  <2> QED BY <1>1, <1>6, <2>1 DEF Links
<1>8. my[p] \in Variable
  BY TypedFacts
<1>9. \E x \in Events : n = SaysNow(l, x) /\ Coherent(n, my[p])
  <2>1. l.to_send \in Events /\ l = SaysNow(l, l.to_send)
    BY <1>7 DEF Links, SaysNow
  <2>2. CASE my[p] = Undefined
    <3>1. l.to_send.what \notin {"define", "update"}
      BY <1>5, <1>7, <2>2 DEF Coherent
    <3>2. Coherent(l, my[p])
      BY <1>5, <1>7, <3>1 DEF Coherent
    <3> QED BY <1>2, <2>1, <2>2, <3>2
  <2>3. CASE my[p] # Undefined /\ l.wants
    <3>1. Coherent(l, my[p])
      BY <1>5, <1>7, <2>3 DEF Coherent
    <3>2. my[p] \in Defined
      BY <1>8, <2>3, VariableFacts
    <3>3. PICK v \in Defined : v = my[p]
      BY <3>2
    <3>4. Coherent(l, v) /\ DOMAIN v \in SUBSET DOMAIN v
      BY <3>1, <3>3
    <3>5. \E x \in Events : /\ ChangeMyVariable(l, v, DOMAIN v) = SaysNow(l, x)
                            /\ Coherent(SaysNow(l, x), v)
      BY <1>7, <3>4, ChangeIsSaid
    <3> QED BY <1>2, <2>3, <3>3, <3>5
  <2>4. CASE my[p] # Undefined /\ ~l.wants
    <3>1. Coherent(SaysNow(l, NoEvent), my[p])
      <4>1. link[p][q] \in Links /\ NoEvent \in Events
        BY <1>5 DEF NoEvent, Events, Variable
      <4>2. Coherent(SaysNow(link[p][q], NoEvent), my[p])
        BY <1>5, <4>1, SaidCoherent DEF NoEvent
      <4>3. NoEvent.what = "none"
        BY DEF NoEvent
      <4> QED BY <1>7, <4>1, <4>2, <4>3, SaysNowFacts DEF Coherent
    <3>2. PICK x : x = IF l.sent # {} THEN event("undefine", Undefined, {}) ELSE NoEvent
      OBVIOUS
    <3>3. x \in Events /\ x.what \in {"none", "undefine"} /\ x.value = Undefined /\ x.fields = {}
      BY <3>2 DEF Events, event, NoEvent, Variable
    <3>4. n = SaysNow(l, x)
      BY <1>2, <2>4, <3>2 DEF UndefineMyVariable, SaysNow
    <3>5. Coherent(n, my[p])
      <4>1. NoEvent \in Events
        BY DEF NoEvent, Events, Variable
      <4> QED BY <1>7, <3>1, <3>3, <3>4, <4>1, SaysNowFacts DEF Coherent
    <3> QED BY <3>3, <3>4, <3>5
  <2> QED BY <2>2, <2>3, <2>4
<1>10. n \in Links /\ n.his = link[p][q].his /\ n.collides = link[p][q].collides /\ Coherent(n, my[p])
  BY <1>7, <1>9, SaysNowFacts
<1>11. BoundsKept
  BY <1>3, BoundsStay
<1> HIDE DEF m
<1> QED BY <1>3, <1>4, <1>10, <1>11, NothingElse, OnlyLink DEF mastering

----------------------------------------------------------------------------
(* Steps of the user *)

LEMMA GetVariableChangesStep ==
  ASSUME Inv, NEW p \in Processes, GetVariableChanges(p)
  PROVE  Inv'
<1>1. /\ seen' = [seen EXCEPT ![p] = apply_var_changes(seen[p], changes[p])]
      /\ changes' = [changes EXCEPT ![p] = NoChange]
      /\ UNCHANGED <<my, filter, order, link, channel, master, bounds>>
  BY DEF GetVariableChanges, mastering
<1>2. /\ my[p] \in Variable /\ seen[p] \in Variable /\ changes[p] \in ChangeSet
      /\ order[p] \in Orders(p) /\ Partners(my[p], link[p], order[p])
  BY TypedFacts
<1>3. PICK mn, sn, ch, lk, sq, ms :
        /\ mn = my[p] /\ sn = apply_var_changes(seen[p], changes[p]) /\ ch = NoChange
        /\ lk = link[p] /\ sq = order[p] /\ ms = master[p]
  OBVIOUS
<1>4. mn \in Variable /\ sn \in Variable /\ ch \in ChangeSet /\ sq \in Orders(p) /\ Partners(mn, lk, sq)
  <2>1. NoChange \in ChangeSet
    BY DEF NoChange, ChangeSet, Kinds, Variable
  <2> QED BY <1>2, <1>3, <2>1, ViewType
<1>5. Counts(plan, p, mn, apply_var_changes(sn, ch), lk, sq, ms)
  <2>1. apply_var_changes(sn, ch) = apply_var_changes(seen[p], changes[p])
    BY <1>3, NoneWaits
  <2> QED BY <1>3, <2>1 DEF Inv, Held
<1>6. BoundsKept /\ ChannelsTyped /\ filter' \in [Processes -> BOOLEAN]
  BY <1>1, BoundsStay DEF Inv, Typed, ChannelsTyped
<1>7. Stepped(p, mn, sn, ch, lk, sq, ms)
  BY <1>1, <1>3, <1>4, <1>5, <1>6, Same DEF Stepped
<1> QED BY <1>7, OneProcess

(* With a master, only a process whose plan has a variable of its own has one. *)
LEMMA MasteredDefine ==
  ASSUME Inv, NEW p \in Processes, p \in plan.use_master_slave,
         my[p] # Undefined \/ does(p, "define")
  PROVE  ~DefinesNothing(plan, p)
<1>1. CASE my[p] # Undefined
  BY <1>1 DEF Inv, Held, Counts, MasterCounts
<1>2. CASE does(p, "define")
  BY <1>2 DEF does, may, DefinesNothing, Inv, Typed
<1> QED BY <1>1, <1>2

LEMMA MineCounts ==
  ASSUME Inv, NEW p \in Processes, NEW v, v # Undefined, NEW view, NEW lk,
         p \notin plan.use_master_slave => Owning(lk, order[p]) = {} /\ view = v,
         p \in plan.use_master_slave => ~DefinesNothing(plan, p)
  PROVE  Counts(plan, p, v, view, lk, order[p], master[p])
<1>1. /\ master[p] \in ToSet(order[p]) \cup {Nobody}
      /\ p \notin plan.use_master_slave => master[p] = Nobody
  BY TypedFacts DEF partners
<1> QED BY <1>1 DEF Counts, OneCounts

(* internalUpdateExistingVariable and the others: what becomes of the process. *)
ToldOf(u, v, fields) == IF compareTypeAndLimits(u, v) THEN fields ELSE DOMAIN v

MineBecomes(p, links, c, v, fields, gen_cb, lk, ch) ==
  /\ my' = [my EXCEPT ![p] = v] /\ link' = [link EXCEPT ![p] = lk]
  /\ changes' = [changes EXCEPT ![p] = ch]
  /\ Partners(v, lk, order[p]) /\ SameVariables(links, lk)
  /\ ch \in ChangeSet
  /\ ch = IF gen_cb THEN add_foreign_updates(c, v, ToldOf(my[p], v, fields),
                                             ~compareTypeAndLimits(my[p], v))
                    ELSE add_my_updates(c, v)

LEMMA MineIsChanged ==
  ASSUME Inv, NEW p \in Processes, NEW links, NEW c, NEW v \in Defined,
         NEW fields \in SUBSET DOMAIN v, NEW src, NEW gen_cb \in BOOLEAN,
         Partners(my[p], links, order[p]),
         src \in partners(p) =>
           DOMAIN v = DOMAIN my[p] /\ links[src].to_send.what \notin {"define", "undefine"},
         internalChangeMyVariable(p, links, c, v, fields, src, gen_cb)
  PROVE  \E lk, ch : MineBecomes(p, links, c, v, fields, gen_cb, lk, ch)
<1>1. PICK told : told = ToldOf(my[p], v, fields)
  OBVIOUS
<1>2. told \in SUBSET DOMAIN v
  BY <1>1 DEF ToldOf
<1>3. PICK ch : ch = IF gen_cb THEN add_foreign_updates(c, v, told, ~compareTypeAndLimits(my[p], v))
                               ELSE add_my_updates(c, v)
  OBVIOUS
<1>4. v \in Variable /\ told \in SUBSET Nat
  BY <1>2, DefinedFacts, VariableFacts
<1>5. ch \in ChangeSet
  <2>1. PICK was \in BOOLEAN : was = ~compareTypeAndLimits(my[p], v)
    OBVIOUS
  <2>2. ch \in {add_foreign_updates(c, v, told, was), add_my_updates(c, v)}
    BY <1>3, <2>1
  <2> QED BY <1>4, <2>2, ChangeTypes, ZenonT(20)
<1>6. PICK lk : lk = told_partners(p, links, v, told, src)
  OBVIOUS
<1>7. Partners(v, lk, order[p]) /\ SameVariables(links, lk)
  <2>1. Partners(v, told_partners(p, links, v, told, src), order[p])
        /\ SameVariables(links, told_partners(p, links, v, told, src))
    BY <1>2, PartnersTold
  <2> QED BY <1>6, <2>1
<1>8. /\ my' = [my EXCEPT ![p] = v] /\ link' = [link EXCEPT ![p] = lk]
      /\ changes' = [changes EXCEPT ![p] = ch]
  BY <1>1, <1>3, <1>6 DEF internalChangeMyVariable, ToldOf
<1>9. MineBecomes(p, links, c, v, fields, gen_cb, lk, ch)
  BY <1>1, <1>3, <1>5, <1>7, <1>8 DEF MineBecomes
<1> QED BY <1>9

LEMMA TellsAll ==
  ASSUME NEW s, NEW v \in Variable, NEW was_created \in BOOLEAN
  PROVE  apply_var_changes(s, add_foreign_updates(deleted, v, DOMAIN v, was_created)) = v
<1>1. IsValue(v)
  BY VariableFacts
<1>2. add_foreign_updates(deleted, v, DOMAIN v, was_created) \in {created(v), updated(v, DOMAIN v)}
  BY DEF add_foreign_updates, deleted, recreated
<1> QED BY <1>1, <1>2, WholeIsTold

(* A partner's variable collides with mine. *)
LEMMA DefineStep ==
  ASSUME Inv, NEW p \in Processes, NEW v \in Defined, NEW gen_cb \in BOOLEAN, Define(p, v, gen_cb)
  PROVE  Inv'
<1>1. PICK marked : marked = [q \in Processes |->
        [link[p][q] EXCEPT !.collides = @ \/ (q \in partners(p) /\ link[p][q].his # Undefined)]]
  OBVIOUS
<1>2. PICK c : c = IF gen_cb THEN deleted ELSE NoChange
  OBVIOUS
<1>3. /\ does(p, "define")
      /\ internalChangeMyVariable(p, marked, c, v, DOMAIN v, Nobody, gen_cb)
      /\ seen' = IF gen_cb THEN seen ELSE [seen EXCEPT ![p] = v]
      /\ UNCHANGED <<filter, order, channel, master>>
  BY <1>1, <1>2 DEF Define, mastering
<1>4. /\ my[p] \in Variable /\ seen[p] \in Variable /\ order[p] \in Orders(p)
      /\ Partners(my[p], link[p], order[p]) /\ link[p] \in [Processes -> Links]
      /\ partners(p) \subseteq Processes \ {p}
  BY TypedFacts
<1>5. v \in Variable /\ v # Undefined
  BY DefinedFacts
<1>6. ASSUME NEW q \in Processes
      PROVE  /\ marked[q] \in Links /\ Coherent(marked[q], my[p])
             /\ q \notin ToSet(order[p]) => marked[q] = NewPartner
             /\ q \in ToSet(order[p]) /\ marked[q].his # Undefined => marked[q].collides
  <2>1. PICK l \in Links : l = link[p][q]
    BY <1>4
  <2>2. PICK n : n = marked[q]
    OBVIOUS
  <2>3. PICK b \in BOOLEAN : b = (l.collides \/ (q \in partners(p) /\ l.his # Undefined))
    OBVIOUS
  <2>4. /\ n = [l EXCEPT !.collides = b]
        /\ n \in Links /\ n.his = l.his /\ n.his_to_send = l.his_to_send /\ n.wants = l.wants
        /\ n.to_send = l.to_send /\ n.collides = b
    <3>1. n = [l EXCEPT !.collides = b]
      BY <1>1, <2>1, <2>2, <2>3
    <3> QED BY <2>3, <3>1 DEF Links
  <2>5. Coherent(l, my[p]) /\ (q \notin ToSet(order[p]) => l = NewPartner)
    BY <1>4, <2>1 DEF Partners
  <2>6. Coherent(n, my[p])
    BY <2>3, <2>4, <2>5 DEF Coherent
  <2>7. q \notin ToSet(order[p]) => n = NewPartner
    <3>1. ASSUME q \notin ToSet(order[p]) PROVE n = NewPartner
      <4>1. l = NewPartner /\ l.collides = FALSE /\ b = FALSE
        <5>1. NewPartner.collides = FALSE
          BY DEF NewPartner
        <5> QED BY <2>3, <2>5, <3>1, <5>1 DEF partners
      <4>2. n = [l EXCEPT !.collides = l.collides]
        BY <2>4, <4>1
      <4>3. [l EXCEPT !.collides = l.collides] = l
        BY DEF Links
      <4> QED BY <4>1, <4>2, <4>3
    <3> QED BY <3>1
  <2>8. q \in ToSet(order[p]) /\ n.his # Undefined => n.collides
    BY <2>3, <2>4 DEF partners
  <2> QED BY <2>2, <2>4, <2>6, <2>7, <2>8
<1>7. Partners(my[p], marked, order[p])
  <2>1. marked \in [Processes -> Links]
    BY <1>1, <1>6
  <2> QED BY <1>6, <2>1 DEF Partners
<1>8. Nobody \notin partners(p) /\ DOMAIN v \in SUBSET DOMAIN v
  BY <1>4, VariablesAssumption
<1>9. Nobody \in partners(p) =>
        DOMAIN v = DOMAIN my[p] /\ marked[Nobody].to_send.what \notin {"define", "undefine"}
  BY <1>8
<1>10. PICK lk, ch : MineBecomes(p, marked, c, v, DOMAIN v, gen_cb, lk, ch)
  BY <1>3, <1>7, <1>8, <1>9, MineIsChanged
<1>11. PICK sn, sq, ms : sn = (IF gen_cb THEN seen[p] ELSE v) /\ sq = order[p] /\ ms = master[p]
  OBVIOUS
<1>12. seen' = [seen EXCEPT ![p] = sn]
  BY <1>3, <1>11, Same
<1>13. apply_var_changes(sn, ch) = v
  <2>1. CASE gen_cb
    <3>1. PICK was \in BOOLEAN : was = ~compareTypeAndLimits(my[p], v)
      OBVIOUS
    <3>2. ch = add_foreign_updates(deleted, v, DOMAIN v, was)
      BY <1>2, <1>10, <2>1, <3>1 DEF MineBecomes, ToldOf
    <3> QED BY <1>5, <3>2, TellsAll
  <2>2. CASE ~gen_cb
    <3>1. ch = NoChange /\ sn = v
      BY <1>2, <1>10, <1>11, <2>2 DEF MineBecomes, add_my_updates, NoChange, recreated
    <3> QED BY <3>1, NoneWaits
  <2> QED BY <2>1, <2>2
<1>14. Owning(lk, order[p]) = {}
  <2>1. ToSet(order[p]) \subseteq Processes
    BY <1>4 DEF partners
  <2> QED BY <1>6, <1>10, <2>1 DEF MineBecomes, Owning, Counted, SameVariables
<1>15. Counts(plan, p, v, v, lk, order[p], master[p])
  BY <1>3, <1>5, <1>14, MasteredDefine, MineCounts
<1>16. BoundsKept /\ ChannelsTyped /\ filter' \in [Processes -> BOOLEAN]
  BY <1>3, BoundsStay DEF Inv, Typed, ChannelsTyped
<1>17. /\ order' = [order EXCEPT ![p] = sq] /\ master' = [master EXCEPT ![p] = ms]
       /\ sq \in Orders(p) /\ sn \in Variable
  BY <1>3, <1>4, <1>5, <1>11, Same
<1>18. Stepped(p, v, sn, ch, lk, sq, ms)
  BY <1>5, <1>10, <1>11, <1>12, <1>13, <1>15, <1>16, <1>17 DEF Stepped, MineBecomes
<1> QED BY <1>18, OneProcess

(* Where there is no variable of mine any more, a partner's takes its place. *)
LEMMA UndefineStep ==
  ASSUME Inv, NEW p \in Processes, NEW gen_cb \in BOOLEAN, Undefine(p, gen_cb)
  PROVE  Inv'
<1>1. PICK told : told = [q \in Processes |-> IF q \in partners(p) THEN UndefineMyVariable(link[p][q])
                                                                  ELSE link[p][q]]
  OBVIOUS
<1>2. PICK c : c = IF gen_cb THEN deleted ELSE NoChange
  OBVIOUS
<1>3. PICK t : t = tryDefineSomeCollidingVariable(p, Undefined, told, order[p], master[p], c)
  OBVIOUS
<1>4. /\ my[p] # Undefined /\ does(p, "undefine")
      /\ my' = [my EXCEPT ![p] = Undefined]
      /\ link' = [link EXCEPT ![p] = t.links] /\ changes' = [changes EXCEPT ![p] = t.changes]
      /\ seen' = IF gen_cb THEN seen ELSE [seen EXCEPT ![p] = Undefined]
      /\ UNCHANGED <<filter, order, channel, master>>
  BY <1>1, <1>2, <1>3 DEF Undefine, mastering
<1>5. /\ seen[p] \in Variable /\ order[p] \in Orders(p) /\ order[p] \in Seq(Processes)
      /\ Partners(my[p], link[p], order[p]) /\ partners(p) \subseteq Processes \ {p}
  BY TypedFacts
<1>6. Partners(Undefined, told, order[p]) /\ SameVariables(link[p], told)
  <2>1. ASSUME NEW q \in Processes
        PROVE  /\ told[q] \in Links /\ Coherent(told[q], Undefined)
               /\ q \notin ToSet(order[p]) => told[q] = NewPartner
               /\ told[q].his = link[p][q].his /\ told[q].collides = link[p][q].collides
    <3>1. link[p][q] \in Links /\ Coherent(link[p][q], my[p])
          /\ (q \notin ToSet(order[p]) => link[p][q] = NewPartner)
      BY <1>5 DEF Partners
    <3>2. CASE q \in partners(p)
      <4>1. told[q] = UndefineMyVariable(link[p][q])
        BY <1>1, <3>2
      <4>2. PICK x \in Events : /\ UndefineMyVariable(link[p][q]) = SaysNow(link[p][q], x)
                                /\ \A v : Coherent(SaysNow(link[p][q], x), v)
        BY <3>1, UndefinedIsSaid
      <4> QED BY <3>1, <3>2, <4>1, <4>2, SaysNowFacts DEF partners
    <3>3. CASE q \notin partners(p)
      <4>1. told[q] = link[p][q] /\ link[p][q] = NewPartner
        BY <1>1, <3>1, <3>3 DEF partners
      <4>2. NewPartner.to_send.what = "none"
        BY DEF NewPartner, NoEvent
      <4>3. Coherent(told[q], Undefined)
        <5>1. told[q].to_send.what = "none"
          BY <4>1, <4>2
        <5> QED BY <3>1, <4>1, <5>1 DEF Coherent
      <4> QED BY <3>1, <4>1, <4>3
    <3> QED BY <3>2, <3>3
  <2>2. told \in [Processes -> Links]
    BY <1>1, <2>1
  <2> QED BY <2>1, <2>2 DEF Partners, SameVariables
<1>7. PICK sn, sq, ms, ch, lk :
        /\ sn = (IF gen_cb THEN seen[p] ELSE Undefined) /\ sq = order[p] /\ ms = master[p]
        /\ ch = t.changes /\ lk = t.links
  OBVIOUS
<1>8. c \in ChangeSet /\ apply_var_changes(sn, c) = Undefined
  <2>1. deleted \in ChangeSet /\ NoChange \in ChangeSet
    BY DEF deleted, NoChange, ChangeSet, Kinds, Variable
  <2> QED BY <1>2, <1>7, <2>1, NoneWaits
<1>9. /\ master[p] \in ToSet(order[p]) \cup {Nobody}
      /\ p \notin plan.use_master_slave => master[p] = Nobody
  BY TypedFacts DEF partners
<1>10. /\ ch \in ChangeSet /\ Partners(Undefined, lk, sq)
       /\ Counts(plan, p, Undefined, apply_var_changes(sn, ch), lk, sq, ms)
  <2>1. CASE p \notin plan.use_master_slave
    <3>1. OneCounts(my[p], apply_var_changes(seen[p], changes[p]), link[p], order[p])
      BY <2>1 DEF Inv, Held, Counts
    <3>2. Owning(told, order[p]) = {}
      BY <1>4, <1>5, <1>6, <3>1, SameCounts DEF OneCounts
    <3>3. /\ t.changes \in ChangeSet /\ Partners(Undefined, t.links, order[p])
          /\ OneCounts(Undefined, apply_var_changes(sn, t.changes), t.links, order[p])
      BY <1>3, <1>5, <1>6, <1>8, <2>1, <3>2, TryFinds
    <3> QED BY <1>7, <1>9, <2>1, <3>3 DEF Counts
  <2>2. CASE p \in plan.use_master_slave
    <3>1. ~DefinesNothing(plan, p)
      BY <1>4, <2>2, MasteredDefine
    <3>2. t.changes \in ChangeSet /\ Partners(Undefined, t.links, order[p])
      BY <1>3, <1>5, <1>6, <1>8, TryType
    <3> QED BY <1>7, <1>9, <2>2, <3>1, <3>2 DEF Counts
  <2> QED BY <2>1, <2>2
<1>11. BoundsKept /\ ChannelsTyped /\ filter' \in [Processes -> BOOLEAN]
  BY <1>4, BoundsStay DEF Inv, Typed, ChannelsTyped
<1>12. PICK mn : mn = Undefined
  OBVIOUS
<1>13. /\ my' = [my EXCEPT ![p] = mn] /\ seen' = [seen EXCEPT ![p] = sn]
       /\ changes' = [changes EXCEPT ![p] = ch] /\ link' = [link EXCEPT ![p] = lk]
       /\ order' = [order EXCEPT ![p] = sq] /\ master' = [master EXCEPT ![p] = ms]
       /\ sq \in Orders(p) /\ sn \in Variable /\ mn \in Variable
  BY <1>4, <1>5, <1>7, <1>12, Same DEF Variable
<1>14. Stepped(p, mn, sn, ch, lk, sq, ms)
  BY <1>10, <1>11, <1>12, <1>13 DEF Stepped
<1> QED BY <1>14, OneProcess

(* A change of mine, by the user or by a MOD: told is all that differs. *)
Updates(p, v, fields, src, gen_cb, sn) ==
  /\ my[p] # Undefined /\ v \in Variable /\ compareTypeAndLimits(my[p], v)
  /\ fields \in SUBSET DOMAIN v /\ diffAllFields(v, my[p]) \subseteq fields
  /\ src \in partners(p) => link[p][src].to_send.what \notin {"define", "undefine"}
  /\ internalChangeMyVariable(p, link[p], changes[p], v, fields, src, gen_cb)
  /\ sn \in Variable /\ seen' = [seen EXCEPT ![p] = sn]
  /\ gen_cb => sn = seen[p]
  /\ ~gen_cb /\ seen[p] = my[p] => sn = v
  /\ UNCHANGED <<order, master>>
  /\ filter' \in [Processes -> BOOLEAN] /\ ChannelsTyped /\ BoundsKept

LEMMA MineUpdated ==
  ASSUME Inv, NEW p \in Processes, NEW v, NEW fields, NEW src, NEW gen_cb \in BOOLEAN, NEW sn,
         Updates(p, v, fields, src, gen_cb, sn)
  PROVE  Inv'
<1> USE DEF Updates
<1>1. /\ my[p] \in Variable /\ changes[p] \in ChangeSet /\ order[p] \in Orders(p)
      /\ order[p] \in Seq(Processes)
      /\ Partners(my[p], link[p], order[p])
  BY TypedFacts
<1>2. v # Undefined /\ v \in Defined /\ DOMAIN v = DOMAIN my[p] /\ IsValue(v)
  <2>1. DOMAIN v = DOMAIN my[p]
    BY DEF compareTypeAndLimits
  <2>2. DOMAIN my[p] # {}
    BY <1>1, VariableFacts
  <2> QED BY <2>1, <2>2, VariableFacts
<1>3. src \in partners(p) =>
        DOMAIN v = DOMAIN my[p] /\ link[p][src].to_send.what \notin {"define", "undefine"}
  BY <1>2
<1>4. PICK links, c : links = link[p] /\ c = changes[p]
  OBVIOUS
<1>5. PICK lk, ch : MineBecomes(p, links, c, v, fields, gen_cb, lk, ch)
  BY <1>1, <1>2, <1>3, <1>4, MineIsChanged
<1>6. PICK sq, ms : sq = order[p] /\ ms = master[p]
  OBVIOUS
<1>7. ASSUME p \notin plan.use_master_slave
      PROVE  Owning(lk, order[p]) = {} /\ apply_var_changes(sn, ch) = v
  <2>1. OneCounts(my[p], apply_var_changes(seen[p], changes[p]), link[p], order[p])
    BY <1>7 DEF Inv, Held, Counts
  <2>2. Owning(link[p], order[p]) = {} /\ apply_var_changes(seen[p], c) = my[p]
    BY <1>4, <2>1 DEF OneCounts
  <2>3. Owning(lk, order[p]) = {}
    <3>1. SameVariables(links, lk)
      BY <1>5 DEF MineBecomes
    <3> QED BY <1>1, <1>4, <2>2, <3>1, SameCounts
  <2>4. CASE gen_cb
    <3>1. ch = add_foreign_updates(c, v, fields, FALSE)
      BY <1>5, <2>4 DEF MineBecomes, ToldOf
    <3>2. /\ c \in ChangeSet /\ fields \in SUBSET Nat
          /\ compareTypeAndLimits(apply_var_changes(seen[p], c), v)
          /\ diffAllFields(v, apply_var_changes(seen[p], c)) \subseteq fields
      BY <1>1, <1>4, <2>2, VariableFacts
    <3>3. apply_var_changes(seen[p], add_foreign_updates(c, v, fields, FALSE)) = v
      BY <1>2, <3>2, UpdatedIsTold DEF ChangeSet
    <3> QED BY <2>3, <2>4, <3>1, <3>3
  <2>5. CASE ~gen_cb
    <3>1. ch = add_my_updates(c, v)
      BY <1>5, <2>5 DEF MineBecomes
    <3>2. c.kind \notin {"created", "updated"} => sn = v
      <4>1. c.kind \in Kinds
        BY <1>1, <1>4 DEF ChangeSet
      <4>2. c.kind # "deleted"
        BY <2>2 DEF apply_var_changes
      <4>3. c.kind = "none" => seen[p] = my[p]
        BY <2>2 DEF apply_var_changes
      <4> QED BY <2>5, <4>1, <4>2, <4>3 DEF Kinds
    <3>3. apply_var_changes(sn, add_my_updates(c, v)) = v
      BY <1>2, <3>2, OwnChangeIsKept
    <3> QED BY <2>3, <3>1, <3>3
  <2> QED BY <2>4, <2>5
<1>8. p \in plan.use_master_slave => ~DefinesNothing(plan, p)
  BY MasteredDefine
<1>9. Counts(plan, p, v, apply_var_changes(sn, ch), lk, order[p], master[p])
  BY <1>2, <1>7, <1>8, MineCounts
<1>10. order' = [order EXCEPT ![p] = sq] /\ master' = [master EXCEPT ![p] = ms]
  BY <1>6, Same
<1>11. Stepped(p, v, sn, ch, lk, sq, ms)
  BY <1>1, <1>5, <1>6, <1>9, <1>10 DEF Stepped, MineBecomes
<1> QED BY <1>11, OneProcess

LEMMA ChangeMineStep ==
  ASSUME Inv, NEW p \in Processes, NEW i, NEW x \in Values, NEW gen_cb \in BOOLEAN,
         ChangeMine(p, i, x, gen_cb)
  PROVE  Inv'
<1>1. PICK v : v = [my[p] EXCEPT ![i] = x]
  OBVIOUS
<1>2. /\ i \in DOMAIN my[p] /\ does(p, "change")
      /\ internalChangeMyVariable(p, link[p], changes[p], v, {i}, Nobody, gen_cb)
      /\ noted(p, i, x, gen_cb)
      /\ UNCHANGED <<filter, order, channel, master>>
  BY <1>1 DEF ChangeMine, mastering
<1>3. my[p] \in Variable /\ seen[p] \in Variable /\ partners(p) \subseteq Processes \ {p}
  BY TypedFacts
<1>4. v \in Variable /\ DOMAIN v = DOMAIN my[p] /\ diffAllFields(v, my[p]) \subseteq {i}
  BY <1>1, <1>2, <1>3, ChangedType
<1>5. my[p] # Undefined
  BY <1>2, <1>3, VariableFacts
<1>6. PICK sn : sn = IF gen_cb \/ i \notin DOMAIN seen[p] THEN seen[p] ELSE [seen[p] EXCEPT ![i] = x]
  OBVIOUS
<1>7. sn \in Variable
  BY <1>3, <1>6, ChangedType
<1>8. seen' = [seen EXCEPT ![p] = sn]
  BY <1>2, <1>6, Same DEF noted
<1>9. (gen_cb => sn = seen[p]) /\ (~gen_cb /\ seen[p] = my[p] => sn = v)
  BY <1>1, <1>2, <1>6
<1>10. BoundsKept /\ ChannelsTyped /\ filter' \in [Processes -> BOOLEAN]
  BY <1>2, BoundsStay DEF Inv, Typed, ChannelsTyped
<1>11. /\ Nobody \in partners(p) => link[p][Nobody].to_send.what \notin {"define", "undefine"}
       /\ {i} \in SUBSET DOMAIN v /\ compareTypeAndLimits(my[p], v)
  BY <1>2, <1>3, <1>4, VariablesAssumption DEF compareTypeAndLimits
<1>12. PICK fields : fields = {i}
  OBVIOUS
<1>13. Updates(p, v, fields, Nobody, gen_cb, sn)
  BY <1>2, <1>4, <1>5, <1>7, <1>8, <1>9, <1>10, <1>11, <1>12 DEF Updates
<1> QED BY <1>13, MineUpdated
----------------------------------------------------------------------------
(* Steps with a partner's variable *)

(* A partner's variable has other values: if it counts the user is told. *)
LEMMA HisCounts ==
  ASSUME Inv, NEW p \in Processes, NEW q \in partners(p), NEW n \in Links,
         link[p][q].his # Undefined, n.his # Undefined, n.collides = link[p][q].collides,
         NEW lk, lk = [link[p] EXCEPT ![q] = n], NEW old, NEW view,
         old = apply_var_changes(seen[p], changes[p]),
         told_of(p, q) /\ old = link[p][q].his => view = n.his,
         ~told_of(p, q) => view = old
  PROVE  Counts(plan, p, my[p], view, lk, order[p], master[p])
<1>1. /\ order[p] \in Seq(Processes) /\ partners(p) \subseteq Processes \ {p}
      /\ link[p] \in [Processes -> Links]
      /\ partners(p) = ToSet(order[p])
  BY TypedFacts DEF partners
<1>2. \A x \in Processes : lk[x] = IF x = q THEN n ELSE link[p][x]
  BY <1>1
<1>3. Counts(plan, p, my[p], old, link[p], order[p], master[p])
  BY DEF Inv, Held
<1>4. CASE p \notin plan.use_master_slave
  <2>1. Counted(lk, order[p]) = Counted(link[p], order[p])
    BY <1>1, <1>2 DEF Counted
  <2>2. Owning(lk, order[p]) = Owning(link[p], order[p])
    BY <1>1, <1>2, <2>1 DEF Owning, Counted
  <2>3. told_of(p, q) <=> q \in Owning(link[p], order[p])
    BY <1>1, <1>4 DEF told_of, use_master_slave, Owning, Counted
  <2>4. q \in Counted(link[p], order[p])
    BY <1>1 DEF Counted
  <2>5. OneCounts(my[p], old, link[p], order[p]) /\ master[p] = Nobody
    BY <1>3, <1>4 DEF Counts
  <2>6. CASE my[p] = Undefined
    <3>1. PICK o \in ToSet(order[p]) : Owning(link[p], order[p]) = {o} /\ old = link[p][o].his
      BY <2>4, <2>5, <2>6 DEF OneCounts
    <3>2. view = lk[o].his
      BY <1>1, <1>2, <2>3, <3>1
    <3>3. OneCounts(my[p], view, lk, order[p])
      BY <2>2, <2>6, <3>1, <3>2 DEF OneCounts
    <3> QED BY <1>4, <2>5, <3>3 DEF Counts
  <2>7. CASE my[p] # Undefined
    <3>1. OneCounts(my[p], view, lk, order[p])
      BY <2>2, <2>3, <2>5, <2>7 DEF OneCounts
    <3> QED BY <1>4, <2>5, <3>1 DEF Counts
  <2> QED BY <2>6, <2>7
<1>5. CASE p \in plan.use_master_slave
  <2>1. master[p] \in ToSet(order[p]) \cup {Nobody}
    BY <1>3, <1>5 DEF Counts
  <2>2. ASSUME DefinesNothing(plan, p) PROVE MasterCounts(my[p], view, lk, master[p])
    <3>1. MasterCounts(my[p], old, link[p], master[p])
      BY <1>3, <1>5, <2>2 DEF Counts
    <3>2. \A x \in Processes : ~lk[x].collides
      BY <1>1, <1>2, <3>1 DEF MasterCounts
    <3>3. ~link[p][q].collides
      BY <1>1, <3>1 DEF MasterCounts
    <3>4. told_of(p, q) <=> master[p] = q
      BY <1>5, <3>3 DEF told_of, use_master_slave
    <3>5. view = his_of(lk, master[p])
      <4>1. q \in Processes /\ q # Nobody
        BY <1>1, VariablesAssumption
      <4>2. old = his_of(link[p], master[p])
        BY <3>1 DEF MasterCounts
      <4>3. CASE master[p] = q
        BY <1>2, <3>4, <4>1, <4>2, <4>3 DEF his_of
      <4>4. CASE master[p] # q
        BY <1>1, <1>2, <2>1, <3>4, <4>2, <4>4 DEF his_of
      <4> QED BY <4>3, <4>4
    <3> QED BY <3>1, <3>2, <3>5 DEF MasterCounts
  <2> QED BY <1>5, <2>1, <2>2 DEF Counts
<1> QED BY <1>4, <1>5

(* A step that changes the values of a partner's variable. *)
HisChanges(p, q, n, sn, ch) ==
  /\ n \in Links /\ Coherent(n, my[p])
  /\ link[p][q].his # Undefined /\ n.his # Undefined /\ n.collides = link[p][q].collides
  /\ link' = [link EXCEPT ![p] = [link[p] EXCEPT ![q] = n]]
  /\ sn \in Variable /\ seen' = [seen EXCEPT ![p] = sn]
  /\ ch \in ChangeSet /\ changes' = [changes EXCEPT ![p] = ch]
  /\ UNCHANGED <<my, order, master>>
  /\ filter' \in [Processes -> BOOLEAN] /\ ChannelsTyped /\ BoundsKept
  /\ told_of(p, q) /\ apply_var_changes(seen[p], changes[p]) = link[p][q].his =>
       apply_var_changes(sn, ch) = n.his
  /\ ~told_of(p, q) => apply_var_changes(sn, ch) = apply_var_changes(seen[p], changes[p])

LEMMA HisUpdated ==
  ASSUME Inv, NEW p \in Processes, NEW q \in partners(p), NEW n, NEW sn, NEW ch,
         HisChanges(p, q, n, sn, ch)
  PROVE  Inv'
<1> USE DEF HisChanges
<1>1. /\ my[p] \in Variable /\ order[p] \in Orders(p) /\ order[p] \in Seq(Processes)
      /\ Partners(my[p], link[p], order[p]) /\ q \in ToSet(order[p])
  BY TypedFacts DEF partners
<1>2. PICK mn, lk, sq, ms, old, view :
        /\ mn = my[p] /\ lk = [link[p] EXCEPT ![q] = n] /\ sq = order[p] /\ ms = master[p]
        /\ old = apply_var_changes(seen[p], changes[p]) /\ view = apply_var_changes(sn, ch)
  OBVIOUS
<1>3. Partners(my[p], lk, order[p])
  BY <1>1, <1>2, OnePartner
<1>4. /\ told_of(p, q) /\ old = link[p][q].his => view = n.his
      /\ ~told_of(p, q) => view = old
  BY <1>2
<1>5. Counts(plan, p, my[p], view, lk, order[p], master[p])
  BY <1>2, <1>4, HisCounts
<1>6. /\ my' = [my EXCEPT ![p] = mn] /\ link' = [link EXCEPT ![p] = lk]
      /\ order' = [order EXCEPT ![p] = sq] /\ master' = [master EXCEPT ![p] = ms]
  BY <1>2, Same
<1>7. Stepped(p, mn, sn, ch, lk, sq, ms)
  BY <1>1, <1>2, <1>3, <1>5, <1>6 DEF Stepped
<1> QED BY <1>7, OneProcess

LEMMA ChangePartnerVariableStep ==
  ASSUME Inv, NEW p \in Processes, NEW q \in partners(p), NEW i, NEW x \in Values,
         NEW gen_cb \in BOOLEAN, ChangePartnerVariable(p, q, i, x, gen_cb)
  PROVE  Inv'
<1>1. q \in Processes
  BY TypedFacts
<1>2. /\ link[p][q] \in Links /\ Coherent(link[p][q], my[p]) /\ link[p][q].his \in Variable
      /\ link[p][q].his_to_send \in Queued
      /\ seen[p] \in Variable /\ changes[p] \in ChangeSet
  BY <1>1, LinkFacts, TypedFacts
<1>3. PICK l \in Links : l = link[p][q]
  BY <1>2
<1>4. PICK v, to_send, c :
        v = [l.his EXCEPT ![i] = x] /\ to_send = push_back_or_update(l.his_to_send, v, {i})
        /\ c = changes[p]
  OBVIOUS
<1>5. PICK n : n = [l EXCEPT !.his = v, !.his_to_send = to_send]
  OBVIOUS
<1>6. PICK ch : ch = IF gen_cb THEN add_foreign_updates(c, v, {i}, FALSE) ELSE add_my_updates(c, v)
  OBVIOUS
<1>7. /\ q \in owners(p, link[p], order[p], master[p])
      /\ i \in DOMAIN l.his
      /\ does(p, "change")
      /\ link' = [link EXCEPT ![p] = [link[p] EXCEPT ![q] = n]]
      /\ changes' = [changes EXCEPT ![p] = ch]
      /\ noted(p, i, x, gen_cb)
      /\ UNCHANGED <<my, filter, order, channel, master>>
  BY <1>3, <1>4, <1>5, <1>6 DEF ChangePartnerVariable, mastering
<1>8. /\ l.his \in Variable /\ l.his_to_send \in Queued /\ Coherent(l, my[p])
  BY <1>2, <1>3
<1>9. v \in Variable /\ DOMAIN v = DOMAIN l.his /\ diffAllFields(v, l.his) \subseteq {i}
      /\ IsValue(v) /\ DOMAIN v \subseteq Nat
  BY <1>4, <1>7, <1>8, ChangedType, VariableFacts
<1>10. l.his # Undefined /\ v # Undefined
  BY <1>7, <1>8, <1>9, VariableFacts
<1>11. to_send \in Queued /\ to_send.value = v /\ to_send.fields \subseteq DOMAIN v
  <2>1. to_send = [value |-> v, fields |-> l.his_to_send.fields \cup {i}]
    BY <1>4 DEF push_back_or_update
  <2>2. l.his_to_send.fields \subseteq DOMAIN l.his
    BY <1>8 DEF Coherent
  <2> QED BY <1>7, <1>9, <2>1, <2>2 DEF Queued
<1>12. /\ n \in Links /\ n.his = v /\ n.collides = l.collides /\ n.his_to_send = to_send
       /\ n.wants = l.wants /\ n.to_send = l.to_send
  BY <1>5, <1>9, <1>11 DEF Links
<1>13. Coherent(n, my[p])
  BY <1>8, <1>10, <1>11, <1>12 DEF Coherent
<1>14. PICK sn : sn = IF gen_cb \/ i \notin DOMAIN seen[p] THEN seen[p] ELSE [seen[p] EXCEPT ![i] = x]
  OBVIOUS
<1>15. sn \in Variable
  BY <1>2, <1>14, ChangedType
<1>16. seen' = [seen EXCEPT ![p] = sn]
  BY <1>7, <1>14, Same DEF noted
<1>17. ch \in ChangeSet
  <2>1. {i} \in SUBSET Nat
    BY <1>7, <1>9
  <2>2. add_foreign_updates(c, v, {i}, FALSE) \in ChangeSet /\ add_my_updates(c, v) \in ChangeSet
    BY <1>9, <2>1, ChangeTypes
  <2> QED BY <1>6, <2>2
<1>18. ASSUME apply_var_changes(seen[p], c) = l.his PROVE apply_var_changes(sn, ch) = v
  <2>1. CASE gen_cb
    <3>1. PICK fields : fields = {i}
      OBVIOUS
    <3>2. /\ c \in ChangeSet /\ fields \in SUBSET Nat
          /\ compareTypeAndLimits(apply_var_changes(seen[p], c), v)
          /\ diffAllFields(v, apply_var_changes(seen[p], c)) \subseteq fields
      BY <1>2, <1>4, <1>7, <1>9, <1>18, <3>1 DEF compareTypeAndLimits
    <3>3. apply_var_changes(seen[p], add_foreign_updates(c, v, fields, FALSE)) = v
      BY <1>9, <3>2, TellsUpdated
    <3> QED BY <1>6, <1>14, <2>1, <3>1, <3>3
  <2>2. CASE ~gen_cb
    <3>1. c.kind \notin {"created", "updated"} => sn = v
      <4>1. c.kind \in Kinds
        BY <1>2, <1>4 DEF ChangeSet
      <4>2. c.kind # "deleted"
        BY <1>10, <1>18 DEF apply_var_changes
      <4>3. c.kind = "none" => seen[p] = l.his
        BY <1>18 DEF apply_var_changes
      <4>4. seen[p] = l.his => sn = v
        BY <1>4, <1>7, <1>14, <2>2
      <4> QED BY <4>1, <4>2, <4>3, <4>4 DEF Kinds
    <3>2. apply_var_changes(sn, add_my_updates(c, v)) = v
      BY <1>9, <3>1, OwnChangeIsKept
    <3> QED BY <1>6, <2>2, <3>2
  <2> QED BY <2>1, <2>2
<1>19. told_of(p, q)
  <2>1. ~l.collides /\ (use_master_slave(p) => q = master[p])
    BY <1>3, <1>7 DEF owners, counted
  <2> QED BY <1>3, <2>1 DEF told_of
<1>20. BoundsKept /\ ChannelsTyped /\ filter' \in [Processes -> BOOLEAN]
  BY <1>7, BoundsStay DEF Inv, Typed, ChannelsTyped
<1>21. HisChanges(p, q, n, sn, ch)
  BY <1>3, <1>4, <1>7, <1>10, <1>12, <1>13, <1>15, <1>16, <1>17, <1>18, <1>19, <1>20 DEF HisChanges
<1> QED BY <1>21, HisUpdated

LEMMA PartFacts ==
  ASSUME NEW m \in Messages
  PROVE  /\ m.id \in Int /\ m.wants \in BOOLEAN /\ m.value \in Part
         /\ \A i \in DOMAIN m.value : m.value[i] \in Values
         /\ m.what = "DEF" => m.value \in Defined
<1>1. m.id \in Int /\ m.wants \in BOOLEAN /\ m.value \in Part /\ (m.what = "DEF" => m.value \in Defined)
  BY DEF Messages
<1>2. PICK S \in SUBSET Nat : m.value \in [S -> Values]
  BY <1>1 DEF Part
<1> QED BY <1>1, <1>2

LEMMA CopiedDiffers ==
  ASSUME NEW u, NEW v, NEW fields
  PROVE  diffAllFields(copy_indexes(u, v, fields), u) \subseteq fields
BY DEF diffAllFields, copy_indexes

(* A step that takes a message and changes nothing of what the process holds. *)
LEMMA NothingHeld ==
  ASSUME Inv, NEW p \in Processes, UNCHANGED <<my, seen, changes, link, order, master, filter>>,
         ChannelsTyped, BoundsKept
  PROVE  Inv'
<1>1. PICK lk : lk = link[p]
  OBVIOUS
<1>2. /\ link' = [link EXCEPT ![p] = lk] /\ Partners(my[p], lk, order[p]) /\ SameVariables(link[p], lk)
      /\ filter' \in [Processes -> BOOLEAN]
  BY <1>1, Same, TypedFacts, NothingElse DEF SameVariables
<1> QED BY <1>2, OnlyLinks

LEMMA ProcessMODStep ==
  ASSUME Inv, NEW p \in Processes, NEW q \in Processes \ {p}, ProcessMOD(p, q)
  PROVE  Inv'
<1>1. PICK m : m = next_message(p, q)
  OBVIOUS
<1>2. PICK v : v = copy_indexes(my[p], m.value, DOMAIN m.value)
  OBVIOUS
<1>3. PICK fields : fields = diff_event_fields(link[p][q].ids, v, diffAllFields(v, my[p]), m.id)
  OBVIOUS
<1>4. PICK w : w = copy_indexes(my[p], v, fields)
  OBVIOUS
<1>5. /\ takes(p, q, "MOD")
      /\ IF applicable(p, q, m) /\ fields # {}
           THEN internalChangeMyVariable(p, link[p], changes[p], w, fields, q, TRUE)
           ELSE UNCHANGED <<my, changes, link>>
      /\ UNCHANGED <<filter, order, seen, master, bounds>>
  BY <1>1, <1>2, <1>3, <1>4 DEF ProcessMOD, mastering
<1>6. ChannelsTyped /\ m \in Messages
  BY <1>1, <1>5, TakesTyped
<1>7. BoundsKept /\ filter' \in [Processes -> BOOLEAN]
  BY <1>5, BoundsStay, NothingElse
<1>8. CASE applicable(p, q, m) /\ fields # {}
  <2>1. my[p] # Undefined /\ link[p][q].to_send.what \notin {"define", "undefine"}
    BY <1>8 DEF applicable
  <2>2. my[p] \in Variable /\ seen[p] \in Variable
    BY TypedFacts
  <2>3. v \in Variable /\ DOMAIN v = DOMAIN my[p]
    BY <1>2, <1>6, <2>2, PartFacts, CopiedType
  <2>4. w \in Variable /\ DOMAIN w = DOMAIN my[p]
    <3>1. \A i \in fields \cap DOMAIN my[p] : v[i] \in Values
      BY <2>3, VariableFacts
    <3> QED BY <1>4, <2>2, <3>1, CopiedType
  <2>5. fields \subseteq DOMAIN w
    BY <1>3, <2>3, <2>4 DEF diff_event_fields, diffAllFields
  <2>6. diffAllFields(w, my[p]) \subseteq fields
    BY <1>4, CopiedDiffers
  <2>7. PICK sn : sn = seen[p]
    OBVIOUS
  <2>8. seen' = [seen EXCEPT ![p] = sn]
    BY <1>5, <2>7, Same
  <2>9. Updates(p, w, fields, q, TRUE, sn)
    BY <1>5, <1>6, <1>7, <1>8, <2>1, <2>2, <2>4, <2>5, <2>6, <2>7, <2>8
       DEF Updates, compareTypeAndLimits
  <2> QED BY <2>9, MineUpdated
<1>9. CASE ~(applicable(p, q, m) /\ fields # {})
  BY <1>5, <1>6, <1>7, <1>9, NothingHeld
<1> QED BY <1>8, <1>9

LEMMA ProcessSETStep ==
  ASSUME Inv, NEW p \in Processes, NEW q \in Processes \ {p}, ProcessSET(p, q)
  PROVE  Inv'
<1>1. PICK m : m = next_message(p, q)
  OBVIOUS
<1>2. /\ link[p][q] \in Links /\ Coherent(link[p][q], my[p]) /\ link[p][q].his \in Variable
      /\ link[p][q].his_to_send \in Queued /\ seen[p] \in Variable /\ changes[p] \in ChangeSet
  BY LinkFacts, TypedFacts
<1>3. PICK l \in Links : l = link[p][q]
  BY <1>2
<1>4. PICK v : v = copy_indexes(l.his, m.value, DOMAIN m.value)
  OBVIOUS
<1>5. PICK fields : fields = diffAllFields(v, l.his)
  OBVIOUS
<1>6. PICK to_send : to_send = erase_variable_changes_from_queue(l.his_to_send, fields)
  OBVIOUS
<1>7. PICK n : n = [l EXCEPT !.his = v, !.his_id = m.id, !.his_to_send = to_send]
  OBVIOUS
<1>8. PICK c : c = changes[p]
  OBVIOUS
<1>9. PICK ch : ch = IF fields # {} /\ told_of(p, q) THEN add_foreign_updates(c, v, fields, FALSE) ELSE c
  OBVIOUS
<1>10. /\ takes(p, q, "SET")
       /\ link' = IF l.his = Undefined THEN link ELSE [link EXCEPT ![p] = [link[p] EXCEPT ![q] = n]]
       /\ changes' = [changes EXCEPT ![p] = ch]
       /\ UNCHANGED <<my, filter, order, seen, master, bounds>>
  BY <1>1, <1>3, <1>4, <1>5, <1>6, <1>7, <1>8, <1>9, Same DEF ProcessSET, mastering
<1>11. ChannelsTyped /\ m \in Messages /\ q \in partners(p)
  BY <1>1, <1>10, TakesTyped
<1>12. BoundsKept /\ filter' \in [Processes -> BOOLEAN]
  BY <1>10, BoundsStay, NothingElse
<1>13. /\ l.his \in Variable /\ Coherent(l, my[p]) /\ l.his_to_send \in Queued
  BY <1>2, <1>3
<1>14. /\ v \in Variable /\ DOMAIN v = DOMAIN l.his /\ fields \subseteq DOMAIN v /\ fields \in SUBSET Nat
       /\ v = Undefined <=> l.his = Undefined
  <2>1. v \in Variable /\ DOMAIN v = DOMAIN l.his
    BY <1>4, <1>11, <1>13, PartFacts, CopiedType
  <2>2. fields \subseteq DOMAIN v
    BY <1>5 DEF diffAllFields
  <2> QED BY <1>13, <2>1, <2>2, VariableFacts
<1>15. CASE l.his = Undefined
  <2>1. fields = {}
    BY <1>13, <1>14, <1>15, VariableFacts
  <2>2. ch = changes[p]
    BY <1>8, <1>9, <2>1
  <2>3. UNCHANGED <<my, seen, changes, link, order, master, filter>>
    BY <1>10, <1>15, <2>2, Same
  <2> QED BY <1>11, <1>12, <2>3, NothingHeld
<1>16. CASE l.his # Undefined
  <2>1. to_send \in Queued /\ to_send.fields \subseteq DOMAIN v
        /\ \A i \in to_send.fields : to_send.value[i] = v[i]
    <3>1. /\ l.his_to_send.fields \subseteq DOMAIN l.his
          /\ \A i \in l.his_to_send.fields : l.his_to_send.value[i] = l.his[i]
      BY <1>13 DEF Coherent
    <3>2. CASE l.his_to_send.fields \subseteq fields
      <4>1. to_send = Nothing
        BY <1>6, <3>2 DEF erase_variable_changes_from_queue
      <4> QED BY <4>1 DEF Nothing, Queued, Variable
    <3>3. CASE ~(l.his_to_send.fields \subseteq fields)
      <4>1. PICK left_over : left_over = l.his_to_send.fields \ fields
        OBVIOUS
      <4>2. to_send = [l.his_to_send EXCEPT !.fields = left_over]
        BY <1>6, <3>3, <4>1 DEF erase_variable_changes_from_queue
      <4>3. left_over \in SUBSET Nat
        BY <1>13, <4>1 DEF Queued
      <4>4. /\ to_send \in Queued /\ to_send.fields = left_over
            /\ to_send.value = l.his_to_send.value
        BY <1>13, <4>2, <4>3 DEF Queued
      <4>5. \A i \in left_over : l.his[i] = v[i]
        BY <1>5, <1>14, <3>1, <4>1 DEF diffAllFields
      <4> QED BY <1>14, <3>1, <4>1, <4>4, <4>5
    <3> QED BY <3>2, <3>3
  <2>2. /\ n \in Links /\ n.his = v /\ n.collides = l.collides /\ n.his_to_send = to_send
        /\ n.wants = l.wants /\ n.to_send = l.to_send
    <3>1. m.id \in Int
      BY <1>11, PartFacts
    <3> QED BY <1>7, <1>14, <2>1, <3>1 DEF Links
  <2>3. Coherent(n, my[p])
    BY <1>13, <1>14, <1>16, <2>1, <2>2 DEF Coherent
  <2>4. PICK sn : sn = seen[p]
    OBVIOUS
  <2>5. c \in ChangeSet /\ sn \in Variable /\ seen' = [seen EXCEPT ![p] = sn]
    BY <1>2, <1>8, <1>10, <2>4, Same
  <2>6. ch \in ChangeSet
    <3>1. add_foreign_updates(c, v, fields, FALSE) \in ChangeSet
      BY <1>14, ChangeTypes
    <3> QED BY <1>9, <2>5, <3>1
  <2>7. ASSUME told_of(p, q), apply_var_changes(sn, c) = l.his
        PROVE  apply_var_changes(sn, ch) = v
    <3>1. CASE fields = {}
      <4>1. \A i \in DOMAIN v : v[i] = l.his[i]
        BY <1>5, <3>1 DEF diffAllFields
      <4>2. v = [i \in DOMAIN v |-> v[i]] /\ l.his = [i \in DOMAIN l.his |-> l.his[i]]
        BY <1>13, <1>14, VariableFacts DEF IsValue
      <4>3. v = l.his
        BY <1>14, <4>1, <4>2
      <4> QED BY <1>9, <2>7, <3>1, <4>3
    <3>2. CASE fields # {}
      <4>1. /\ compareTypeAndLimits(apply_var_changes(sn, c), v)
            /\ diffAllFields(v, apply_var_changes(sn, c)) \subseteq fields
        BY <1>5, <1>14, <2>7 DEF compareTypeAndLimits
      <4>2. apply_var_changes(sn, add_foreign_updates(c, v, fields, FALSE)) = v
        BY <1>14, <2>5, <4>1, TellsUpdated
      <4> QED BY <1>9, <2>7, <3>2, <4>2
    <3> QED BY <3>1, <3>2
  <2>8. ~told_of(p, q) => ch = c
    BY <1>9
  <2>9. HisChanges(p, q, n, sn, ch)
    BY <1>3, <1>8, <1>10, <1>11, <1>12, <1>14, <1>16, <2>2, <2>3, <2>4, <2>5, <2>6, <2>7, <2>8
       DEF HisChanges
  <2> QED BY <1>11, <2>9, HisUpdated
<1> QED BY <1>15, <1>16

----------------------------------------------------------------------------
(* Steps of the master *)

LEMMA SwitchTypes ==
  ASSUME NEW c \in ChangeSet, NEW old \in Variable, NEW new \in Variable
  PROVE  switch_master_variables(c, old, new) \in ChangeSet
<1>1. DOMAIN new \in SUBSET Nat
  BY VariableFacts
<1>2. PICK fields : fields = diffAllFields(new, old)
  OBVIOUS
<1>3. fields \in SUBSET Nat
  BY <1>1, <1>2 DEF diffAllFields
<1>4. /\ deleted \in ChangeSet
      /\ add_foreign_updates(c, new, fields, FALSE) \in ChangeSet
      /\ add_foreign_updates(c, new, DOMAIN new, TRUE) \in ChangeSet
  BY <1>1, <1>3, ChangeTypes
<1> QED BY <1>2, <1>4 DEF switch_master_variables

LEMMA HisType ==
  ASSUME NEW mine, NEW links, NEW seq \in Seq(Processes), Partners(mine, links, seq),
         NEW m \in ToSet(seq) \cup {Nobody}
  PROVE  his_of(links, m) \in Variable
<1>1. CASE m = Nobody
  BY <1>1 DEF his_of, Variable
<1>2. CASE m # Nobody
  <2>1. m \in Processes
    BY <1>2 DEF ToSet
  <2>2. links[m] \in Links
    BY <2>1 DEF Partners
  <2> QED BY <1>2, <2>2 DEF his_of, Links
<1> QED BY <1>1, <1>2

LEMMA FrontIsPartner ==
  ASSUME NEW seq \in Seq(Processes)
  PROVE  front_or_nobody(seq) \in ToSet(seq) \cup {Nobody}
<1>1. CASE seq # <<>>
  <2>1. 1 \in DOMAIN seq /\ Head(seq) = seq[1]
    BY <1>1
  <2>2. Head(seq) \in ToSet(seq)
    BY <2>1 DEF ToSet
  <2> QED BY <2>2 DEF front_or_nobody
<1>2. CASE seq = <<>>
  BY <1>2 DEF front_or_nobody
<1> QED BY <1>1, <1>2

(* A master is a partner, or there is none. *)
LEMMA ChosenMaster ==
  ASSUME NEW p, NEW links, NEW seq \in Seq(Processes), NEW name,
         master[p] \in ToSet(seq) \cup {Nobody}
  PROVE  chosen_master(p, links, seq, name) \in ToSet(seq) \cup {Nobody}
BY FrontIsPartner DEF chosen_master

(* The user of a process is told what its new master has instead of what its old one had. *)
Switched(p, lk, sq, m, ch) ==
  /\ sq \in Orders(p) /\ Partners(my[p], lk, sq) /\ m \in ToSet(sq) \cup {Nobody}
  /\ (\A x \in Processes : ~link[p][x].collides) => \A x \in Processes : ~lk[x].collides
  /\ ch = switch_master_variables(changes[p], his_of(link[p], master[p]), his_of(lk, m))

LEMMA MasterSwitched ==
  ASSUME Inv, NEW p \in Processes, p \in plan.use_master_slave, NEW lk, NEW sq, NEW m, NEW ch,
         Switched(p, lk, sq, m, ch)
  PROVE  ch \in ChangeSet /\ Counts(plan, p, my[p], apply_var_changes(seen[p], ch), lk, sq, m)
<1> USE DEF Switched
<1>1. /\ changes[p] \in ChangeSet /\ order[p] \in Seq(Processes)
      /\ Partners(my[p], link[p], order[p]) /\ master[p] \in ToSet(order[p]) \cup {Nobody}
  BY TypedFacts DEF partners
<1>2. PICK c \in ChangeSet : c = changes[p]
  BY <1>1
<1>3. PICK old \in Variable : old = his_of(link[p], master[p])
  BY <1>1, HisType
<1>4. PICK new \in Variable : new = his_of(lk, m)
  <2>1. sq \in Seq(Processes)
    BY DEF Orders
  <2> QED BY <2>1, HisType
<1>5. ch = switch_master_variables(c, old, new)
  BY <1>2, <1>3, <1>4
<1>6. ch \in ChangeSet
  BY <1>5, SwitchTypes
<1>7. ASSUME DefinesNothing(plan, p)
      PROVE  MasterCounts(my[p], apply_var_changes(seen[p], ch), lk, m)
  <2>1. MasterCounts(my[p], apply_var_changes(seen[p], changes[p]), link[p], master[p])
    BY <1>7 DEF Inv, Held, Counts
  <2>2. apply_var_changes(seen[p], c) = old
    BY <1>2, <1>3, <2>1 DEF MasterCounts
  <2>3. apply_var_changes(seen[p], ch) = new
    BY <1>5, <2>2, MasterIsTold
  <2> QED BY <1>4, <2>1, <2>3 DEF MasterCounts
<1> QED BY <1>6, <1>7 DEF Counts

LEMMA SwitchedHolds ==
  ASSUME Inv, NEW p \in Processes, p \in plan.use_master_slave, NEW lk, NEW sq, NEW m, NEW ch,
         Switched(p, lk, sq, m, ch),
         link' = [link EXCEPT ![p] = lk], order' = [order EXCEPT ![p] = sq],
         master' = [master EXCEPT ![p] = m], changes' = [changes EXCEPT ![p] = ch],
         UNCHANGED <<my, seen>>, filter' \in [Processes -> BOOLEAN], ChannelsTyped, BoundsKept
  PROVE  Inv'
<1>1. ch \in ChangeSet /\ Counts(plan, p, my[p], apply_var_changes(seen[p], ch), lk, sq, m)
  BY MasterSwitched
<1>2. my[p] \in Variable /\ seen[p] \in Variable
  BY TypedFacts
<1>3. PICK mn, sn : mn = my[p] /\ sn = seen[p]
  OBVIOUS
<1>4. my' = [my EXCEPT ![p] = mn] /\ seen' = [seen EXCEPT ![p] = sn]
  BY <1>3, Same
<1>5. sq \in Orders(p) /\ Partners(mn, lk, sq)
  BY <1>3 DEF Switched
<1>6. Stepped(p, mn, sn, ch, lk, sq, m)
  BY <1>1, <1>2, <1>3, <1>4, <1>5 DEF Stepped
<1> QED BY <1>6, OneProcess

LEMMA SetMasterStep ==
  ASSUME Inv, NEW p \in Processes, NEW name \in Processes, SetMaster(p, name)
  PROVE  Inv'
<1>1. PICK lk, sq : lk = link[p] /\ sq = order[p]
  OBVIOUS
<1>2. PICK m : m = chosen_master(p, lk, sq, name)
  OBVIOUS
<1>3. PICK ch : ch = switch_master_variables(changes[p], his_of(link[p], master[p]), his_of(lk, m))
  OBVIOUS
<1>4. /\ p \in plan.use_master_slave /\ does(p, "master")
      /\ master' = [master EXCEPT ![p] = m] /\ changes' = [changes EXCEPT ![p] = ch]
      /\ UNCHANGED <<my, filter, order, link, seen, channel>>
  BY <1>1, <1>2, <1>3 DEF SetMaster, msv_refresh_internal, use_master_slave
<1>5. /\ sq \in Orders(p) /\ sq \in Seq(Processes) /\ Partners(my[p], lk, sq)
      /\ master[p] \in ToSet(sq) \cup {Nobody}
  BY <1>1, TypedFacts DEF partners
<1>6. m \in ToSet(sq) \cup {Nobody}
  BY <1>2, <1>5, ChosenMaster
<1>7. Switched(p, lk, sq, m, ch)
  BY <1>1, <1>3, <1>5, <1>6 DEF Switched
<1>8. link' = [link EXCEPT ![p] = lk] /\ order' = [order EXCEPT ![p] = sq]
  BY <1>1, <1>4, Same
<1>9. BoundsKept /\ ChannelsTyped /\ filter' \in [Processes -> BOOLEAN]
  BY <1>4, BoundsStay DEF Inv, Typed, ChannelsTyped
<1> QED BY <1>4, <1>7, <1>8, <1>9, SwitchedHolds

LEMMA ProcessINITStep ==
  ASSUME Inv, NEW p \in Processes, NEW q \in Processes \ {p}, ProcessINIT(p, q)
  PROVE  Inv'
<1>1. link[p][q] \in Links /\ Coherent(link[p][q], my[p])
  BY LinkFacts
<1>2. PICK l \in Links : l = link[p][q]
  BY <1>1
<1>3. PICK init : init = (l.init \cup {"received_init"}) \ {"sent_init_acc"}
  OBVIOUS
<1>4. PICK n : n = [l EXCEPT !.init = init]
  OBVIOUS
<1>5. PICK lk : lk = [link[p] EXCEPT ![q] = n]
  OBVIOUS
<1>6. /\ takes(p, q, "INIT") /\ link' = [link EXCEPT ![p] = lk]
      /\ IF use_master_slave(p) THEN msv_refresh_internal(p, lk, order[p], master_name[p])
                               ELSE UNCHANGED <<master, changes>>
      /\ UNCHANGED <<my, filter, order, seen, master_name, bounds>>
  <2>1. lk = [link[p] EXCEPT ![q].init = (@ \cup {"received_init"}) \ {"sent_init_acc"}]
    BY <1>2, <1>3, <1>4, <1>5
  <2> QED BY <2>1 DEF ProcessINIT
<1>7. ChannelsTyped /\ q \in partners(p) /\ q \in ToSet(order[p])
  BY <1>6, TakesTyped
<1>8. /\ n \in Links /\ n.his = l.his /\ n.collides = l.collides
      /\ n.his_to_send = l.his_to_send /\ n.wants = l.wants /\ n.to_send = l.to_send
  <2>1. init \in SUBSET Handshake
    BY <1>3 DEF Links, Handshake
  <2> QED BY <1>4, <2>1 DEF Links
<1>9. Coherent(n, my[p])
  BY <1>1, <1>2, <1>8, SameCoherent
<1>10. /\ order[p] \in Orders(p) /\ order[p] \in Seq(Processes) /\ Partners(my[p], link[p], order[p])
       /\ master[p] \in ToSet(order[p]) \cup {Nobody}
  BY TypedFacts DEF partners
<1>11. Partners(my[p], lk, order[p]) /\ SameVariables(link[p], lk)
  BY <1>2, <1>5, <1>7, <1>8, <1>9, <1>10, OnePartner
<1>12. BoundsKept /\ filter' \in [Processes -> BOOLEAN]
  BY <1>6, BoundsStay, NothingElse
<1>13. CASE ~use_master_slave(p)
  <2>1. UNCHANGED <<my, seen, changes, order, master>>
    BY <1>6, <1>13
  <2> QED BY <1>6, <1>7, <1>11, <1>12, <2>1, OnlyLinks
<1>14. CASE use_master_slave(p)
  <2>1. PICK sq : sq = order[p]
    OBVIOUS
  <2>2. PICK m : m = chosen_master(p, lk, sq, master_name[p])
    OBVIOUS
  <2>3. PICK ch : ch = switch_master_variables(changes[p], his_of(lk, master[p]), his_of(lk, m))
    OBVIOUS
  <2>4. /\ master' = [master EXCEPT ![p] = m] /\ changes' = [changes EXCEPT ![p] = ch]
        /\ order' = [order EXCEPT ![p] = sq] /\ UNCHANGED <<my, seen>>
    BY <1>6, <1>14, <2>1, <2>2, <2>3, Same DEF msv_refresh_internal
  <2>5. m \in ToSet(sq) \cup {Nobody}
    <3>1. sq \in Seq(Processes) /\ master[p] \in ToSet(sq) \cup {Nobody}
      BY <1>10, <2>1
    <3> QED BY <2>2, <3>1, ChosenMaster
  <2>6. his_of(lk, master[p]) = his_of(link[p], master[p])
    <3>1. master[p] # Nobody => master[p] \in Processes
      BY <1>10 DEF ToSet
    <3> QED BY <1>11, <3>1 DEF his_of, SameVariables
  <2>7. (\A x \in Processes : ~link[p][x].collides) => \A x \in Processes : ~lk[x].collides
    BY <1>11 DEF SameVariables
  <2>8. Switched(p, lk, sq, m, ch)
    BY <1>10, <1>11, <2>1, <2>3, <2>5, <2>6, <2>7 DEF Switched
  <2>9. p \in plan.use_master_slave
    BY <1>14 DEF use_master_slave
  <2> QED BY <1>6, <1>7, <1>12, <2>4, <2>8, <2>9, SwitchedHolds
<1> QED BY <1>13, <1>14

----------------------------------------------------------------------------
(* Steps that define or remove a partner's variable *)

LEMMA ProcessDEFStep ==
  ASSUME Inv, NEW p \in Processes, NEW q \in Processes \ {p}, ProcessDEF(p, q)
  PROVE  Inv'
<1>1. PICK m : m = next_message(p, q)
  OBVIOUS
<1>2. takes(p, q, "DEF") /\ UNCHANGED <<my, filter, order, seen, master, bounds>>
  BY DEF ProcessDEF, mastering
<1>3. /\ ChannelsTyped /\ m \in Messages /\ m.what = "DEF" /\ q \in partners(p) /\ q \in ToSet(order[p])
  BY <1>1, <1>2, TakesTyped
<1>4. m.id \in Int /\ m.value \in Defined
  BY <1>3, PartFacts
<1>5. PICK v \in Defined : v = m.value
  BY <1>4
<1>6. v \in Variable /\ v # Undefined
  BY DefinedFacts
<1>7. PICK col \in BOOLEAN : col = doesPartnerVariableCollide(p, q)
  BY DEF doesPartnerVariableCollide
<1>8. link[p][q] \in Links /\ Coherent(link[p][q], my[p])
  BY LinkFacts
<1>9. PICK l \in Links : l = link[p][q]
  BY <1>8
<1>10. PICK cl \in BOOLEAN : cl = (l.collides \/ doesPartnerVariableCollide(p, q))
  OBVIOUS
<1>101. PICK n : n = [l EXCEPT !.his = v, !.his_id = m.id, !.his_to_send = Nothing, !.collides = cl]
  OBVIOUS
<1>11. PICK lk : lk = [link[p] EXCEPT ![q] = n]
  OBVIOUS
<1>12. PICK told \in BOOLEAN : told = (~col /\ (use_master_slave(p) => master[p] = q))
  OBVIOUS
<1>13. PICK ch : ch = IF told THEN add_foreign_updates(changes[p], v, DOMAIN v, TRUE) ELSE changes[p]
  OBVIOUS
<1>14. link' = [link EXCEPT ![p] = lk] /\ changes' = [changes EXCEPT ![p] = ch]
  <2>1. link' = [link EXCEPT ![p] = lk]
    <3>1. PICK k : k = [l EXCEPT !.his = v, !.his_id = m.id, !.his_to_send = Nothing]
      OBVIOUS
    <3>2. k.collides = l.collides
      BY <3>1 DEF Links
    <3>3. link' = [link EXCEPT ![p] = [link[p] EXCEPT ![q] =
                    [k EXCEPT !.collides = k.collides \/ doesPartnerVariableCollide(p, q)]]]
      BY <1>1, <1>5, <1>9, <3>1 DEF ProcessDEF
    <3>4. [k EXCEPT !.collides = k.collides \/ doesPartnerVariableCollide(p, q)] = n
      <4>1. (k.collides \/ doesPartnerVariableCollide(p, q)) = cl
        BY <1>10, <3>2
      <4>2. n = [k EXCEPT !.collides = cl]
        BY <1>101, <3>1
      <4> QED BY <4>1, <4>2
    <3> QED BY <1>11, <3>3, <3>4
  <2>2. changes' = [changes EXCEPT ![p] = ch]
    BY <1>1, <1>5, <1>7, <1>12, <1>13, Same DEF ProcessDEF
  <2> QED BY <2>1, <2>2
<1>15. /\ n \in Links /\ n.his = v /\ n.collides = (l.collides \/ col) /\ n.his_to_send = Nothing
       /\ n.wants = l.wants /\ n.to_send = l.to_send
  <2>1. Nothing \in Queued
    BY DEF Nothing, Queued, Variable
  <2>2. n.collides = cl /\ (cl <=> l.collides \/ col) /\ l.collides \in BOOLEAN
    BY <1>7, <1>10, <1>101 DEF Links
  <2> QED BY <1>4, <1>6, <1>101, <2>1, <2>2 DEF Links
<1>16. Coherent(n, my[p])
  <2>1. Nothing.fields = {}
    BY DEF Nothing
  <2> QED BY <1>6, <1>8, <1>9, <1>15, <2>1 DEF Coherent
<1>17. /\ my[p] \in Variable /\ seen[p] \in Variable /\ changes[p] \in ChangeSet
       /\ order[p] \in Orders(p) /\ order[p] \in Seq(Processes)
       /\ Partners(my[p], link[p], order[p]) /\ link[p] \in [Processes -> Links]
       /\ ToSet(order[p]) \subseteq Processes
       /\ master[p] \in ToSet(order[p]) \cup {Nobody}
  BY TypedFacts DEF partners
<1>18. Partners(my[p], lk, order[p]) /\ \A x \in Processes : lk[x] = IF x = q THEN n ELSE link[p][x]
  BY <1>3, <1>11, <1>15, <1>16, <1>17, OnePartner
<1>19. ch \in ChangeSet /\ (told => apply_var_changes(seen[p], ch) = v)
  <2>1. /\ add_foreign_updates(changes[p], v, DOMAIN v, TRUE) \in ChangeSet
        /\ apply_var_changes(seen[p], add_foreign_updates(changes[p], v, DOMAIN v, TRUE)) = v
    BY <1>6, TellsCreated
  <2> QED BY <1>13, <1>17, <2>1
<1>20. PICK old : old = apply_var_changes(seen[p], changes[p])
  OBVIOUS
<1>21. PICK view : view = apply_var_changes(seen[p], ch)
  OBVIOUS
<1>22. (told => view = v) /\ (~told => view = old)
  BY <1>13, <1>19, <1>20, <1>21
<1>23. Counts(plan, p, my[p], old, link[p], order[p], master[p])
  BY <1>20 DEF Inv, Held
<1>24. Counts(plan, p, my[p], view, lk, order[p], master[p])
  <2>1. CASE p \notin plan.use_master_slave
    <3>1. OneCounts(my[p], old, link[p], order[p]) /\ master[p] = Nobody
      BY <1>23, <2>1 DEF Counts
    <3>2. /\ col <=> my[p] # Undefined \/ Owning(link[p], order[p]) \ {q} # {}
          /\ told <=> ~col
      <4>1. owners(p, link[p], order[p], master[p]) = Owning(link[p], order[p])
        BY <2>1, NoMasterCounts
      <4> QED BY <1>7, <1>12, <2>1, <4>1 DEF doesPartnerVariableCollide, use_master_slave
    <3>3. Owning(lk, order[p]) = (Owning(link[p], order[p]) \ {q})
                                 \cup (IF n.collides THEN {} ELSE {q})
      BY <1>3, <1>6, <1>15, <1>17, <1>18 DEF Owning, Counted
    <3>4. CASE my[p] # Undefined
      <4>1. col /\ ~told /\ n.collides
        BY <1>15, <3>2, <3>4
      <4> QED BY <1>22, <2>1, <3>1, <3>3, <3>4, <4>1 DEF Counts, OneCounts
    <3>5. CASE my[p] = Undefined /\ Owning(link[p], order[p]) \ {q} # {}
      <4>1. col /\ ~told /\ n.collides
        BY <1>15, <3>2, <3>5
      <4>2. PICK o \in ToSet(order[p]) : Owning(link[p], order[p]) = {o} /\ old = link[p][o].his
        BY <3>1, <3>5 DEF OneCounts, Owning
      <4>3. o # q /\ lk[o] = link[p][o]
        BY <1>17, <1>18, <3>5, <4>2
      <4>4. OneCounts(my[p], view, lk, order[p])
        BY <1>22, <3>3, <3>5, <4>1, <4>2, <4>3 DEF OneCounts
      <4> QED BY <2>1, <3>1, <4>4 DEF Counts
    <3>6. CASE my[p] = Undefined /\ Owning(link[p], order[p]) \ {q} = {}
      <4>1. ~col /\ told
        BY <3>2, <3>6
      <4>2. ~l.collides
        <5>1. CASE Counted(link[p], order[p]) = {}
          <6>1. l.his = Undefined
            BY <1>3, <1>9, <5>1 DEF Counted
          <6> QED BY <1>8, <1>9, <6>1 DEF Coherent
        <5>2. CASE Counted(link[p], order[p]) # {}
          <6>1. q \in Owning(link[p], order[p])
            BY <3>1, <3>6, <5>2 DEF OneCounts
          <6> QED BY <1>9, <6>1 DEF Owning
        <5> QED BY <5>1, <5>2
      <4>3. Owning(lk, order[p]) = {q}
        BY <1>15, <3>3, <3>6, <4>1, <4>2
      <4>4. OneCounts(my[p], view, lk, order[p])
        BY <1>3, <1>15, <1>17, <1>18, <1>22, <3>6, <4>1, <4>3 DEF OneCounts
      <4> QED BY <2>1, <3>1, <4>4 DEF Counts
    <3> QED BY <3>4, <3>5, <3>6
  <2>2. CASE p \in plan.use_master_slave
    <3>1. ASSUME DefinesNothing(plan, p) PROVE MasterCounts(my[p], view, lk, master[p])
      <4>1. MasterCounts(my[p], old, link[p], master[p])
        BY <1>23, <2>2, <3>1 DEF Counts
      <4>2. ~col /\ (told <=> master[p] = q)
        BY <1>7, <1>12, <2>2, <4>1 DEF MasterCounts, doesPartnerVariableCollide, use_master_slave
      <4>3. \A x \in Processes : ~lk[x].collides
        BY <1>9, <1>15, <1>18, <4>1, <4>2 DEF MasterCounts
      <4>4. view = his_of(lk, master[p])
        <5>1. q # Nobody /\ (master[p] # Nobody => master[p] \in Processes)
          BY <1>17, VariablesAssumption
        <5>2. CASE master[p] = q
          BY <1>15, <1>18, <1>22, <4>2, <5>1, <5>2 DEF his_of
        <5>3. CASE master[p] # q
          BY <1>18, <1>22, <4>1, <4>2, <5>1, <5>3 DEF MasterCounts, his_of
        <5> QED BY <5>2, <5>3
      <4> QED BY <4>1, <4>3, <4>4 DEF MasterCounts
    <3> QED BY <1>17, <2>2, <3>1 DEF Counts
  <2> QED BY <2>1, <2>2
<1>25. PICK mn, sn, sq, ms : mn = my[p] /\ sn = seen[p] /\ sq = order[p] /\ ms = master[p]
  OBVIOUS
<1>26. /\ my' = [my EXCEPT ![p] = mn] /\ seen' = [seen EXCEPT ![p] = sn]
       /\ order' = [order EXCEPT ![p] = sq] /\ master' = [master EXCEPT ![p] = ms]
  BY <1>2, <1>25, Same
<1>27. BoundsKept /\ filter' \in [Processes -> BOOLEAN]
  BY <1>2, BoundsStay, NothingElse
<1>28. Stepped(p, mn, sn, ch, lk, sq, ms)
  BY <1>3, <1>14, <1>17, <1>18, <1>19, <1>21, <1>24, <1>25, <1>26, <1>27 DEF Stepped
<1> QED BY <1>28, OneProcess

(* A partner's variable is no more, and he may be no partner any more. *)
Without(p, q, lk, seq) ==
  /\ seq \in Orders(p) /\ Partners(my[p], lk, seq)
  /\ ToSet(order[p]) \ {q} \subseteq ToSet(seq) /\ ToSet(seq) \subseteq ToSet(order[p])
  /\ lk[q].his = Undefined /\ ~lk[q].collides
  /\ \A x \in Processes \ {q} : lk[x].his = link[p][x].his /\ lk[x].collides = link[p][x].collides

LEMMA WithoutFacts ==
  ASSUME Inv, NEW p \in Processes, NEW q \in partners(p), NEW lk, NEW seq, Without(p, q, lk, seq)
  PROVE  /\ Counted(lk, seq) = Counted(link[p], order[p]) \ {q}
         /\ Owning(lk, seq) = Owning(link[p], order[p]) \ {q}
<1>1. ToSet(order[p]) \subseteq Processes
  BY TypedFacts DEF partners
<1>2. Counted(lk, seq) = Counted(link[p], order[p]) \ {q}
  BY <1>1 DEF Without, Counted
<1> QED BY <1>1, <1>2 DEF Without, Owning, Counted

LEMMA WithoutCounts ==
  ASSUME Inv, NEW p \in Processes, p \notin plan.use_master_slave, NEW q \in partners(p),
         link[p][q].his # Undefined, NEW lk, NEW seq, Without(p, q, lk, seq), NEW m, NEW c, NEW t,
         c = IF link[p][q].collides THEN changes[p] ELSE deleted,
         t = tryDefineSomeCollidingVariable(p, my[p], lk, seq, m, c)
  PROVE  /\ t.changes \in ChangeSet /\ Partners(my[p], t.links, seq)
         /\ OneCounts(my[p], apply_var_changes(seen[p], t.changes), t.links, seq)
<1>1. /\ seq \in Seq(Processes) /\ Partners(my[p], lk, seq)
      /\ changes[p] \in ChangeSet /\ ToSet(order[p]) \subseteq Processes /\ q \in ToSet(order[p])
  BY TypedFacts DEF Without, Orders, partners
<1>2. /\ Counted(lk, seq) = Counted(link[p], order[p]) \ {q}
      /\ Owning(lk, seq) = Owning(link[p], order[p]) \ {q}
  BY WithoutFacts
<1>3. c \in ChangeSet
  <2>1. deleted \in ChangeSet
    BY DEF deleted, ChangeSet, Kinds, Variable
  <2> QED BY <1>1, <2>1
<1>4. t.changes \in ChangeSet /\ Partners(my[p], t.links, seq)
  BY <1>1, <1>3, TryType
<1>5. PICK old : old = apply_var_changes(seen[p], changes[p])
  OBVIOUS
<1>6. OneCounts(my[p], old, link[p], order[p])
  BY <1>5 DEF Inv, Held, Counts
<1>7. q \in Counted(link[p], order[p])
  BY <1>1 DEF Counted
<1>8. CASE my[p] # Undefined
  <2>1. Owning(link[p], order[p]) = {} /\ old = my[p]
    BY <1>6, <1>8 DEF OneCounts
  <2>2. link[p][q].collides
    BY <1>7, <2>1 DEF Owning
  <2>3. t = [links |-> lk, changes |-> changes[p]]
    BY <1>8, <2>2, TryKeeps
  <2>4. t.links = lk /\ t.changes = changes[p]
    BY <2>3
  <2>5. OneCounts(my[p], old, lk, seq)
    BY <1>2, <1>8, <2>1 DEF OneCounts
  <2> QED BY <1>4, <1>5, <2>4, <2>5
<1>9. CASE my[p] = Undefined /\ link[p][q].collides
  <2>1. PICK o \in ToSet(order[p]) : Owning(link[p], order[p]) = {o} /\ old = link[p][o].his
    BY <1>6, <1>7, <1>9 DEF OneCounts
  <2>2. o \in Processes \ {q} /\ o \in ToSet(seq)
    BY <1>1, <1>9, <2>1 DEF Owning, Without
  <2>3. Owning(lk, seq) = {o} /\ old = lk[o].his
    BY <1>2, <2>1, <2>2 DEF Without
  <2>4. t = [links |-> lk, changes |-> changes[p]]
    BY <1>9, <2>3, TryKeeps
  <2>5. t.links = lk /\ t.changes = changes[p]
    BY <2>4
  <2>6. OneCounts(my[p], old, lk, seq)
    BY <1>9, <2>2, <2>3 DEF OneCounts
  <2> QED BY <1>4, <1>5, <2>5, <2>6
<1>10. CASE my[p] = Undefined /\ ~link[p][q].collides
  <2>1. q \in Owning(link[p], order[p])
    BY <1>7, <1>10 DEF Owning
  <2>2. Owning(lk, seq) = {}
    BY <1>2, <1>6, <1>7, <1>10, <2>1 DEF OneCounts
  <2>3. c = deleted /\ apply_var_changes(seen[p], c) = Undefined
    BY <1>10, NoneWaits
  <2>4. Partners(Undefined, lk, seq) /\ t = tryDefineSomeCollidingVariable(p, Undefined, lk, seq, m, c)
    BY <1>1, <1>10
  <2>5. OneCounts(Undefined, apply_var_changes(seen[p], t.changes), t.links, seq)
    BY <1>1, <1>3, <2>2, <2>3, <2>4, TryFinds
  <2> QED BY <1>4, <1>10, <2>5
<1> QED BY <1>8, <1>9, <1>10

LEMMA ProcessUNDEFStep ==
  ASSUME Inv, NEW p \in Processes, NEW q \in Processes \ {p}, ProcessUNDEF(p, q)
  PROVE  Inv'
<1>1. PICK m : m = next_message(p, q)
  OBVIOUS
<1>2. takes(p, q, "UNDEF") /\ UNCHANGED <<my, filter, order, seen, master, bounds>>
  BY DEF ProcessUNDEF, mastering
<1>3. ChannelsTyped /\ m \in Messages /\ q \in partners(p) /\ q \in ToSet(order[p])
  BY <1>1, <1>2, TakesTyped
<1>4. m.id \in Int
  BY <1>3, PartFacts
<1>5. link[p][q] \in Links /\ Coherent(link[p][q], my[p])
  BY LinkFacts
<1>6. PICK l \in Links : l = link[p][q]
  BY <1>5
<1>7. BoundsKept /\ filter' \in [Processes -> BOOLEAN]
  BY <1>2, BoundsStay, NothingElse
<1>8. Nothing \in Queued /\ Nothing.fields = {} /\ Undefined \in Variable
  BY DEF Nothing, Queued, Variable
<1>9. CASE l.his = Undefined
  <2>1. PICK n : n = [l EXCEPT !.his_id = m.id, !.his_to_send = Nothing]
    OBVIOUS
  <2>2. link' = [link EXCEPT ![p] = [link[p] EXCEPT ![q] = n]] /\ UNCHANGED changes
    BY <1>1, <1>6, <1>9, <2>1 DEF ProcessUNDEF
  <2>3. /\ n \in Links /\ n.his = l.his /\ n.collides = l.collides /\ n.his_to_send = Nothing
        /\ n.wants = l.wants /\ n.to_send = l.to_send
    BY <1>4, <1>8, <2>1 DEF Links
  <2>4. Coherent(n, my[p])
    BY <1>5, <1>6, <1>8, <2>3 DEF Coherent
  <2>5. UNCHANGED <<my, seen, changes, order, master>>
    BY <1>2, <2>2
  <2> QED BY <1>3, <1>6, <1>7, <2>2, <2>3, <2>4, <2>5, OnlyLink
<1>10. CASE l.his # Undefined
  <2>1. PICK n : n = [l EXCEPT !.his = Undefined, !.his_id = m.id, !.his_to_send = Nothing,
                               !.collides = FALSE]
    OBVIOUS
  <2>2. PICK lk : lk = [link[p] EXCEPT ![q] = n]
    OBVIOUS
  <2>3. PICK c : c = IF told_of(p, q) THEN deleted ELSE changes[p]
    OBVIOUS
  <2>4. PICK sq : sq = order[p]
    OBVIOUS
  <2>5. PICK t : t = tryDefineSomeCollidingVariable(p, my[p], lk, sq, master[p], c)
    OBVIOUS
  <2>6. link' = [link EXCEPT ![p] = t.links] /\ changes' = [changes EXCEPT ![p] = t.changes]
    BY <1>1, <1>6, <1>10, <2>1, <2>2, <2>3, <2>4, <2>5 DEF ProcessUNDEF
  <2>7. /\ n \in Links /\ n.his = Undefined /\ n.collides = FALSE /\ n.his_to_send = Nothing
        /\ n.wants = l.wants /\ n.to_send = l.to_send
    BY <1>4, <1>8, <2>1 DEF Links
  <2>8. Coherent(n, my[p])
    BY <1>5, <1>6, <1>8, <2>7 DEF Coherent
  <2>9. /\ my[p] \in Variable /\ seen[p] \in Variable /\ changes[p] \in ChangeSet
        /\ sq \in Orders(p) /\ sq \in Seq(Processes)
        /\ Partners(my[p], link[p], sq) /\ link[p] \in [Processes -> Links]
        /\ master[p] \in ToSet(sq) \cup {Nobody} /\ q \in ToSet(sq)
        /\ p \notin plan.use_master_slave => master[p] = Nobody
    BY <1>3, <2>4, TypedFacts DEF partners
  <2>10. Partners(my[p], lk, sq) /\ \A x \in Processes : lk[x] = IF x = q THEN n ELSE link[p][x]
    BY <2>2, <2>7, <2>8, <2>9, OnePartner
  <2>11. Without(p, q, lk, sq)
    BY <2>4, <2>7, <2>9, <2>10 DEF Without
  <2>12. PICK ch, nl, sn, mn, ms : ch = t.changes /\ nl = t.links /\ sn = seen[p] /\ mn = my[p] /\ ms = master[p]
    OBVIOUS
  <2>13. /\ ch \in ChangeSet /\ Partners(mn, nl, sq)
         /\ Counts(plan, p, mn, apply_var_changes(sn, ch), nl, sq, ms)
    <3>1. CASE p \notin plan.use_master_slave
      <4>1. c = IF link[p][q].collides THEN changes[p] ELSE deleted
        BY <2>3, <3>1 DEF told_of, use_master_slave
      <4>2. link[p][q].his # Undefined
        BY <1>6, <1>10
      <4>3. /\ t.changes \in ChangeSet /\ Partners(my[p], t.links, sq)
            /\ OneCounts(my[p], apply_var_changes(seen[p], t.changes), t.links, sq)
        BY <1>3, <2>5, <2>11, <3>1, <4>1, <4>2, WithoutCounts
      <4> QED BY <2>9, <2>12, <3>1, <4>3 DEF Counts
    <3>2. CASE p \in plan.use_master_slave
      <4>1. c \in ChangeSet
        <5>1. deleted \in ChangeSet
          BY DEF deleted, ChangeSet, Kinds, Variable
        <5> QED BY <2>3, <2>9, <5>1
      <4>2. t.changes \in ChangeSet /\ Partners(my[p], t.links, sq)
        BY <2>5, <2>9, <2>10, <4>1, TryType
      <4>3. ASSUME DefinesNothing(plan, p)
            PROVE  MasterCounts(my[p], apply_var_changes(seen[p], ch), nl, master[p])
        <5>1. MasterCounts(my[p], apply_var_changes(seen[p], changes[p]), link[p], master[p])
          BY <3>2, <4>3 DEF Inv, Held, Counts
        <5>2. \A x \in Processes : ~lk[x].collides
          BY <2>7, <2>10, <5>1 DEF MasterCounts
        <5>3. t = [links |-> lk, changes |-> c]
          BY <2>5, <2>9, <3>2, <5>2, TryKeepsMaster
        <5>4. ch = c /\ nl = lk
          BY <2>12, <5>3
        <5>5. told_of(p, q) <=> master[p] = q
          BY <3>2, <5>1 DEF told_of, use_master_slave, MasterCounts
        <5>6. q # Nobody /\ (master[p] # Nobody => master[p] \in Processes)
          BY <2>9, VariablesAssumption DEF ToSet
        <5>7. CASE master[p] = q
          <6>1. apply_var_changes(seen[p], c) = Undefined
            BY <2>3, <5>5, <5>7, NoneWaits
          <6>2. his_of(lk, master[p]) = Undefined
            BY <2>7, <2>10, <5>7 DEF his_of
          <6> QED BY <5>1, <5>2, <5>4, <6>1, <6>2 DEF MasterCounts
        <5>8. CASE master[p] # q
          <6>1. c = changes[p]
            BY <2>3, <5>5, <5>8
          <6>2. his_of(lk, master[p]) = his_of(link[p], master[p])
            BY <2>10, <5>6, <5>8 DEF his_of
          <6> QED BY <5>1, <5>2, <5>4, <6>1, <6>2 DEF MasterCounts
        <5> QED BY <5>7, <5>8
      <4> QED BY <2>9, <2>12, <3>2, <4>2, <4>3 DEF Counts
    <3> QED BY <3>1, <3>2
  <2>14. /\ my' = [my EXCEPT ![p] = mn] /\ seen' = [seen EXCEPT ![p] = sn]
         /\ order' = [order EXCEPT ![p] = sq] /\ master' = [master EXCEPT ![p] = ms]
         /\ link' = [link EXCEPT ![p] = nl] /\ changes' = [changes EXCEPT ![p] = ch]
         /\ mn \in Variable /\ sn \in Variable
    BY <1>2, <2>4, <2>6, <2>9, <2>12, Same
  <2>15. Stepped(p, mn, sn, ch, nl, sq, ms)
    BY <1>3, <1>7, <2>9, <2>13, <2>14 DEF Stepped
  <2> QED BY <2>15, OneProcess
<1> QED BY <1>9, <1>10

----------------------------------------------------------------------------
(* Steps that begin and end a connection *)

LEMMA NewPartnerFacts ==
  /\ NewPartner \in Links /\ \A mine : Coherent(NewPartner, mine)
  /\ NewPartner.his = Undefined /\ ~NewPartner.collides
<1>1. NewPartner = [init |-> {}, his |-> Undefined, his_id |-> -1, his_to_send |-> Nothing,
                    collides |-> FALSE, wants |-> FALSE, told_filter |-> FALSE,
                    sent |-> {}, ids |-> NoIds, to_send |-> NoEvent]
  BY DEF NewPartner
<1>2. Nothing \in Queued /\ Nothing.fields = {} /\ Undefined \in Variable
  BY DEF Nothing, Queued, Variable
<1>3. NoIds \in Numbered
  <2>1. IsFiniteSet({}) /\ <<>> \in [{} -> Int]
    BY FS_EmptySet
  <2>2. <<>> \in UNION {[S -> Int] : S \in {T \in SUBSET Nat : IsFiniteSet(T)}}
    BY <2>1
  <2>3. -1 \in Int
    OBVIOUS
  <2> QED BY <2>2, <2>3 DEF NoIds, Numbered
<1>4. NoEvent \in Events /\ NoEvent.what = "none"
  BY <1>2 DEF NoEvent, Events
<1>5. NewPartner \in Links
  <2>1. -1 \in Int
    OBVIOUS
  <2> QED BY <1>1, <1>2, <1>3, <1>4, <2>1 DEF Links
<1>6. /\ NewPartner.his = Undefined /\ NewPartner.collides = FALSE
      /\ NewPartner.his_to_send = Nothing /\ NewPartner.to_send = NoEvent
  BY <1>1
<1>7. \A mine : Coherent(NewPartner, mine)
  BY <1>2, <1>4, <1>6 DEF Coherent
<1> QED BY <1>5, <1>6, <1>7

(* What is left of a partner who is gone. *)
Gone(p, q, gone, rest) ==
  /\ gone = [link[p] EXCEPT ![q] = NewPartner]
  /\ rest = RemoveAt(order[p], Min(places(order[p], {q})))

LEMMA GoneFacts ==
  ASSUME Inv, NEW p \in Processes, NEW q \in partners(p), NEW gone, NEW rest, Gone(p, q, gone, rest)
  PROVE  /\ Without(p, q, gone, rest) /\ ToSet(rest) = ToSet(order[p]) \ {q}
         /\ \A x \in Processes : gone[x] = IF x = q THEN NewPartner ELSE link[p][x]
<1> USE DEF Gone
<1>1. /\ order[p] \in Orders(p) /\ Partners(my[p], link[p], order[p])
      /\ link[p] \in [Processes -> Links] /\ q \in ToSet(order[p]) /\ q \in Processes
  BY TypedFacts DEF partners
<1>2. PICK seq \in Orders(p) : seq = order[p]
  BY <1>1
<1>3. rest \in Orders(p) /\ ToSet(rest) = ToSet(seq) \ {q}
  <2>1. /\ RemoveAt(seq, Min(places(seq, {q}))) \in Orders(p)
        /\ ToSet(RemoveAt(seq, Min(places(seq, {q})))) = ToSet(seq) \ {q}
    BY <1>1, <1>2, ErasedOrder
  <2> QED BY <1>2, <2>1
<1>4. \A x \in Processes : gone[x] = IF x = q THEN NewPartner ELSE link[p][x]
  BY <1>1
<1>5. gone \in [Processes -> Links]
  BY <1>1, NewPartnerFacts
<1>6. Partners(my[p], gone, rest)
  BY <1>1, <1>2, <1>3, <1>4, <1>5, NewPartnerFacts DEF Partners
<1>7. Without(p, q, gone, rest)
  BY <1>1, <1>2, <1>3, <1>4, <1>6, NewPartnerFacts DEF Without
<1> QED BY <1>2, <1>3, <1>4, <1>7

LEMMA erasePartnerStep ==
  ASSUME Inv, NEW p \in Processes, NEW q \in partners(p), erasePartner(p, q), BoundsKept
  PROVE  Inv'
<1>1. q \in Processes /\ q \in ToSet(order[p]) /\ q # Nobody
  BY TypedFacts, VariablesAssumption DEF partners
<1>2. PICK rest : rest = RemoveAt(order[p], Min(places(order[p], {q})))
  OBVIOUS
<1>3. PICK gone : gone = [link[p] EXCEPT ![q] = NewPartner]
  OBVIOUS
<1>4. /\ Without(p, q, gone, rest) /\ ToSet(rest) = ToSet(order[p]) \ {q}
      /\ \A x \in Processes : gone[x] = IF x = q THEN NewPartner ELSE link[p][x]
  <2>1. Gone(p, q, gone, rest)
    BY <1>2, <1>3 DEF Gone
  <2> QED BY <2>1, GoneFacts
<1>5. /\ order' = [order EXCEPT ![p] = rest] /\ UNCHANGED <<my, filter, seen, master_name>>
      /\ channel' = [channel EXCEPT ![q][p] = <<>>]
  BY <1>2 DEF erasePartner
<1>6. ChannelsTyped
  <2>1. channel \in [Processes -> [Processes -> Seq(Messages)]] /\ <<>> \in Seq(Messages)
    BY OneMessage DEF Inv, Typed
  <2>2. [channel EXCEPT ![q][p] = <<>>] \in [Processes -> [Processes -> Seq(Messages)]]
    BY <1>1, <2>1
  <2> QED BY <1>5, <2>2 DEF ChannelsTyped
<1>7. filter' \in [Processes -> BOOLEAN]
  BY <1>5, NothingElse
<1>8. /\ my[p] \in Variable /\ seen[p] \in Variable /\ changes[p] \in ChangeSet
      /\ link[p] \in [Processes -> Links] /\ rest \in Orders(p) /\ rest \in Seq(Processes)
      /\ Partners(my[p], gone, rest)
      /\ master[p] \in ToSet(order[p]) \cup {Nobody}
      /\ p \notin plan.use_master_slave => master[p] = Nobody
  BY <1>4, TypedFacts DEF partners, Without, Orders
<1>9. CASE p \in plan.use_master_slave
  <2>1. PICK m : m = IF master[p] = q THEN front_or_nobody(rest) ELSE master[p]
    OBVIOUS
  <2>2. PICK ch : ch = switch_master_variables(changes[p], his_of(link[p], master[p]), his_of(link[p], m))
    OBVIOUS
  <2>3. /\ master' = [master EXCEPT ![p] = m] /\ changes' = [changes EXCEPT ![p] = ch]
        /\ link' = [link EXCEPT ![p] = gone]
    BY <1>2, <1>3, <1>9, <2>1, <2>2 DEF erasePartner, use_master_slave
  <2>4. m \in ToSet(rest) \cup {Nobody}
    BY <1>4, <1>8, <2>1, FrontIsPartner
  <2>5. his_of(gone, m) = his_of(link[p], m)
    <3>1. m # Nobody => m \in Processes /\ m # q
      BY <1>4, <1>8, <2>4, SMTT(15) DEF ToSet
    <3> QED BY <1>4, <3>1 DEF his_of
  <2>6. (\A x \in Processes : ~link[p][x].collides) => \A x \in Processes : ~gone[x].collides
    BY <1>4, NewPartnerFacts
  <2>7. Switched(p, gone, rest, m, ch)
    BY <1>8, <2>2, <2>4, <2>5, <2>6 DEF Switched
  <2> QED BY <1>5, <1>6, <1>7, <1>9, <2>3, <2>7, SwitchedHolds
<1>10. CASE p \notin plan.use_master_slave
  <2>1. PICK c : c = IF link[p][q].collides THEN changes[p] ELSE deleted
    OBVIOUS
  <2>2. PICK t : t = IF link[p][q].his = Undefined THEN [links |-> gone, changes |-> changes[p]]
                     ELSE tryDefineSomeCollidingVariable(p, my[p], gone, rest, Nobody, c)
    OBVIOUS
  <2>3. PICK lk, ch : lk = t.links /\ ch = t.changes
    OBVIOUS
  <2>4. /\ link' = [link EXCEPT ![p] = lk] /\ changes' = [changes EXCEPT ![p] = ch]
        /\ UNCHANGED master
    BY <1>2, <1>3, <1>10, <2>1, <2>2, <2>3 DEF erasePartner, use_master_slave
  <2>5. /\ ch \in ChangeSet /\ Partners(my[p], lk, rest)
        /\ OneCounts(my[p], apply_var_changes(seen[p], ch), lk, rest)
    <3>1. CASE link[p][q].his # Undefined
      <4>1. t = tryDefineSomeCollidingVariable(p, my[p], gone, rest, Nobody, c)
        BY <2>2, <3>1
      <4> QED BY <1>4, <1>10, <2>1, <2>3, <3>1, <4>1, WithoutCounts
    <3>2. CASE link[p][q].his = Undefined
      <4>1. lk = gone /\ ch = changes[p]
        BY <2>2, <2>3, <3>2
      <4>2. PICK view : view = apply_var_changes(seen[p], changes[p])
        OBVIOUS
      <4>3. OneCounts(my[p], view, link[p], order[p])
        BY <1>10, <4>2 DEF Inv, Held, Counts
      <4>4. /\ Counted(gone, rest) = Counted(link[p], order[p])
            /\ Owning(gone, rest) = Owning(link[p], order[p])
        <5>1. q \notin Counted(link[p], order[p]) /\ q \notin Owning(link[p], order[p])
          BY <3>2 DEF Counted, Owning
        <5> QED BY <1>4, <5>1, WithoutFacts
      <4>5. \A o \in Owning(link[p], order[p]) : o \in ToSet(rest) /\ gone[o] = link[p][o]
        <5>1. \A o \in Owning(link[p], order[p]) : o \in ToSet(order[p]) /\ o # q /\ o \in Processes
          <6>1. ToSet(order[p]) \subseteq Processes
            BY TypedFacts DEF partners
          <6> QED BY <3>2, <6>1 DEF Owning, Counted
        <5> QED BY <1>4, <5>1
      <4>6. OneCounts(my[p], view, gone, rest)
        BY <4>3, <4>4, <4>5 DEF OneCounts
      <4> QED BY <1>8, <4>1, <4>2, <4>6
    <3> QED BY <3>1, <3>2
  <2>6. PICK mn, sn, ms : mn = my[p] /\ sn = seen[p] /\ ms = master[p]
    OBVIOUS
  <2>7. /\ my' = [my EXCEPT ![p] = mn] /\ seen' = [seen EXCEPT ![p] = sn]
        /\ master' = [master EXCEPT ![p] = ms]
    BY <1>5, <2>4, <2>6, Same
  <2>8. Counts(plan, p, mn, apply_var_changes(sn, ch), lk, rest, ms)
    BY <1>8, <1>10, <2>5, <2>6 DEF Counts
  <2>9. Stepped(p, mn, sn, ch, lk, rest, ms)
    BY <1>5, <1>6, <1>7, <1>8, <2>4, <2>5, <2>6, <2>7, <2>8 DEF Stepped
  <2> QED BY <2>9, OneProcess
<1> QED BY <1>9, <1>10

(* One side of a new connection. *)
Joins(x, y, lk, sq, m, ch) ==
  /\ lk = [link[x] EXCEPT ![y] = NewPartner] /\ sq = Append(order[x], y)
  /\ m = IF use_master_slave(x) THEN chosen_master(x, lk, sq, master_name[x]) ELSE master[x]
  /\ ch = switch_master_variables(changes[x], his_of(lk, master[x]), his_of(lk, m))

SideHolds(x, lk, sq, m, ch) ==
  /\ sq \in Orders(x) /\ Partners(my[x], lk, sq) /\ ch \in ChangeSet
  /\ m \in Processes \cup {Nobody}
  /\ Counts(plan, x, my[x], apply_var_changes(seen[x], ch), lk, sq, m)

LEMMA SideJoins ==
  ASSUME Inv, NEW x \in Processes, NEW y \in Processes \ {x}, y \notin partners(x),
         NEW lk, NEW sq, NEW m, NEW ch, Joins(x, y, lk, sq, m, ch)
  PROVE  SideHolds(x, lk, sq, m, ch)
<1> USE DEF Joins
<1>1. /\ order[x] \in Orders(x) /\ order[x] \in Seq(Processes) /\ Partners(my[x], link[x], order[x])
      /\ link[x] \in [Processes -> Links] /\ y \notin ToSet(order[x]) /\ changes[x] \in ChangeSet
      /\ master[x] \in ToSet(order[x]) \cup {Nobody} /\ ToSet(order[x]) \subseteq Processes
      /\ x \notin plan.use_master_slave => master[x] = Nobody
  BY TypedFacts DEF partners
<1>2. PICK seq \in Orders(x) : seq = order[x]
  BY <1>1
<1>3. sq \in Orders(x) /\ ToSet(sq) = ToSet(seq) \cup {y}
  <2>1. Append(seq, y) \in Orders(x) /\ ToSet(Append(seq, y)) = ToSet(seq) \cup {y}
    BY <1>1, <1>2, AppendedOrder
  <2> QED BY <1>2, <2>1
<1>4. sq \in Seq(Processes)
  BY <1>3 DEF Orders
<1>5. link[x][y] = NewPartner
  BY <1>1 DEF Partners
<1>6. lk = link[x]
  BY <1>1, <1>5
<1>7. Partners(my[x], lk, sq)
  BY <1>1, <1>2, <1>3, <1>6 DEF Partners
<1>8. m \in ToSet(sq) \cup {Nobody}
  <2>1. master[x] \in ToSet(sq) \cup {Nobody}
    BY <1>1, <1>2, <1>3
  <2> QED BY <1>4, <2>1, ChosenMaster
<1>9. m \in Processes \cup {Nobody}
  BY <1>1, <1>2, <1>3, <1>8
<1>10. CASE x \in plan.use_master_slave
  <2>1. Switched(x, lk, sq, m, ch)
    BY <1>3, <1>6, <1>7, <1>8 DEF Switched
  <2> QED BY <1>3, <1>7, <1>9, <1>10, <2>1, MasterSwitched DEF SideHolds
<1>11. CASE x \notin plan.use_master_slave
  <2>1. m = Nobody /\ ch = changes[x]
    BY <1>1, <1>11 DEF use_master_slave, switch_master_variables
  <2>2. PICK view : view = apply_var_changes(seen[x], changes[x])
    OBVIOUS
  <2>3. OneCounts(my[x], view, link[x], order[x])
    BY <1>11, <2>2 DEF Inv, Held, Counts
  <2>4. Counted(lk, sq) = Counted(link[x], order[x])
    BY <1>2, <1>3, <1>5, <1>6, NewPartnerFacts DEF Counted
  <2>5. Owning(lk, sq) = Owning(link[x], order[x])
    BY <2>4, <1>6 DEF Owning
  <2>6. OneCounts(my[x], view, lk, sq)
    BY <1>2, <1>3, <1>6, <2>3, <2>4, <2>5 DEF OneCounts
  <2>7. Counts(plan, x, my[x], view, lk, sq, m)
    BY <1>11, <2>1, <2>6 DEF Counts
  <2> QED BY <1>1, <1>3, <1>7, <1>9, <2>1, <2>2, <2>7 DEF SideHolds
<1> QED BY <1>10, <1>11

LEMMA ConnectStep ==
  ASSUME Inv, NEW p \in Processes, NEW q \in Processes \ {p}, Connect(p, q)
  PROVE  Inv'
<1>1. PICK lp, lq, sp, sq : /\ lp = [link[p] EXCEPT ![q] = NewPartner] /\ sp = Append(order[p], q)
                            /\ lq = [link[q] EXCEPT ![p] = NewPartner] /\ sq = Append(order[q], p)
  OBVIOUS
<1>2. PICK mp : mp = IF use_master_slave(p) THEN chosen_master(p, lp, sp, master_name[p]) ELSE master[p]
  OBVIOUS
<1>3. PICK mq : mq = IF use_master_slave(q) THEN chosen_master(q, lq, sq, master_name[q]) ELSE master[q]
  OBVIOUS
<1>4. PICK cp, cq : /\ cp = switch_master_variables(changes[p], his_of(lp, master[p]), his_of(lp, mp))
                    /\ cq = switch_master_variables(changes[q], his_of(lq, master[q]), his_of(lq, mq))
  OBVIOUS
<1>5. Joins(p, q, lp, sp, mp, cp) /\ Joins(q, p, lq, sq, mq, cq)
  BY <1>1, <1>2, <1>3, <1>4 DEF Joins
<1>6. /\ q \notin partners(p) /\ p \notin partners(q)
      /\ does(p, "connect")
      /\ UNCHANGED <<my, filter, seen, master_name>>
  BY DEF Connect
<1>7. /\ order' = [order EXCEPT ![p] = sp, ![q] = sq]
      /\ link' = [link EXCEPT ![p] = lp, ![q] = lq]
      /\ master' = [master EXCEPT ![p] = mp, ![q] = mq]
  <2>1. /\ my \in [Processes -> Variable] /\ order \in [Processes -> Seq(Processes)]
        /\ link \in [Processes -> [Processes -> Links]]
        /\ master \in [Processes -> Processes \cup {Nobody}]
    BY DEF Inv, Typed
  <2>2. order' = [order EXCEPT ![p] = sp, ![q] = sq]
    BY <1>1, <2>1 DEF Connect
  <2>3. link' = [link EXCEPT ![p] = lp, ![q] = lq]
    BY <1>1, <2>1 DEF Connect
  <2>4. master' = [master EXCEPT ![p] = mp, ![q] = mq]
    BY <1>1, <1>2, <1>3 DEF Connect
  <2> QED BY <2>2, <2>3, <2>4
<1>8. changes' = [changes EXCEPT ![p] = cp, ![q] = cq]
  <2>1. changes \in [Processes -> ChangeSet]
    BY DEF Inv, Typed
  <2> QED BY <1>1, <1>2, <1>3, <1>4, <2>1 DEF Connect
<1>9. ChannelsTyped
  <2>1. channel \in [Processes -> [Processes -> Seq(Messages)]] /\ <<>> \in Seq(Messages)
    BY OneMessage DEF Inv, Typed
  <2>2. channel' = [channel EXCEPT ![p][q] = <<>>, ![q][p] = <<>>]
    BY DEF Connect
  <2> QED BY <2>1, <2>2 DEF ChannelsTyped
<1>10. BoundsKept
  BY <1>6, BoundsStay
<1>11. SideHolds(p, lp, sp, mp, cp) /\ SideHolds(q, lq, sq, mq, cq)
  BY <1>5, <1>6, SideJoins
<1>12. Typed
  BY DEF Inv
<1>13. /\ lp \in [Processes -> Links] /\ lq \in [Processes -> Links]
       /\ sp \in Seq(Processes) /\ sq \in Seq(Processes)
  BY <1>11 DEF SideHolds, Partners, Orders
<1>14. Typed'
  <2>1. order' \in [Processes -> Seq(Processes)] /\ link' \in [Processes -> [Processes -> Links]]
    BY <1>7, <1>12, <1>13 DEF Typed
  <2>2. master' \in [Processes -> Processes \cup {Nobody}] /\ changes' \in [Processes -> ChangeSet]
    BY <1>7, <1>8, <1>11, <1>12 DEF Typed, SideHolds
  <2> QED BY <1>6, <1>9, <1>10, <1>12, <2>1, <2>2 DEF Typed, ChannelsTyped, BoundsKept
<1>15. ASSUME NEW x \in Processes PROVE Held(x)'
  <2>1. my'[x] = my[x] /\ seen'[x] = seen[x] /\ plan' = plan
    BY <1>6, <1>10 DEF BoundsKept
  <2>2. CASE x = p
    <3>1. link'[x] = lp /\ order'[x] = sp /\ master'[x] = mp /\ changes'[x] = cp
      BY <1>7, <1>8, <1>12, <2>2 DEF Typed
    <3> QED BY <1>11, <2>1, <2>2, <3>1 DEF SideHolds, Held
  <2>3. CASE x = q
    <3>1. link'[x] = lq /\ order'[x] = sq /\ master'[x] = mq /\ changes'[x] = cq
      BY <1>7, <1>8, <1>12, <2>3 DEF Typed
    <3> QED BY <1>11, <2>1, <2>3, <3>1 DEF SideHolds, Held
  <2>4. CASE x # p /\ x # q
    <3>1. /\ link'[x] = link[x] /\ order'[x] = order[x] /\ master'[x] = master[x]
          /\ changes'[x] = changes[x]
      BY <1>7, <1>8, <1>12, <2>4 DEF Typed
    <3>2. Held(x)
      BY DEF Inv
    <3> QED BY <2>1, <3>1, <3>2 DEF Held
  <2> QED BY <2>2, <2>3, <2>4
<1> QED BY <1>14, <1>15 DEF Inv

----------------------------------------------------------------------------
(* What counts is what GetVariable gives *)

LEMMA FirstOwner ==
  ASSUME NEW p \in Processes, order[p] \in Seq(Processes), my[p] = Undefined,
         NEW visible, visible = owners(p, link[p], order[p], master[p]), visible # {}
  PROVE  \E o \in visible : GetVariable(p) = link[p][o].his
<1>1. visible \subseteq ToSet(order[p])
  BY DEF owners, counted
<1>2. PICK o : o = order[p][Min(places(order[p], visible))]
  OBVIOUS
<1>3. o \in visible
  <2>1. PICK seq \in Seq(Processes) : seq = order[p]
    OBVIOUS
  <2>2. seq[Min(places(seq, visible))] \in visible
    BY <1>1, <2>1, FirstPlace
  <2> QED BY <1>2, <2>1, <2>2
<1>4. GetVariable(p) = link[p][o].his
  BY <1>2 DEF GetVariable
<1> QED BY <1>3, <1>4

LEMMA NoOwner ==
  ASSUME NEW p \in Processes
  PROVE  /\ my[p] # Undefined => GetVariable(p) = my[p]
         /\ my[p] = Undefined /\ owners(p, link[p], order[p], master[p]) = {} =>
              GetVariable(p) = Undefined
BY DEF GetVariable

LEMMA VariableType ==
  ASSUME NEW p \in Processes, order[p] \in Seq(Processes), my[p] \in Variable,
         link[p] \in [Processes -> Links]
  PROVE  GetVariable(p) \in Variable
<1>1. PICK visible : visible = owners(p, link[p], order[p], master[p])
  OBVIOUS
<1>2. CASE my[p] = Undefined /\ visible # {}
  <2>1. PICK o \in visible : GetVariable(p) = link[p][o].his
    BY <1>1, <1>2, FirstOwner
  <2>2. o \in Processes
    BY <1>1 DEF owners, counted, ToSet
  <2> QED BY <2>1, <2>2 DEF Links
<1>3. CASE my[p] # Undefined \/ visible = {}
  BY <1>1, <1>3, NoOwner DEF Variable
<1> QED BY <1>2, <1>3

LEMMA ViewIsVariable ==
  ASSUME NEW p \in Processes, order[p] \in Seq(Processes), NEW view,
         Counts(plan, p, my[p], view, link[p], order[p], master[p]),
         p \in plan.use_master_slave => DefinesNothing(plan, p)
  PROVE  view = GetVariable(p)
<1>1. PICK visible : visible = owners(p, link[p], order[p], master[p])
  OBVIOUS
<1>2. CASE p \notin plan.use_master_slave
  <2>1. visible = Owning(link[p], order[p])
    BY <1>1, <1>2, NoMasterCounts
  <2>2. OneCounts(my[p], view, link[p], order[p])
    BY <1>2 DEF Counts
  <2>3. CASE my[p] # Undefined
    BY <2>2, <2>3, NoOwner DEF OneCounts
  <2>4. CASE my[p] = Undefined /\ Counted(link[p], order[p]) = {} /\ view = Undefined
    BY <1>1, <2>1, <2>4, NoOwner DEF Owning
  <2>5. CASE my[p] = Undefined /\ \E q \in ToSet(order[p]) :
               Owning(link[p], order[p]) = {q} /\ view = link[p][q].his
    <3>1. PICK q : visible = {q} /\ view = link[p][q].his
      BY <2>1, <2>5
    <3>2. PICK o \in visible : GetVariable(p) = link[p][o].his
      BY <1>1, <2>5, <3>1, FirstOwner
    <3> QED BY <3>1, <3>2
  <2> QED BY <2>2, <2>3, <2>4, <2>5 DEF OneCounts
<1>3. CASE p \in plan.use_master_slave
  <2>1. /\ MasterCounts(my[p], view, link[p], master[p])
        /\ master[p] \in ToSet(order[p]) \cup {Nobody}
    BY <1>3 DEF Counts
  <2>2. ToSet(order[p]) \subseteq Processes
    BY DEF ToSet
  <2>3. visible = {q \in ToSet(order[p]) : link[p][q].his # Undefined /\ q = master[p]}
    BY <1>1, <1>3, <2>1, <2>2 DEF owners, counted, use_master_slave, MasterCounts
  <2>4. CASE visible = {}
    <3>1. his_of(link[p], master[p]) = Undefined
      BY <2>1, <2>3, <2>4 DEF his_of
    <3> QED BY <1>1, <2>1, <2>4, <3>1, NoOwner DEF MasterCounts
  <2>5. CASE visible # {}
    <3>1. PICK o \in visible : GetVariable(p) = link[p][o].his
      BY <1>1, <2>1, <2>5, FirstOwner DEF MasterCounts
    <3>2. o = master[p] /\ o # Nobody
      BY <2>2, <2>3, <3>1, VariablesAssumption
    <3> QED BY <2>1, <3>1, <3>2 DEF MasterCounts, his_of
  <2> QED BY <2>4, <2>5
<1> QED BY <1>2, <1>3

----------------------------------------------------------------------------
(* The start *)

LEMMA SettledFacts ==
  ASSUME Init, NEW p \in Processes, NEW q \in Processes
  PROVE  /\ settled(p, q) \in Links /\ \A mine : Coherent(settled(p, q), mine)
         /\ settled(p, q).his = IF has_from(p, q) THEN plan.first ELSE Undefined
         /\ ~settled(p, q).collides
         /\ {p, q} \notin plan.links => settled(p, q) = NewPartner
<1>1. NewPartner = [init |-> {}, his |-> Undefined, his_id |-> -1, his_to_send |-> Nothing,
                    collides |-> FALSE, wants |-> FALSE, told_filter |-> FALSE,
                    sent |-> {}, ids |-> NoIds, to_send |-> NoEvent]
  BY DEF NewPartner
<1>2. PICK from \in BOOLEAN : from = has_from(p, q)
  BY DEF has_from
<1>3. PICK to \in BOOLEAN : to = has_from(q, p)
  BY DEF has_from
<1>4. PICK linked \in BOOLEAN : linked <=> {p, q} \in plan.links
  OBVIOUS
<1>5. PICK wants \in BOOLEAN : wants = (filter[q] /\ {p, q} \in plan.links)
  OBVIOUS
<1>6. PICK told \in BOOLEAN : told = (filter[p] /\ {p, q} \in plan.links)
  OBVIOUS
<1>7. PICK l : l = settled(p, q)
  OBVIOUS
<1>8. l = [NewPartner EXCEPT
            !.init = IF linked THEN Handshake ELSE {},
            !.his = IF from THEN plan.first ELSE Undefined,
            !.his_id = IF from THEN 0 ELSE -1,
            !.wants = wants, !.told_filter = told,
            !.sent = IF to THEN DOMAIN plan.first ELSE {},
            !.ids = IF to THEN update_fully(0) ELSE NoIds]
  BY <1>2, <1>3, <1>4, <1>5, <1>6, <1>7 DEF settled
<1>9. /\ l.init = (IF linked THEN Handshake ELSE {})
      /\ l.his = (IF from THEN plan.first ELSE Undefined)
      /\ l.his_to_send = Nothing /\ l.collides = FALSE /\ l.to_send = NoEvent
  BY <1>1, <1>8
<1>10. /\ plan.first \in Variable /\ DOMAIN plan.first \in SUBSET Nat
  BY VariablesAssumption, DefinedFacts, VariableFacts DEF Init
<1>11. NewPartner \in Links /\ NoIds \in Numbered
  BY NewPartnerFacts DEF NewPartner, Links
<1>12. update_fully(0) \in Numbered
  <2>1. update_fully(0) = [default |-> 0, at |-> <<>>] /\ NoIds = [default |-> -1, at |-> <<>>]
    BY DEF update_fully, NoIds
  <2>2. PICK at : at = NoIds.at
    OBVIOUS
  <2>3. at \in UNION {[S -> Int] : S \in {T \in SUBSET Nat : IsFiniteSet(T)}}
    BY <1>11, <2>2 DEF Numbered
  <2>4. at = <<>>
    BY <2>1, <2>2
  <2>5. update_fully(0) = [default |-> 0, at |-> at]
    BY <2>1, <2>4
  <2> QED BY <2>3, <2>5 DEF Numbered
<1>13. l \in Links
  <2>1. PICK i \in Int : i = IF from THEN 0 ELSE -1
    <3>1. 0 \in Int /\ -1 \in Int
      OBVIOUS
    <3> QED BY <3>1
  <2>2. PICK his \in Variable : his = IF from THEN plan.first ELSE Undefined
    BY <1>10 DEF Variable
  <2>3. PICK sent \in SUBSET Nat : sent = IF to THEN DOMAIN plan.first ELSE {}
    BY <1>10
  <2>4. PICK ids \in Numbered : ids = IF to THEN update_fully(0) ELSE NoIds
    BY <1>11, <1>12
  <2>5. PICK init \in SUBSET Handshake : init = IF linked THEN Handshake ELSE {}
    OBVIOUS
  <2>6. l = [NewPartner EXCEPT !.init = init, !.his = his, !.his_id = i, !.wants = wants,
                               !.told_filter = told, !.sent = sent, !.ids = ids]
    BY <1>8, <2>1, <2>2, <2>3, <2>4, <2>5
  <2> QED BY <1>11, <2>6 DEF Links
<1>14. \A mine : Coherent(l, mine)
  BY <1>9 DEF Coherent, Nothing, NoEvent
<1>15. ASSUME {p, q} \notin plan.links PROVE l = NewPartner
  <2>1. ~from /\ ~to /\ ~linked /\ ~wants /\ ~told
    <3>1. {q, p} = {p, q}
      OBVIOUS
    <3> QED BY <1>2, <1>3, <1>4, <1>5, <1>6, <1>15, <3>1 DEF has_from
  <2>2. l = [NewPartner EXCEPT !.init = {}, !.his = Undefined, !.his_id = -1, !.wants = FALSE,
                               !.told_filter = FALSE, !.sent = {}, !.ids = NoIds]
    BY <1>8, <2>1
  <2>3. /\ l.init = {} /\ l.his = Undefined /\ l.his_id = -1 /\ l.his_to_send = Nothing
        /\ l.collides = FALSE /\ l.wants = FALSE /\ l.told_filter = FALSE
        /\ l.sent = {} /\ l.ids = NoIds /\ l.to_send = NoEvent
    BY <1>1, <2>2
  <2>4. l = [init |-> l.init, his |-> l.his, his_id |-> l.his_id, his_to_send |-> l.his_to_send,
             collides |-> l.collides, wants |-> l.wants, told_filter |-> l.told_filter,
             sent |-> l.sent, ids |-> l.ids, to_send |-> l.to_send]
    BY <1>13 DEF Links
  <2> QED BY <1>1, <2>3, <2>4
<1> QED BY <1>2, <1>7, <1>9, <1>13, <1>14, <1>15

LEMMA InitHolds == Init => Inv
<1> SUFFICES ASSUME Init PROVE Inv
  OBVIOUS
<1>1. /\ plan \in Plans /\ left = plan.ops
      /\ my = [p \in Processes |-> IF p = plan.owner THEN plan.first ELSE Undefined]
      /\ filter \in [Processes -> BOOLEAN]
      /\ order = [p \in Processes |-> SetToSeq({q \in Processes \ {p} : {p, q} \in plan.links})]
      /\ link = [p \in Processes |-> [q \in Processes |-> settled(p, q)]]
      /\ changes = [p \in Processes |-> NoChange]
      /\ master = [p \in Processes |->
                     IF use_master_slave(p) THEN front_or_nobody(order[p]) ELSE Nobody]
      /\ seen = [p \in Processes |-> GetVariable(p)]
      /\ channel = [p \in Processes |-> [q \in Processes |-> <<>>]]
  BY DEF Init
<1>2. plan.first \in Variable /\ plan.first # Undefined
  BY <1>1, VariablesAssumption, DefinedFacts
<1>3. ASSUME NEW p \in Processes
      PROVE  /\ order[p] \in Orders(p) /\ order[p] \in Seq(Processes)
             /\ ToSet(order[p]) = {q \in Processes \ {p} : {p, q} \in plan.links}
  <2>1. PICK S : S = {q \in Processes \ {p} : {p, q} \in plan.links}
    OBVIOUS
  <2>2. order[p] = SetToSeq(S) /\ S \subseteq Processes \ {p}
    BY <1>1, <2>1
  <2>3. SetToSeq(S) \in Orders(p) /\ ToSet(SetToSeq(S)) = S
    BY <2>2, FirstOrder
  <2> QED BY <2>1, <2>2, <2>3 DEF Orders
<1>4. ASSUME NEW p \in Processes
      PROVE  my[p] \in Variable /\ link[p] \in [Processes -> Links] /\ Partners(my[p], link[p], order[p])
  <2>1. my[p] \in Variable
    BY <1>1, <1>2 DEF Variable
  <2>2. \A q \in Processes : link[p][q] = settled(p, q)
    BY <1>1
  <2>3. link[p] \in [Processes -> Links]
    BY <1>1, SettledFacts
  <2>4. ASSUME NEW q \in Processes, q \notin ToSet(order[p]) PROVE link[p][q] = NewPartner
    <3>1. {p, q} \notin plan.links
      <4>1. CASE q = p
        <5>1. {p, q} = {p}
          BY <4>1
        <5> QED BY <1>1, <5>1, VariablesAssumption
      <4>2. CASE q # p
        BY <1>3, <2>4, <4>2
      <4> QED BY <4>1, <4>2
    <3> QED BY <2>2, <3>1, SettledFacts
  <2> QED BY <2>1, <2>2, <2>3, <2>4, SettledFacts DEF Partners
<1>5. ASSUME NEW p \in Processes
      PROVE  /\ master[p] \in ToSet(order[p]) \cup {Nobody} /\ master[p] \in Processes \cup {Nobody}
             /\ seen[p] \in Variable
  <2>1. master[p] \in ToSet(order[p]) \cup {Nobody}
    BY <1>1, <1>3, FrontIsPartner
  <2>2. seen[p] \in Variable
    BY <1>1, <1>3, <1>4, VariableType
  <2> QED BY <1>3, <2>1, <2>2
<1>6. Typed
  <2>1. NoChange \in ChangeSet /\ <<>> \in Seq(Messages)
    BY OneMessage DEF NoChange, ChangeSet, Kinds, Variable
  <2>2. changes \in [Processes -> ChangeSet] /\ channel \in [Processes -> [Processes -> Seq(Messages)]]
    BY <1>1, <2>1
  <2>3. /\ my \in [Processes -> Variable] /\ link \in [Processes -> [Processes -> Links]]
        /\ order \in [Processes -> Seq(Processes)]
    BY <1>1, <1>3, <1>4
  <2>4. seen \in [Processes -> Variable] /\ master \in [Processes -> Processes \cup {Nobody}]
    BY <1>1, <1>5
  <2> QED BY <1>1, <2>2, <2>3, <2>4 DEF Typed
<1>7. ASSUME NEW p \in Processes PROVE Held(p)
  <2>1. \A q \in Processes : /\ link[p][q].his = IF has_from(p, q) THEN plan.first ELSE Undefined
                             /\ ~link[p][q].collides
    BY <1>1, SettledFacts
  <2>2. ToSet(order[p]) \subseteq Processes \ {p}
    BY <1>3
  <2>3. PICK who : who = Counted(link[p], order[p])
    OBVIOUS
  <2>4. Owning(link[p], order[p]) = who /\ who \subseteq {plan.owner} \ {p}
    BY <2>1, <2>2, <2>3 DEF Owning, Counted, has_from
  <2>5. apply_var_changes(seen[p], changes[p]) = GetVariable(p)
    <3>1. seen[p] = GetVariable(p) /\ changes[p] = NoChange
      BY <1>1
    <3> QED BY <3>1, NoneWaits
  <2>6. \E view : /\ Counts(plan, p, my[p], view, link[p], order[p], master[p])
                  /\ (p \in plan.use_master_slave => DefinesNothing(plan, p)) => view = GetVariable(p)
    <3>1. CASE p \notin plan.use_master_slave /\ my[p] # Undefined
      <4>1. p = plan.owner
        BY <1>1, <3>1
      <4>2. OneCounts(my[p], my[p], link[p], order[p])
        BY <2>4, <3>1, <4>1 DEF OneCounts
      <4>3. Counts(plan, p, my[p], my[p], link[p], order[p], master[p])
        BY <1>1, <3>1, <4>2 DEF Counts, use_master_slave
      <4> QED BY <1>3, <4>3, ViewIsVariable
    <3>2. CASE p \notin plan.use_master_slave /\ my[p] = Undefined
      <4>1. PICK view : view = IF who = {} THEN Undefined ELSE link[p][plan.owner].his
        OBVIOUS
      <4>2. OneCounts(my[p], view, link[p], order[p])
        <5>1. CASE who = {}
          BY <2>3, <3>2, <4>1, <5>1 DEF OneCounts
        <5>2. CASE who # {}
          <6>1. who = {plan.owner} /\ plan.owner \in ToSet(order[p])
            BY <2>3, <2>4, <5>2 DEF Counted
          <6> QED BY <2>4, <3>2, <4>1, <5>2, <6>1 DEF OneCounts
        <5> QED BY <5>1, <5>2
      <4>3. Counts(plan, p, my[p], view, link[p], order[p], master[p])
        BY <1>1, <3>2, <4>2 DEF Counts, use_master_slave
      <4> QED BY <1>3, <4>3, ViewIsVariable
    <3>3. CASE p \in plan.use_master_slave
      <4>1. PICK view : view = his_of(link[p], master[p])
        OBVIOUS
      <4>2. DefinesNothing(plan, p) => MasterCounts(my[p], view, link[p], master[p])
        BY <1>1, <2>1, <4>1 DEF MasterCounts, DefinesNothing
      <4>3. Counts(plan, p, my[p], view, link[p], order[p], master[p])
        BY <1>5, <3>3, <4>2 DEF Counts
      <4> QED BY <1>3, <4>3, ViewIsVariable
    <3> QED BY <3>1, <3>2, <3>3
  <2>7. Counts(plan, p, my[p], GetVariable(p), link[p], order[p], master[p])
    <3>1. PICK view : /\ Counts(plan, p, my[p], view, link[p], order[p], master[p])
                      /\ (p \in plan.use_master_slave => DefinesNothing(plan, p)) => view = GetVariable(p)
      BY <2>6
    <3>2. CASE p \in plan.use_master_slave /\ ~DefinesNothing(plan, p)
      BY <3>1, <3>2 DEF Counts
    <3>3. CASE ~(p \in plan.use_master_slave /\ ~DefinesNothing(plan, p))
      BY <3>1, <3>3
    <3> QED BY <3>2, <3>3
  <2> QED BY <1>3, <1>4, <2>5, <2>7 DEF Held
<1> QED BY <1>6, <1>7 DEF Inv

----------------------------------------------------------------------------
(* Every step *)

LEMMA UseStep ==
  ASSUME Inv, NEW p \in Processes, Use(p)
  PROVE  Inv'
<1>1. plan.callbacks \subseteq BOOLEAN
  BY VariablesAssumption DEF Inv, Typed
<1>2. ASSUME NEW n \in Sizes, NEW v \in values(n), NEW cb \in plan.callbacks, Define(p, v, cb)
      PROVE  Inv'
  <2>1. v \in Defined /\ cb \in BOOLEAN
    BY <1>1 DEF Defined
  <2> QED BY <1>2, <2>1, DefineStep
<1>3. ASSUME NEW cb \in plan.callbacks, Undefine(p, cb) PROVE Inv'
  BY <1>1, <1>3, UndefineStep
<1>4. ASSUME NEW i \in 1 .. Max(Sizes), NEW x \in Values, NEW cb \in plan.callbacks,
             ChangeMine(p, i, x, cb)
      PROVE  Inv'
  BY <1>1, <1>4, ChangeMineStep
<1>5. ASSUME NEW i \in 1 .. Max(Sizes), NEW x \in Values, NEW cb \in plan.callbacks,
             NEW q \in partners(p), ChangePartnerVariable(p, q, i, x, cb)
      PROVE  Inv'
  BY <1>1, <1>5, ChangePartnerVariableStep
<1>6. CASE SetFilters(p)
  BY <1>6, SetFiltersStep
<1>7. ASSUME NEW name \in Processes, SetMaster(p, name) PROVE Inv'
  BY <1>7, SetMasterStep
<1>8. CASE GetVariableChanges(p)
  BY <1>8, GetVariableChangesStep
<1> QED BY <1>2, <1>3, <1>4, <1>5, <1>6, <1>7, <1>8 DEF Use

LEMMA ExchangeStep ==
  ASSUME Inv, NEW p \in Processes, NEW q \in Processes \ {p}, Exchange(p, q)
  PROVE  Inv'
<1>1. CASE Connect(p, q)
  BY <1>1, ConnectStep
<1>2. CASE Lose(p, q)
  <2>1. q \in partners(p) /\ erasePartner(p, q) /\ does(p, "lose")
    BY <1>2 DEF Lose
  <2>2. BoundsKept
    BY <2>1, BoundsStay
  <2> QED BY <2>1, <2>2, erasePartnerStep
<1>3. CASE Ended(p, q)
  <2>1. q \in partners(p) /\ erasePartner(p, q) /\ UNCHANGED bounds
    BY <1>3 DEF Ended
  <2>2. BoundsKept
    BY <2>1, BoundsStay
  <2> QED BY <2>1, <2>2, erasePartnerStep
<1>4. ASSUME NEW again \in BOOLEAN, EvalSendForPartner(p, q, again) PROVE Inv'
  BY <1>4, EvalSendForPartnerStep
<1>5. CASE SendFilters(p, q)
  BY <1>5, SendFiltersStep
<1>6. CASE SendHis(p, q)
  BY <1>6, SendHisStep
<1>7. CASE SendMine(p, q)
  BY <1>7, SendMineStep
<1>8. CASE ProcessINIT(p, q)
  BY <1>8, ProcessINITStep
<1>9. CASE ProcessINIT_ACC(p, q)
  BY <1>9, ProcessINIT_ACCStep
<1>10. CASE ProcessMOD(p, q)
  BY <1>10, ProcessMODStep
<1>11. CASE ProcessSET(p, q)
  BY <1>11, ProcessSETStep
<1>12. CASE ProcessDEF(p, q)
  BY <1>12, ProcessDEFStep
<1>13. CASE ProcessUNDEF(p, q)
  BY <1>13, ProcessUNDEFStep
<1>14. CASE ProcessFILT(p, q)
  BY <1>14, ProcessFILTStep
<1> QED BY <1>1, <1>2, <1>3, <1>4, <1>5, <1>6, <1>7, <1>8, <1>9, <1>10, <1>11, <1>12, <1>13, <1>14
        DEF Exchange

LEMMA NextHolds == Inv /\ [Next]_vars => Inv'
<1> SUFFICES ASSUME Inv, [Next]_vars PROVE Inv'
  OBVIOUS
<1>1. ASSUME NEW p \in Processes, Use(p) PROVE Inv'
  BY <1>1, UseStep
<1>2. ASSUME NEW p \in Processes, NEW q \in Processes \ {p}, Exchange(p, q) PROVE Inv'
  BY <1>2, ExchangeStep
<1>3. CASE UNCHANGED vars
  <2>1. /\ UNCHANGED <<my, filter, order, link, changes, seen, master, channel, plan, left>>
    BY <1>3 DEF vars
  <2>2. Typed'
    BY <2>1 DEF Inv, Typed
  <2>3. ASSUME NEW p \in Processes PROVE Held(p)'
    BY <2>1 DEF Inv, Held
  <2> QED BY <2>2, <2>3 DEF Inv
<1> QED BY <1>1, <1>2, <1>3 DEF Next

LEMMA AlwaysInv == Spec => []Inv
<1>1. Init => Inv
  BY InitHolds
<1>2. Inv /\ [Next]_vars => Inv'
  BY NextHolds
<1> QED BY <1>1, <1>2, PTL DEF Spec

----------------------------------------------------------------------------
(* What follows *)

(* The state keeps its types whatever partners do: the list of partners names each
   once and never the process itself, and the master is one of them (TypeOK, which
   AssertionsHold begins with). *)
THEOREM TypesAreKept == Spec => []TypeOK
<1>1. ASSUME Inv PROVE TypeOK
  <2>1. /\ my \in [Processes -> Variable] /\ seen \in [Processes -> Variable]
        /\ filter \in [Processes -> BOOLEAN]
    BY <1>1 DEF Inv, Typed
  <2>2. ASSUME NEW p \in Processes
        PROVE  /\ partners(p) \subseteq Processes \ {p} /\ IsInjective(order[p])
               /\ master[p] \in partners(p) \cup {Nobody}
               /\ changes[p].kind \in {"none", "created", "updated", "deleted"}
               /\ changes[p].value \in Variable
    BY <1>1, TypedFacts DEF Orders, ChangeSet, Kinds
  <2>3. ASSUME NEW p \in Processes, NEW q \in Processes
        PROVE  /\ link[p][q].his \in Variable /\ link[p][q].to_send.value \in Variable
               /\ link[p][q].his_id \in Int /\ link[p][q].ids.default \in Int
               /\ link[p][q].init \subseteq Handshake
               /\ link[p][q].collides \in BOOLEAN /\ link[p][q].wants \in BOOLEAN
    <3>1. link[p][q] \in Links /\ link[p][q].to_send \in Events /\ link[p][q].ids \in Numbered
      BY <1>1, LinkFacts
    <3> QED BY <3>1 DEF Links, Events, Numbered
  <2> QED BY <2>1, <2>2, <2>3 DEF TypeOK
<1>2. Inv => TypeOK
  BY <1>1
<1> QED BY <1>2, AlwaysInv, PTL

(* However partners define, undefine, lose and make connections, the code's three
   ways of settling a collision (DefineMyVariable, doesPartnerVariableCollide and
   tryDefineSomeCollidingVariable) leave one variable that counts. *)
THEOREM OneVariableCounts == Spec => []OneOwner
<1>1. ASSUME Inv, NEW p \in Processes \ plan.use_master_slave, NEW who,
             who = owners(p, link[p], order[p], Nobody)
      PROVE  IF my[p] # Undefined THEN who = {}
             ELSE Cardinality(who) = IF counted(p, link[p], order[p], Nobody) = {} THEN 0 ELSE 1
  <2>1. who = Owning(link[p], order[p])
        /\ counted(p, link[p], order[p], Nobody) = Counted(link[p], order[p])
    BY <1>1, NoMasterCounts
  <2>2. PICK view : OneCounts(my[p], view, link[p], order[p])
    BY <1>1 DEF Inv, Held, Counts
  <2>3. CASE my[p] # Undefined
    BY <2>1, <2>2, <2>3 DEF OneCounts
  <2>4. CASE my[p] = Undefined /\ Counted(link[p], order[p]) = {}
    <3>1. who = {}
      BY <2>1, <2>4 DEF Owning
    <3>2. Cardinality(who) = 0
      BY <3>1, FS_EmptySet
    <3> QED BY <2>1, <2>4, <3>2
  <2>5. CASE my[p] = Undefined /\ Counted(link[p], order[p]) # {}
    <3>1. PICK q : who = {q}
      BY <2>1, <2>2, <2>5 DEF OneCounts
    <3>2. Cardinality(who) = 1
      BY <3>1, FS_Singleton
    <3> QED BY <2>1, <2>5, <3>2
  <2> QED BY <2>3, <2>4, <2>5
<1>2. Inv => OneOwner
  BY <1>1 DEF OneOwner
<1> QED BY <1>2, AlwaysInv, PTL

(* What the user of a process knows after his next callback is what GetVariable
   would give him, unless the process both has a master and defines the name
   itself: a switch of the master tells the user of the new one's variable whether
   or not there is one of his own (msv_refresh_internal). *)
ViewsAgreeButMastered ==
  \A p \in Processes :
    (p \in plan.use_master_slave => DefinesNothing(plan, p)) =>
      apply_var_changes(seen[p], changes[p]) = GetVariable(p)

LEMMA InvTellsAll == Inv => ViewsAgreeButMastered
<1>1. ASSUME Inv, NEW p \in Processes, p \in plan.use_master_slave => DefinesNothing(plan, p)
      PROVE  apply_var_changes(seen[p], changes[p]) = GetVariable(p)
  <2>1. PICK view : view = apply_var_changes(seen[p], changes[p])
    OBVIOUS
  <2>2. Counts(plan, p, my[p], view, link[p], order[p], master[p]) /\ order[p] \in Seq(Processes)
    BY <1>1, <2>1, TypedFacts DEF Inv, Held
  <2> QED BY <1>1, <2>1, <2>2, ViewIsVariable
<1> QED BY <1>1 DEF ViewsAgreeButMastered

(* No change of a variable is lost, told twice over a newer one or told of too few
   fields, whoever made it and whatever else waits for the callback. *)
THEOREM TheUserIsToldEveryChange == Spec => []ViewsAgreeButMastered
<1>1. Inv => ViewsAgreeButMastered
  BY InvTellsAll
<1> QED BY <1>1, AlwaysInv, PTL

(* So, where no process with master and slave defines the name itself, all views agree. *)
MastersDefineNothing ==
  \A pl \in Plans : \A p \in Processes \cap pl.use_master_slave : DefinesNothing(pl, p)

THEOREM ViewsAlwaysAgree ==
  ASSUME MastersDefineNothing
  PROVE  Spec => []ViewAgrees
<1>1. ASSUME Inv PROVE ViewAgrees
  <2>1. plan \in Plans
    BY <1>1 DEF Inv, Typed
  <2>2. ViewsAgreeButMastered
    BY <1>1, InvTellsAll
  <2> QED BY <2>1, <2>2 DEF ViewsAgreeButMastered, MastersDefineNothing, ViewAgrees
<1>2. Inv => ViewAgrees
  BY <1>1
<1> QED BY <1>2, AlwaysInv, PTL

----------------------------------------------------------------------------
(* Numbers of what was sent *)

LEMMA NumbersAreFinite ==
  ASSUME NEW ids \in Numbered
  PROVE  /\ IsFiniteSet(numbers(ids)) /\ numbers(ids) \subseteq Int /\ ids.default \in numbers(ids)
         /\ \A i \in DOMAIN ids.at : ids.at[i] \in numbers(ids)
<1>1. PICK S \in SUBSET Nat : IsFiniteSet(S) /\ ids.at \in [S -> Int]
  BY DEF Numbered
<1>2. ids.default \in Int /\ DOMAIN ids.at = S
  BY <1>1 DEF Numbered
<1> DEFINE T == {ids.at[i] : i \in DOMAIN ids.at}
<1>3. IsFiniteSet(T)
  <2>1. ids.at \in Surjection(S, T)
    BY <1>1, <1>2 DEF Surjection
  <2> HIDE DEF T
  <2> QED BY <1>1, <2>1, FS_Surjection
<1>4. T \subseteq Int /\ \A i \in DOMAIN ids.at : ids.at[i] \in T
  BY <1>1, <1>2
<1>5. numbers(ids) = T \cup {ids.default}
  BY DEF numbers
<1> HIDE DEF T
<1>6. IsFiniteSet(T \cup {ids.default})
  BY <1>3, FS_AddElement
<1> QED BY <1>2, <1>4, <1>5, <1>6

(* get_next_id gives a number above all that were given (CmVariable::get_next_id). *)
LEMMA NextIsNew ==
  ASSUME NEW ids \in Numbered
  PROVE  /\ get_next_id(ids) \in Int /\ \E x \in numbers(ids) : get_next_id(ids) = x + 1
         /\ \A x \in numbers(ids) : x \in Int /\ x < get_next_id(ids)
<1>1. IsFiniteSet(numbers(ids)) /\ numbers(ids) \subseteq Int /\ numbers(ids) # {}
  BY NumbersAreFinite
<1>2. Max(numbers(ids)) \in numbers(ids) /\ \A y \in numbers(ids) : Max(numbers(ids)) >= y
  BY <1>1, LastOfFinite DEF Max
<1>3. get_next_id(ids) = Max(numbers(ids)) + 1
  BY DEF get_next_id
<1> QED BY <1>1, <1>2, <1>3

(* The number of the last whole variable is the least: what was sent of it since has
   a number of its own. *)
Sent(ids, sent) ==
  /\ DOMAIN ids.at \subseteq sent
  /\ \A i \in DOMAIN ids.at : ids.at[i] >= ids.default
  /\ ids.default >= -1 /\ (sent # {} => ids.default >= 0)

(* So the last whole variable has the least number, and a next one is above all. *)
LEMMA SentFacts ==
  ASSUME NEW ids \in Numbered, NEW sent, Sent(ids, sent)
  PROVE  /\ ids.default \in Int /\ get_next_id(ids) \in Int
         /\ ids.default < get_next_id(ids) /\ get_next_id(ids) >= 0
         /\ \A i : get_index(ids, i) \in Int /\ ids.default <= get_index(ids, i)
                   /\ get_index(ids, i) < get_next_id(ids)
         /\ Min(numbers(ids)) = ids.default
         /\ \E x \in numbers(ids) : get_next_id(ids) = x + 1
<1>1. /\ numbers(ids) \subseteq Int /\ ids.default \in numbers(ids)
      /\ \A i \in DOMAIN ids.at : ids.at[i] \in numbers(ids)
  BY NumbersAreFinite
<1>2. /\ get_next_id(ids) \in Int /\ \E x \in numbers(ids) : get_next_id(ids) = x + 1
      /\ \A x \in numbers(ids) : x \in Int /\ x < get_next_id(ids)
  BY NextIsNew
<1>3. ids.default \in Int /\ ids.default < get_next_id(ids) /\ get_next_id(ids) >= 0
  BY <1>1, <1>2 DEF Sent
<1>4. ASSUME NEW i
      PROVE  get_index(ids, i) \in Int /\ ids.default <= get_index(ids, i)
             /\ get_index(ids, i) < get_next_id(ids)
  <2>1. CASE i \in DOMAIN ids.at
    <3>1. get_index(ids, i) = ids.at[i]
      BY <2>1 DEF get_index
    <3> QED BY <1>1, <1>2, <2>1, <3>1 DEF Sent
  <2>2. CASE i \notin DOMAIN ids.at
    <3>1. get_index(ids, i) = ids.default
      BY <2>2 DEF get_index
    <3> QED BY <1>3, <3>1
  <2> QED BY <2>1, <2>2
<1>5. \A x \in numbers(ids) : ids.default <= x
  BY <1>1, <1>3 DEF numbers, Sent
<1>6. Min(numbers(ids)) = ids.default
  <2>1. Min(numbers(ids)) \in numbers(ids) /\ \A y \in numbers(ids) : Min(numbers(ids)) <= y
    BY <1>1, <1>5 DEF Min
  <2> QED BY <1>1, <1>5, <2>1
<1> QED BY <1>2, <1>3, <1>4, <1>6

(* After a DEF or an UNDEF all indices have its number (update_fully). *)
LEMMA FullySent ==
  ASSUME NEW id \in Int, id >= 0, NEW sent
  PROVE  /\ Sent(update_fully(id), sent) /\ get_next_id(update_fully(id)) = id + 1
         /\ update_fully(id) \in Numbered /\ update_fully(id).default = id
         /\ \A i : get_index(update_fully(id), i) = id
<1>1. update_fully(id) \in Numbered
  <2>1. {} \in SUBSET Nat /\ IsFiniteSet({})
    BY FS_EmptySet
  <2>2. update_fully(id) \in Numbered
    <3>1. PICK ids \in Numbered : ids = ids
      <4>1. [default |-> 0, at |-> [x \in {} |-> 0]] \in Numbered
        BY <2>1 DEF Numbered
      <4> QED BY <4>1
    <3> QED BY <2>1, <3>1, IdsType
  <2> QED BY <2>2
<1>2. update_fully(id).default = id /\ DOMAIN update_fully(id).at = {}
  BY DEF update_fully
<1>3. Sent(update_fully(id), sent) /\ \A i : get_index(update_fully(id), i) = id
  BY <1>2 DEF Sent, get_index
<1>4. numbers(update_fully(id)) = {id}
  BY <1>2 DEF numbers
<1> QED BY <1>1, <1>2, <1>3, <1>4, NextIsNew

(* After a SET only its indices have the new number (update_from_variable). *)
LEMMA PartlySent ==
  ASSUME NEW ids \in Numbered, NEW sent \in SUBSET Nat, Sent(ids, sent),
         NEW fields \in SUBSET sent, fields # {}, IsFiniteSet(fields), NEW new,
         new = update_from_variable(ids, fields, get_next_id(ids))
  PROVE  /\ Sent(new, sent) /\ new \in Numbered /\ new.default = ids.default
         /\ \A i : get_index(new, i) = IF i \in fields THEN get_next_id(ids) ELSE get_index(ids, i)
         /\ get_next_id(ids) < get_next_id(new)
<1> DEFINE id == get_next_id(ids)
<1>1. id \in Int /\ ids.default < id /\ \A i : get_index(ids, i) \in Int
  BY SentFacts
<1>2. new \in Numbered
  <2>1. fields \in SUBSET Nat
    OBVIOUS
  <2> QED BY <1>1, <2>1, IdsType
<1> HIDE DEF id
<1>3. /\ new.default = ids.default /\ DOMAIN new.at = DOMAIN ids.at \cup fields
      /\ \A i \in DOMAIN new.at : new.at[i] = IF i \in fields THEN id ELSE ids.at[i]
  BY DEF update_from_variable, Numbered, id
<1>4. Sent(new, sent)
  <2>1. \A i \in DOMAIN ids.at : ids.at[i] \in Int /\ ids.default <= ids.at[i]
    BY NumbersAreFinite DEF Sent
  <2>2. ids.default \in Int /\ ids.default >= -1 /\ DOMAIN ids.at \subseteq sent
        /\ (sent # {} => ids.default >= 0)
    BY SentFacts DEF Sent
  <2>3. DOMAIN new.at \subseteq sent
    BY <1>3, <2>2
  <2>4. \A i \in DOMAIN new.at : new.at[i] >= new.default
    BY <1>1, <1>3, <2>1, <2>2
  <2> QED BY <1>3, <2>2, <2>3, <2>4 DEF Sent
<1>5. \A i : get_index(new, i) = IF i \in fields THEN id ELSE get_index(ids, i)
  BY <1>3 DEF get_index
<1>6. PICK j \in fields : TRUE
  OBVIOUS
<1>7. id \in numbers(new)
  BY <1>3, <1>6 DEF numbers
<1>8. id < get_next_id(new)
  BY <1>2, <1>7, NextIsNew
<1> QED BY <1>2, <1>3, <1>4, <1>5, <1>8 DEF id

----------------------------------------------------------------------------
(* Messages on their way *)

LEMMA PutFacts ==
  ASSUME NEW c \in Seq(Messages), NEW m \in Messages
  PROVE  /\ c \o <<m>> \in Seq(Messages) /\ DOMAIN c = 1 .. Len(c) /\ Len(c) \in Nat
         /\ DOMAIN (c \o <<m>>) = 1 .. (Len(c) + 1) /\ (c \o <<m>>)[Len(c) + 1] = m
         /\ \A a \in DOMAIN c : (c \o <<m>>)[a] = c[a]
         /\ \A a \in DOMAIN (c \o <<m>>) : a \in DOMAIN c \/ a = Len(c) + 1
<1>1. <<m>> \in Seq(Messages) /\ Len(<<m>>) = 1 /\ <<m>>[1] = m
  BY OneMessage
<1>2. /\ c \o <<m>> \in Seq(Messages) /\ DOMAIN c = 1 .. Len(c) /\ Len(c) \in Nat
      /\ Len(c \o <<m>>) = Len(c) + 1
      /\ \A a \in 1 .. Len(c) : (c \o <<m>>)[a] = c[a]
      /\ (c \o <<m>>)[Len(c) + 1] = m
  BY <1>1, ConcatProperties
<1>3. DOMAIN (c \o <<m>>) = 1 .. (Len(c) + 1)
  BY <1>2
<1> QED BY <1>2, <1>3

(* What is left of a channel when its first message is taken. *)
LEMMA TakeFacts ==
  ASSUME NEW c \in Seq(Messages), c # <<>>
  PROVE  /\ Tail(c) \in Seq(Messages) /\ Head(c) \in Messages /\ Head(c) = c[1]
         /\ DOMAIN c = 1 .. Len(c) /\ Len(c) \in Nat /\ 1 \in DOMAIN c
         /\ DOMAIN Tail(c) = 1 .. (Len(c) - 1)
         /\ \A a \in DOMAIN Tail(c) : a \in Nat /\ a + 1 \in DOMAIN c /\ Tail(c)[a] = c[a + 1]
         /\ \A a \in DOMAIN c : a \in Nat /\ (a # 1 => a - 1 \in DOMAIN Tail(c) /\ Tail(c)[a - 1] = c[a])
<1>1. /\ Tail(c) \in Seq(Messages) /\ Head(c) \in Messages /\ Head(c) = c[1]
      /\ Len(Tail(c)) = Len(c) - 1 /\ \A a \in 1 .. Len(Tail(c)) : Tail(c)[a] = c[a + 1]
  BY HeadTailProperties
<1>2. DOMAIN c = 1 .. Len(c) /\ Len(c) \in Nat /\ Len(c) >= 1
  BY EmptySeq
<1>3. DOMAIN Tail(c) = 1 .. (Len(c) - 1)
  BY <1>1
<1> QED BY <1>1, <1>2, <1>3

(* What partner q is told of the variable: DEF and UNDEF of the whole of it, SET of some
   indices. *)
IsFull(m) == m.what \in {"DEF", "UNDEF"}
(* The messages that say something of the owner's variable. *)
Says(m) == m.what \in {"SET", "DEF", "UNDEF"}
(* A message that says what index i has. *)
Carries(m, i) == IsFull(m) \/ (m.what = "SET" /\ i \in DOMAIN m.value)
(* All that is said on a channel; it is said in the order of its numbers. *)
said(c) == {c[a] : a \in {b \in DOMAIN c : Says(c[b])}}
InOrder(c) == \A a, b \in DOMAIN c : a < b /\ Says(c[a]) /\ Says(c[b]) => c[a].id < c[b].id

(* What one message adds to it. *)
SaidNow(m) == IF Says(m) THEN {m} ELSE {}

(* What is said is messages with numbers. *)
LEMMA SaidType ==
  ASSUME NEW c \in Seq(Messages)
  PROVE  said(c) \subseteq Messages /\ \A m \in said(c) : m.id \in Int /\ Says(m)
<1>1. \A a \in DOMAIN c : c[a] \in Messages
  OBVIOUS
<1> QED BY <1>1 DEF said, Messages

(* A message that is sent says more, if it says anything. *)
LEMMA PutSaid ==
  ASSUME NEW c \in Seq(Messages), NEW m \in Messages, InOrder(c),
         Says(m) => \A n \in said(c) : n.id < m.id
  PROVE  said(c \o <<m>>) = said(c) \cup SaidNow(m) /\ InOrder(c \o <<m>>)
<1> DEFINE t == c \o <<m>>
<1>1. /\ DOMAIN c = 1 .. Len(c) /\ Len(c) \in Nat /\ DOMAIN t = 1 .. (Len(c) + 1)
      /\ t[Len(c) + 1] = m /\ \A a \in DOMAIN c : t[a] = c[a]
      /\ \A a \in DOMAIN t : a \in DOMAIN c \/ a = Len(c) + 1
  BY PutFacts
<1> HIDE DEF t
<1>2. \A x : x \in said(c) <=> \E a \in DOMAIN c : Says(c[a]) /\ x = c[a]
  BY DEF said
<1>3. \A x : x \in said(t) <=> \E a \in DOMAIN t : Says(t[a]) /\ x = t[a]
  BY DEF said
<1>4. DOMAIN c \subseteq DOMAIN t /\ Len(c) + 1 \in DOMAIN t
  BY <1>1
<1>5. said(t) = said(c) \cup SaidNow(m)
  <2>1. ASSUME NEW x \in said(t) PROVE x \in said(c) \cup SaidNow(m)
    BY <1>1, <1>2, <1>3 DEF SaidNow
  <2>2. ASSUME NEW x \in said(c) \cup SaidNow(m) PROVE x \in said(t)
    BY <1>1, <1>2, <1>3, <1>4 DEF SaidNow
  <2> QED BY <2>1, <2>2
<1>6. InOrder(t)
  <2>1. ASSUME NEW a \in DOMAIN t, NEW b \in DOMAIN t, a < b, Says(t[a]), Says(t[b])
        PROVE  t[a].id < t[b].id
    <3>1. a \in DOMAIN c
      BY <1>1, <2>1
    <3>2. CASE b \in DOMAIN c
      BY <1>1, <2>1, <3>1, <3>2 DEF InOrder
    <3>3. CASE b = Len(c) + 1
      BY <1>1, <1>2, <2>1, <3>1, <3>3
    <3> QED BY <1>1, <3>2, <3>3
  <2> QED BY <2>1 DEF InOrder
<1> QED BY <1>5, <1>6 DEF t

(* The first message said is the earliest. *)
LEMMA TakeSaid ==
  ASSUME NEW c \in Seq(Messages), InOrder(c), c # <<>>
  PROVE  /\ said(Tail(c)) = said(c) \ SaidNow(Head(c)) /\ InOrder(Tail(c))
         /\ Says(Head(c)) => Head(c) \in said(c) /\ \A n \in said(Tail(c)) : Head(c).id < n.id
<1> DEFINE t == Tail(c)
           h == Head(c)
<1>1. /\ h = c[1] /\ DOMAIN c = 1 .. Len(c) /\ Len(c) \in Nat /\ 1 \in DOMAIN c
      /\ DOMAIN t = 1 .. (Len(c) - 1)
      /\ \A a \in DOMAIN t : a \in Nat /\ a + 1 \in DOMAIN c /\ t[a] = c[a + 1]
      /\ \A a \in DOMAIN c : a \in Nat /\ (a # 1 => a - 1 \in DOMAIN t /\ t[a - 1] = c[a])
      /\ h \in Messages
  BY TakeFacts
<1>0. h.id \in Int
  BY <1>1 DEF Messages
<1> HIDE DEF t, h
<1>2. \A x : x \in said(c) <=> \E a \in DOMAIN c : Says(c[a]) /\ x = c[a]
  BY DEF said
<1>3. \A x : x \in said(t) <=> \E a \in DOMAIN t : Says(t[a]) /\ x = t[a]
  BY DEF said
<1>4. InOrder(t)
  BY <1>1 DEF InOrder
<1>5. Says(h) => h \in said(c) /\ \A n \in said(t) : h.id < n.id
  <2>1. ASSUME Says(h), NEW n \in said(t) PROVE h.id < n.id
    <3>1. PICK a \in DOMAIN t : Says(t[a]) /\ n = t[a]
      BY <1>3
    <3>2. a + 1 \in DOMAIN c /\ n = c[a + 1] /\ 1 < a + 1
      BY <1>1, <3>1
    <3> QED BY <1>1, <2>1, <3>1, <3>2 DEF InOrder
  <2> QED BY <1>1, <1>2, <2>1
<1>6. said(t) = said(c) \ SaidNow(h)
  <2>1. ASSUME NEW x \in said(t) PROVE x \in said(c) \ SaidNow(h)
    <3>1. PICK a \in DOMAIN t : Says(t[a]) /\ x = t[a]
      BY <1>3
    <3>2. x \in said(c)
      BY <1>1, <1>2, <3>1
    <3>3. x \notin SaidNow(h)
      BY <1>0, <1>5, <2>1 DEF SaidNow
    <3> QED BY <3>2, <3>3
  <2>2. ASSUME NEW x \in said(c) \ SaidNow(h) PROVE x \in said(t)
    <3>1. PICK a \in DOMAIN c : Says(c[a]) /\ x = c[a]
      BY <1>2
    <3>2. a # 1
      BY <1>1, <2>2, <3>1 DEF SaidNow
    <3> QED BY <1>1, <1>3, <3>1, <3>2
  <2> QED BY <2>1, <2>2
<1> QED BY <1>4, <1>5, <1>6 DEF t, h

----------------------------------------------------------------------------
(* What two partners hold of a variable, and what is on its way between them: l is what
   its owner holds, and c goes from him; k is what his partner holds, and d goes from the
   partner. *)

(* What waits is of my variable; when nothing waits he was sent what he wants of it. *)
Owned(l, mine) ==
  /\ l.to_send.what = "none" => l.sent = IF l.wants THEN DOMAIN mine ELSE {}
  /\ l.to_send.what = "update" => l.sent = DOMAIN mine
  /\ l.to_send.what = "undefine" => l.sent # {} /\ (l.wants => DOMAIN mine = {})
  /\ l.to_send.what \in {"define", "update"} => l.to_send.value = mine /\ l.to_send.fields # {}
  /\ Sent(l.ids, l.sent)

(* The last DEF or UNDEF before a message. *)
Latest(S, n, m) ==
  IsFull(n) /\ n.id < m.id /\ \A o \in S : IsFull(o) /\ o.id < m.id => o.id <= n.id

(* What is on its way is later than what he has; a SET is of indices he will have then,
   and an UNDEF of what he will have been told of. *)
Told(S, his, id) ==
  /\ id >= -1 /\ (his # Undefined => id >= 0)
  /\ \A m \in S : m.id > id
  /\ \A m \in S : m.what = "SET" =>
       /\ DOMAIN m.value # {}
       /\ (\A n \in S : IsFull(n) => n.id > m.id) => DOMAIN m.value \subseteq DOMAIN his
       /\ \A n \in S : Latest(S, n, m) => DOMAIN m.value \subseteq DOMAIN n.value
  /\ \A m \in S : m.what = "UNDEF" => DOMAIN m.value = {} /\ (id = -1 => \E n \in S : n.id < m.id)

(* He has, or will have, what he was sent last, of the whole and of each index. *)
Follows(S, his, id, sent, ids) ==
  /\ \A n \in S : IsFull(n) => n.id <= ids.default /\ (n.id = ids.default => DOMAIN n.value = sent)
  /\ IF id < ids.default THEN \E n \in S : IsFull(n) /\ n.id = ids.default ELSE DOMAIN his = sent
  /\ id < get_next_id(ids) /\ \A m \in S : m.id < get_next_id(ids)
  /\ \A i \in sent :
       /\ \A m \in S : Carries(m, i) => m.id <= get_index(ids, i)
       /\ id < get_index(ids, i) => \E m \in S : Carries(m, i) /\ m.id = get_index(ids, i)

(* Of an index last sent with number t he will have the value x. *)
Coming(S, i, t, x) == \A m \in S : Carries(m, i) /\ m.id = t => m.value[i] = x

(* The owner says one thing more, with the next number. *)
LEMMA ToldMore ==
  ASSUME NEW S \in SUBSET Messages, NEW his, NEW id \in Int, NEW sent, NEW ids \in Numbered,
         Sent(ids, sent), Told(S, his, id), Follows(S, his, id, sent, ids),
         NEW m \in Messages, Says(m), m.id = get_next_id(ids),
         m.what = "SET" => DOMAIN m.value # {} /\ DOMAIN m.value \subseteq sent,
         m.what = "UNDEF" => DOMAIN m.value = {} /\ sent # {}
  PROVE  Told(S \cup {m}, his, id) /\ \A n \in S : n.id < m.id
<1> DEFINE T == S \cup {m}
<1>1. \A n \in T : n.id \in Int
  BY DEF Messages
<1>2. \A n \in S : n.id < m.id /\ n.id > id
  BY DEF Told, Follows
<1>3. id < m.id /\ id >= -1 /\ (his # Undefined => id >= 0)
  BY DEF Told, Follows
<1>4. ids.default \in Int /\ (sent # {} => ids.default >= 0)
  BY SentFacts DEF Sent
<1>5. ASSUME NEW o \in S, o.what = "SET"
      PROVE  /\ DOMAIN o.value # {}
             /\ (\A n \in T : IsFull(n) => n.id > o.id) => DOMAIN o.value \subseteq DOMAIN his
             /\ \A n \in T : Latest(T, n, o) => DOMAIN o.value \subseteq DOMAIN n.value
  <2>1. \A n \in T : Latest(T, n, o) => n \in S /\ Latest(S, n, o)
    BY <1>1, <1>2, <1>5 DEF Latest
  <2>2. (\A n \in T : IsFull(n) => n.id > o.id) => \A n \in S : IsFull(n) => n.id > o.id
    OBVIOUS
  <2> HIDE DEF T
  <2> QED BY <1>5, <2>1, <2>2 DEF Told
<1>6. ASSUME m.what = "SET"
      PROVE  /\ DOMAIN m.value # {}
             /\ (\A n \in T : IsFull(n) => n.id > m.id) => DOMAIN m.value \subseteq DOMAIN his
             /\ \A n \in T : Latest(T, n, m) => DOMAIN m.value \subseteq DOMAIN n.value
  <2>1. CASE id < ids.default
    <3>1. PICK x \in S : IsFull(x) /\ x.id = ids.default
      BY <2>1 DEF Follows
    <3>2. ~ \A n \in T : IsFull(n) => n.id > m.id
      BY <1>1, <1>2, <3>1
    <3>3. ASSUME NEW n \in T, Latest(T, n, m) PROVE DOMAIN n.value = sent
      <4>1. IsFull(n) /\ n.id < m.id /\ n.id >= x.id
        BY <1>2, <3>1, <3>3 DEF Latest
      <4>2. n \in S
        BY <1>1, <4>1
      <4>3. n.id = ids.default
        BY <1>1, <1>4, <3>1, <4>1, <4>2 DEF Follows
      <4> QED BY <4>1, <4>2, <4>3 DEF Follows
    <3> QED BY <1>6, <3>2, <3>3
  <2>2. CASE ~(id < ids.default)
    <3>1. DOMAIN his = sent
      BY <2>2 DEF Follows
    <3>2. \A n \in S : ~IsFull(n)
      BY <1>1, <1>2, <1>4, <2>2 DEF Follows
    <3>3. ~IsFull(m)
      BY <1>6 DEF IsFull
    <3> QED BY <1>6, <3>1, <3>2, <3>3 DEF Latest
  <2> QED BY <2>1, <2>2
<1>7. ASSUME NEW o \in T, o.what = "UNDEF"
      PROVE  DOMAIN o.value = {} /\ (id = -1 => \E n \in T : n.id < o.id)
  <2>1. CASE o \in S
    BY <1>7, <2>1 DEF Told
  <2>2. CASE o = m
    <3>1. DOMAIN m.value = {} /\ sent # {}
      BY <1>7, <2>2
    <3>2. ASSUME id = -1 PROVE \E n \in S : n.id < m.id
      <4>1. id < ids.default
        BY <1>4, <3>1, <3>2
      <4>2. \E n \in S : TRUE
        BY <4>1 DEF Follows
      <4> QED BY <1>2, <4>2
    <3> QED BY <2>2, <3>1, <3>2
  <2> QED BY <2>1, <2>2
<1>8. \A o \in T : o.id > id
  BY <1>1, <1>2, <1>3
<1>9. \A o \in T : o.what = "SET" =>
       /\ DOMAIN o.value # {}
       /\ (\A n \in T : IsFull(n) => n.id > o.id) => DOMAIN o.value \subseteq DOMAIN his
       /\ \A n \in T : Latest(T, n, o) => DOMAIN o.value \subseteq DOMAIN n.value
  BY <1>5, <1>6
<1> HIDE DEF T
<1>10. Told(T, his, id)
  BY <1>3, <1>7, <1>8, <1>9 DEF Told
<1> QED BY <1>2, <1>10 DEF T

(* A SET goes to him: of these indices the number is new. *)
LEMMA FollowsSome ==
  ASSUME NEW S \in SUBSET Messages, NEW his, NEW id \in Int, NEW sent \in SUBSET Nat,
         NEW ids \in Numbered, Sent(ids, sent), Follows(S, his, id, sent, ids),
         NEW m \in Messages, m.what = "SET", m.id = get_next_id(ids),
         DOMAIN m.value # {}, DOMAIN m.value \subseteq sent, IsFiniteSet(DOMAIN m.value),
         NEW new, new = update_from_variable(ids, DOMAIN m.value, m.id)
  PROVE  Follows(S \cup {m}, his, id, sent, new)
<1> DEFINE T == S \cup {m}
           fields == DOMAIN m.value
<1>1. \A n \in T : n.id \in Int
  BY DEF Messages
<1>2. /\ new.default = ids.default /\ get_next_id(ids) < get_next_id(new)
      /\ \A i : get_index(new, i) = IF i \in fields THEN m.id ELSE get_index(ids, i)
      /\ new \in Numbered
  BY PartlySent
<1>3. ids.default \in Int /\ get_next_id(ids) \in Int /\ get_next_id(new) \in Int
      /\ ids.default < m.id
      /\ \A i : get_index(ids, i) \in Int /\ get_index(ids, i) < m.id
  BY <1>2, SentFacts, NextIsNew
<1>4. \A n \in S : n.id < m.id
  BY DEF Follows
<1>5. ~IsFull(m) /\ \A i : Carries(m, i) <=> i \in fields
  BY DEF IsFull, Carries
<1> HIDE DEF fields
<1>6. \A n \in T : IsFull(n) => n.id <= new.default /\ (n.id = new.default => DOMAIN n.value = sent)
  BY <1>2, <1>5 DEF Follows
<1>7. IF id < new.default THEN \E n \in T : IsFull(n) /\ n.id = new.default ELSE DOMAIN his = sent
  BY <1>2 DEF Follows
<1>8. id < get_next_id(new) /\ \A n \in T : n.id < get_next_id(new)
  BY <1>1, <1>2, <1>3 DEF Follows
<1>9. ASSUME NEW i \in sent
      PROVE  /\ \A n \in T : Carries(n, i) => n.id <= get_index(new, i)
             /\ id < get_index(new, i) => \E n \in T : Carries(n, i) /\ n.id = get_index(new, i)
  <2>1. CASE i \in fields
    BY <1>1, <1>2, <1>4, <1>5, <2>1
  <2>2. CASE i \notin fields
    <3>1. get_index(new, i) = get_index(ids, i) /\ ~Carries(m, i)
      BY <1>2, <1>5, <2>2
    <3> QED BY <3>1 DEF Follows
  <2> QED BY <2>1, <2>2
<1> HIDE DEF T
<1>10. Follows(T, his, id, sent, new)
  BY <1>6, <1>7, <1>8, <1>9 DEF Follows
<1> QED BY <1>10 DEF T

(* A DEF or UNDEF goes to him: what was sent before is of no account. *)
LEMMA FollowsAll ==
  ASSUME NEW S \in SUBSET Messages, NEW his, NEW id \in Int, NEW sent,
         NEW ids \in Numbered, Sent(ids, sent), Follows(S, his, id, sent, ids),
         NEW m \in Messages, IsFull(m), m.id = get_next_id(ids)
  PROVE  Follows(S \cup {m}, his, id, DOMAIN m.value, update_fully(m.id))
<1> DEFINE T == S \cup {m}
           new == update_fully(m.id)
<1>1. \A n \in T : n.id \in Int
  BY DEF Messages
<1>2. m.id >= 0 /\ m.id \in Int
  BY <1>1, SentFacts
<1>3. new.default = m.id /\ get_next_id(new) = m.id + 1 /\ \A i : get_index(new, i) = m.id
  BY <1>2, FullySent
<1>4. id < m.id /\ \A n \in S : n.id < m.id
  BY DEF Follows
<1>5. \A i : Carries(m, i)
  BY DEF Carries
<1> HIDE DEF new
<1>6. \A n \in T : IsFull(n) => n.id <= new.default /\ (n.id = new.default => DOMAIN n.value = DOMAIN m.value)
  BY <1>1, <1>3, <1>4
<1>7. IF id < new.default THEN \E n \in T : IsFull(n) /\ n.id = new.default ELSE DOMAIN his = DOMAIN m.value
  BY <1>3, <1>4
<1>8. id < get_next_id(new) /\ \A n \in T : n.id < get_next_id(new)
  BY <1>1, <1>2, <1>3, <1>4
<1>9. \A i \in DOMAIN m.value :
        /\ \A n \in T : Carries(n, i) => n.id <= get_index(new, i)
        /\ id < get_index(new, i) => \E n \in T : Carries(n, i) /\ n.id = get_index(new, i)
  BY <1>1, <1>3, <1>4, <1>5
<1> HIDE DEF T
<1>10. Follows(T, his, id, DOMAIN m.value, new)
  BY <1>6, <1>7, <1>8, <1>9 DEF Follows
<1> QED BY <1>10 DEF T, new

(* A SET that comes next is of indices he has. *)
LEMMA SetFits ==
  ASSUME NEW S \in SUBSET Messages, NEW his, NEW id, Told(S, his, id),
         NEW m \in S, m.what = "SET", \A n \in S \ {m} : m.id < n.id
  PROVE  DOMAIN m.value # {} /\ DOMAIN m.value \subseteq DOMAIN his
<1>1. ASSUME NEW n \in S, IsFull(n) PROVE n.id > m.id
  <2>1. n # m
    BY <1>1 DEF IsFull
  <2>2. n.id \in Int /\ m.id \in Int
    BY DEF Messages
  <2> QED BY <2>1, <2>2
<1> QED BY <1>1 DEF Told

(* He has taken a SET: the rest is as before. *)
LEMMA ToldBySet ==
  ASSUME NEW S \in SUBSET Messages, NEW his, NEW id \in Int, Told(S, his, id),
         NEW m \in S, m.what = "SET", \A n \in S \ {m} : m.id < n.id,
         NEW v, DOMAIN v = DOMAIN his
  PROVE  /\ Told(S \ {m}, v, m.id) /\ m.id > id /\ m.id >= 0
         /\ DOMAIN m.value # {} /\ DOMAIN m.value \subseteq DOMAIN his
<1> DEFINE T == S \ {m}
<1>1. \A n \in S : n.id \in Int
  BY DEF Messages
<1>2. m.id > id /\ id >= -1 /\ ~IsFull(m)
  BY DEF Told, IsFull
<1>3. /\ DOMAIN m.value # {}
      /\ (\A n \in S : IsFull(n) => n.id > m.id) => DOMAIN m.value \subseteq DOMAIN his
  BY DEF Told
<1>4. \A n \in S : IsFull(n) => n.id > m.id
  BY <1>2
<1>5. ASSUME NEW o \in T, o.what = "SET"
      PROVE  /\ DOMAIN o.value # {}
             /\ (\A n \in T : IsFull(n) => n.id > o.id) => DOMAIN o.value \subseteq DOMAIN v
             /\ \A n \in T : Latest(T, n, o) => DOMAIN o.value \subseteq DOMAIN n.value
  <2>1. \A n \in T : Latest(T, n, o) => Latest(S, n, o)
    BY <1>2 DEF Latest
  <2>2. (\A n \in T : IsFull(n) => n.id > o.id) => \A n \in S : IsFull(n) => n.id > o.id
    BY <1>2
  <2>3. o \in S
    OBVIOUS
  <2>4. \A n \in T : n \in S
    OBVIOUS
  <2> HIDE DEF T
  <2> QED BY <1>5, <2>1, <2>2, <2>3, <2>4 DEF Told
<1>6. \A o \in T : o.what = "UNDEF" => DOMAIN o.value = {} /\ (m.id = -1 => \E n \in T : n.id < o.id)
  BY <1>1, <1>2 DEF Told
<1> HIDE DEF T
<1>7. \A o \in T : o.id > m.id
  BY <1>1 DEF T
<1>8. m.id >= -1 /\ m.id >= 0 /\ m.id \in Int
  BY <1>1, <1>2
<1>9. Told(T, v, m.id)
  BY <1>5, <1>6, <1>7, <1>8 DEF Told
<1> QED BY <1>2, <1>3, <1>4, <1>8, <1>9 DEF T

(* He has taken a DEF or UNDEF: what follows is of that. *)
LEMMA ToldByAll ==
  ASSUME NEW S \in SUBSET Messages, NEW his, NEW id \in Int, Told(S, his, id),
         NEW m \in S, IsFull(m), \A n \in S \ {m} : m.id < n.id,
         NEW v, DOMAIN v = DOMAIN m.value
  PROVE  Told(S \ {m}, v, m.id) /\ m.id > id /\ m.id >= 0
<1> DEFINE T == S \ {m}
<1>1. \A n \in S : n.id \in Int
  BY DEF Messages
<1>2. m.id > id /\ id >= -1
  BY DEF Told
<1>3. \A o \in T : o.id > m.id /\ o \in S
  BY <1>1
<1>5. ASSUME NEW o \in T, o.what = "SET"
      PROVE  /\ DOMAIN o.value # {}
             /\ (\A n \in T : IsFull(n) => n.id > o.id) => DOMAIN o.value \subseteq DOMAIN v
             /\ \A n \in T : Latest(T, n, o) => DOMAIN o.value \subseteq DOMAIN n.value
  <2>1. \A n \in T : Latest(T, n, o) => Latest(S, n, o)
    BY <1>1, <1>3 DEF Latest
  <2>2. (\A n \in T : IsFull(n) => n.id > o.id) => Latest(S, m, o)
    <3>1. SUFFICES ASSUME \A n \in T : IsFull(n) => n.id > o.id PROVE Latest(S, m, o)
      OBVIOUS
    <3>2. ASSUME NEW n \in S, IsFull(n), n.id < o.id PROVE n.id <= m.id
      <4>1. n \notin T
        BY <1>1, <1>3, <3>1, <3>2
      <4>2. n = m
        BY <4>1
      <4> QED BY <1>1, <4>2
    <3> QED BY <1>3, <3>2 DEF Latest
  <2> HIDE DEF T
  <2> QED BY <1>3, <1>5, <2>1, <2>2 DEF Told
<1>6. \A o \in T : o.what = "UNDEF" => DOMAIN o.value = {} /\ (m.id = -1 => \E n \in T : n.id < o.id)
  BY <1>1, <1>2 DEF Told
<1> HIDE DEF T
<1>8. m.id >= -1 /\ m.id >= 0 /\ m.id \in Int
  BY <1>1, <1>2
<1>9. Told(T, v, m.id)
  BY <1>3, <1>5, <1>6, <1>8 DEF Told
<1> QED BY <1>2, <1>8, <1>9 DEF T

(* He has taken the earliest of it: he still follows. *)
LEMMA FollowsLess ==
  ASSUME NEW S \in SUBSET Messages, NEW his, NEW id \in Int, NEW sent, NEW ids \in Numbered,
         Sent(ids, sent), Told(S, his, id), Follows(S, his, id, sent, ids),
         NEW m \in S, \A n \in S \ {m} : m.id < n.id,
         NEW v, DOMAIN v = IF IsFull(m) THEN DOMAIN m.value ELSE DOMAIN his
  PROVE  Follows(S \ {m}, v, m.id, sent, ids)
<1> DEFINE T == S \ {m}
<1>1. \A n \in S : n.id \in Int
  BY DEF Messages
<1>2. m.id > id
  BY DEF Told
<1>3. ids.default \in Int /\ \A i : get_index(ids, i) \in Int
  BY SentFacts
<1>4. \A n \in T : IsFull(n) => n.id <= ids.default /\ (n.id = ids.default => DOMAIN n.value = sent)
  BY DEF Follows
<1>5. IF m.id < ids.default THEN \E n \in T : IsFull(n) /\ n.id = ids.default ELSE DOMAIN v = sent
  <2>1. CASE m.id < ids.default
    <3>1. PICK n \in S : IsFull(n) /\ n.id = ids.default
      BY <1>1, <1>2, <1>3, <2>1 DEF Follows
    <3>2. n # m
      BY <1>1, <1>3, <2>1, <3>1
    <3> QED BY <2>1, <3>1, <3>2
  <2>2. CASE ~(m.id < ids.default) /\ IsFull(m)
    <3>1. m.id <= ids.default /\ (m.id = ids.default => DOMAIN m.value = sent)
      BY <2>2 DEF Follows
    <3> QED BY <1>1, <1>3, <2>2, <3>1
  <2>3. CASE ~(m.id < ids.default) /\ ~IsFull(m)
    <3>1. ~(id < ids.default)
      <4>1. SUFFICES ASSUME id < ids.default PROVE FALSE
        OBVIOUS
      <4>2. PICK n \in S : IsFull(n) /\ n.id = ids.default
        BY <4>1 DEF Follows
      <4>3. n # m /\ m.id < n.id
        BY <2>3, <4>2
      <4> QED BY <1>1, <1>3, <2>3, <4>2, <4>3
    <3> QED BY <2>3, <3>1 DEF Follows
  <2> QED BY <2>1, <2>2, <2>3
<1>6. m.id < get_next_id(ids) /\ \A n \in T : n.id < get_next_id(ids)
  BY DEF Follows
<1>7. ASSUME NEW i \in sent
      PROVE  /\ \A n \in T : Carries(n, i) => n.id <= get_index(ids, i)
             /\ m.id < get_index(ids, i) => \E n \in T : Carries(n, i) /\ n.id = get_index(ids, i)
  <2>1. \A n \in S : Carries(n, i) => n.id <= get_index(ids, i)
    BY DEF Follows
  <2>2. ASSUME m.id < get_index(ids, i) PROVE \E n \in T : Carries(n, i) /\ n.id = get_index(ids, i)
    <3>1. id < get_index(ids, i)
      BY <1>1, <1>2, <1>3, <2>2
    <3>2. PICK n \in S : Carries(n, i) /\ n.id = get_index(ids, i)
      BY <3>1 DEF Follows
    <3>3. n # m
      BY <1>1, <1>3, <2>2, <3>2
    <3> QED BY <3>2, <3>3
  <2> QED BY <2>1, <2>2
<1> HIDE DEF T
<1>8. Follows(T, v, m.id, sent, ids)
  BY <1>4, <1>5, <1>6, <1>7 DEF Follows
<1> QED BY <1>8 DEF T

(* What he has now of an index is what was sent, if that was sent last. *)
LEMMA NothingNewer ==
  ASSUME NEW S \in SUBSET Messages, NEW his, NEW id \in Int, NEW sent, NEW ids \in Numbered,
         Sent(ids, sent), Told(S, his, id), Follows(S, his, id, sent, ids), NEW i \in sent,
         get_index(ids, i) <= id
  PROVE  DOMAIN his = sent /\ \A m \in S : ~Carries(m, i)
<1>1. \A n \in S : n.id \in Int
  BY DEF Messages
<1>2. ids.default \in Int /\ get_index(ids, i) \in Int /\ ids.default <= get_index(ids, i)
  BY SentFacts
<1>3. ~(id < ids.default)
  BY <1>2
<1>4. DOMAIN his = sent
  BY <1>3 DEF Follows
<1>5. ASSUME NEW m \in S, Carries(m, i) PROVE FALSE
  <2>1. m.id <= get_index(ids, i) /\ m.id > id
    BY <1>5 DEF Follows, Told
  <2> QED BY <1>1, <1>2, <2>1
<1> QED BY <1>4, <1>5

----------------------------------------------------------------------------
(* What the partner asks for *)

(* His changes of my variable: of what I have sent him last they name indices I sent. *)
Asked(d, sent, ids) ==
  \A a \in DOMAIN d : d[a].what = "MOD" =>
     /\ DOMAIN d[a].value # {} /\ d[a].id < get_next_id(ids)
     /\ d[a].id >= ids.default => DOMAIN d[a].value \subseteq sent

(* They are not newer than what he has. *)
AskedOf(d, id) == \A a \in DOMAIN d : d[a].what = "MOD" => d[a].id <= id

(* Whether he wants the variable is what he told last. *)
FilterTold(d, told, wants) ==
  /\ \A a \in DOMAIN d : d[a].what = "FILT" /\ (\A b \in DOMAIN d : d[b].what = "FILT" => b <= a)
        => d[a].wants = told
  /\ (\A a \in DOMAIN d : d[a].what # "FILT") => wants = told

(* A change of his of an index is taken if I have sent nothing of it that he did not know. *)
Counting(m, i, t) == m.what = "MOD" /\ i \in DOMAIN m.value /\ m.id >= t

(* What he has of the index, y, is what he asked for last, or else mine, x. *)
Back(d, i, t, y, x) ==
  /\ \A a \in DOMAIN d : Counting(d[a], i, t) /\ (\A b \in DOMAIN d : Counting(d[b], i, t) => b <= a)
        => d[a].value[i] = y
  /\ (\A a \in DOMAIN d : ~Counting(d[a], i, t)) => y = x

(* What he asks for stays in order when he sends one more message, or one is taken. *)
LEMMA AskedPut ==
  ASSUME NEW d \in Seq(Messages), NEW m \in Messages, NEW sent, NEW ids, Asked(d, sent, ids),
         m.what = "MOD" => /\ DOMAIN m.value # {} /\ m.id < get_next_id(ids)
                           /\ m.id >= ids.default => DOMAIN m.value \subseteq sent
  PROVE  Asked(d \o <<m>>, sent, ids)
BY PutFacts DEF Asked

(* The first message is taken. *)
LEMMA AskedTake ==
  ASSUME NEW d \in Seq(Messages), d # <<>>, NEW sent, NEW ids, Asked(d, sent, ids)
  PROVE  Asked(Tail(d), sent, ids)
BY TakeFacts DEF Asked

(* The same of what he asked for, as he has numbered it himself. *)
LEMMA AskedOfPut ==
  ASSUME NEW d \in Seq(Messages), NEW m \in Messages, NEW id, AskedOf(d, id),
         m.what = "MOD" => m.id <= id
  PROVE  AskedOf(d \o <<m>>, id)
BY PutFacts DEF AskedOf

(* The first message is taken. *)
LEMMA AskedOfTake ==
  ASSUME NEW d \in Seq(Messages), d # <<>>, NEW id, AskedOf(d, id)
  PROVE  AskedOf(Tail(d), id)
BY TakeFacts DEF AskedOf

(* A FILT that goes is the last he told. *)
LEMMA FilterPut ==
  ASSUME NEW d \in Seq(Messages), NEW m \in Messages, NEW told, NEW wants,
         FilterTold(d, told, wants), NEW new, new = IF m.what = "FILT" THEN m.wants ELSE told
  PROVE  FilterTold(d \o <<m>>, new, wants)
<1> DEFINE t == d \o <<m>>
           n == Len(d) + 1
<1>1. /\ DOMAIN d = 1 .. Len(d) /\ Len(d) \in Nat /\ DOMAIN t = 1 .. n /\ t[n] = m
      /\ \A a \in DOMAIN d : t[a] = d[a]
      /\ \A a \in DOMAIN t : a \in DOMAIN d \/ a = n
  BY PutFacts
<1> HIDE DEF t
<1>2. \A a \in DOMAIN d : a \in DOMAIN t /\ a < n
  BY <1>1
<1>3. n \in DOMAIN t
  BY <1>1
<1>4. CASE m.what = "FILT"
  <2>1. ASSUME NEW a \in DOMAIN t, t[a].what = "FILT", \A b \in DOMAIN t : t[b].what = "FILT" => b <= a
        PROVE  t[a].wants = new
    <3>1. n <= a
      BY <1>1, <1>3, <1>4, <2>1
    <3>2. a = n
      BY <1>1, <2>1, <3>1
    <3> QED BY <1>1, <1>4, <3>2
  <2>2. ~ \A a \in DOMAIN t : t[a].what # "FILT"
    BY <1>1, <1>3, <1>4
  <2>3. FilterTold(t, new, wants)
    BY <2>1, <2>2 DEF FilterTold
  <2> QED BY <2>3 DEF t
<1>5. CASE m.what # "FILT"
  <2>1. ASSUME NEW a \in DOMAIN t, t[a].what = "FILT", \A b \in DOMAIN t : t[b].what = "FILT" => b <= a
        PROVE  t[a].wants = new
    <3>1. a \in DOMAIN d /\ t[a] = d[a]
      BY <1>1, <1>5, <2>1
    <3>2. \A b \in DOMAIN d : d[b].what = "FILT" => b <= a
      BY <1>1, <1>2, <2>1
    <3> QED BY <1>5, <2>1, <3>1, <3>2 DEF FilterTold
  <2>2. (\A a \in DOMAIN t : t[a].what # "FILT") => wants = new
    BY <1>1, <1>2, <1>5 DEF FilterTold
  <2>3. FilterTold(t, new, wants)
    BY <2>1, <2>2 DEF FilterTold
  <2> QED BY <2>3 DEF t
<1> QED BY <1>4, <1>5

(* A FILT that comes is what the owner knows. *)
LEMMA FilterTake ==
  ASSUME NEW d \in Seq(Messages), d # <<>>, NEW told, NEW wants, FilterTold(d, told, wants),
         NEW new, new = IF Head(d).what = "FILT" THEN Head(d).wants ELSE wants
  PROVE  FilterTold(Tail(d), told, new)
<1> DEFINE t == Tail(d)
           h == Head(d)
<1>1. /\ h = d[1] /\ DOMAIN d = 1 .. Len(d) /\ Len(d) \in Nat /\ 1 \in DOMAIN d
      /\ \A a \in DOMAIN t : a \in Nat /\ a + 1 \in DOMAIN d /\ t[a] = d[a + 1]
      /\ \A a \in DOMAIN d : a \in Nat /\ (a # 1 => a - 1 \in DOMAIN t /\ t[a - 1] = d[a])
  BY TakeFacts
<1> HIDE DEF t, h
<1>2. ASSUME NEW a \in DOMAIN t, t[a].what = "FILT", \A b \in DOMAIN t : t[b].what = "FILT" => b <= a
      PROVE  t[a].wants = told
  <2>1. a \in Nat /\ a + 1 \in DOMAIN d /\ t[a] = d[a + 1]
    BY <1>1
  <2>2. ASSUME NEW b \in DOMAIN d, d[b].what = "FILT" PROVE b <= a + 1
    <3>1. CASE b = 1
      BY <2>1, <3>1
    <3>2. CASE b # 1
      <4>1. b \in Nat /\ b - 1 \in DOMAIN t /\ t[b - 1] = d[b]
        BY <1>1, <3>2
      <4>2. b - 1 <= a
        BY <1>2, <2>2, <4>1
      <4> QED BY <2>1, <4>1, <4>2
    <3> QED BY <3>1, <3>2
  <2> QED BY <1>2, <2>1, <2>2 DEF FilterTold
<1>3. ASSUME \A a \in DOMAIN t : t[a].what # "FILT" PROVE new = told
  <2>1. \A b \in DOMAIN d : b # 1 => d[b].what # "FILT"
    BY <1>1, <1>3
  <2>2. CASE h.what = "FILT"
    <3>1. \A b \in DOMAIN d : d[b].what = "FILT" => b <= 1
      BY <1>1, <2>1
    <3>2. d[1].wants = told
      BY <1>1, <2>2, <3>1 DEF FilterTold
    <3> QED BY <1>1, <2>2, <3>2 DEF h
  <2>3. CASE h.what # "FILT"
    <3>1. \A b \in DOMAIN d : d[b].what # "FILT"
      BY <1>1, <2>1, <2>3
    <3> QED BY <2>3, <3>1 DEF FilterTold, h
  <2> QED BY <2>2, <2>3
<1>4. FilterTold(t, told, new)
  BY <1>2, <1>3 DEF FilterTold
<1> QED BY <1>4 DEF t

(* A message that does not count leaves what he has asked for; one that does is it. *)
LEMMA BackPut ==
  ASSUME NEW d \in Seq(Messages), NEW m \in Messages, NEW i, NEW t, NEW y, NEW x,
         IF Counting(m, i, t) THEN m.value[i] = y ELSE Back(d, i, t, y, x)
  PROVE  Back(d \o <<m>>, i, t, y, x)
<1> DEFINE e == d \o <<m>>
           n == Len(d) + 1
<1>1. /\ DOMAIN d = 1 .. Len(d) /\ Len(d) \in Nat /\ DOMAIN e = 1 .. n /\ e[n] = m
      /\ \A a \in DOMAIN d : e[a] = d[a]
      /\ \A a \in DOMAIN e : a \in DOMAIN d \/ a = n
  BY PutFacts
<1> HIDE DEF e
<1>2. \A a \in DOMAIN d : a \in DOMAIN e /\ a < n
  BY <1>1
<1>3. n \in DOMAIN e
  BY <1>1
<1>4. CASE Counting(m, i, t)
  <2>1. ASSUME NEW a \in DOMAIN e, Counting(e[a], i, t), \A b \in DOMAIN e : Counting(e[b], i, t) => b <= a
        PROVE  e[a].value[i] = y
    <3>1. n <= a
      BY <1>1, <1>3, <1>4, <2>1
    <3>2. a = n
      BY <1>1, <2>1, <3>1
    <3> QED BY <1>1, <1>4, <3>2
  <2>2. ~ \A a \in DOMAIN e : ~Counting(e[a], i, t)
    BY <1>1, <1>3, <1>4
  <2>3. Back(e, i, t, y, x)
    BY <2>1, <2>2 DEF Back
  <2> QED BY <2>3 DEF e
<1>5. CASE ~Counting(m, i, t)
  <2>1. ASSUME NEW a \in DOMAIN e, Counting(e[a], i, t), \A b \in DOMAIN e : Counting(e[b], i, t) => b <= a
        PROVE  e[a].value[i] = y
    <3>1. a \in DOMAIN d /\ e[a] = d[a]
      BY <1>1, <1>5, <2>1
    <3>2. \A b \in DOMAIN d : Counting(d[b], i, t) => b <= a
      BY <1>1, <1>2, <2>1
    <3> QED BY <1>5, <2>1, <3>1, <3>2 DEF Back
  <2>2. (\A a \in DOMAIN e : ~Counting(e[a], i, t)) => y = x
    BY <1>1, <1>2, <1>5 DEF Back
  <2>3. Back(e, i, t, y, x)
    BY <2>1, <2>2 DEF Back
  <2> QED BY <2>3 DEF e
<1> QED BY <1>4, <1>5

(* A message of his is taken: mine is as he asked, if it counts. *)
LEMMA BackTake ==
  ASSUME NEW d \in Seq(Messages), d # <<>>, NEW i, NEW t, NEW y, NEW x, Back(d, i, t, y, x),
         NEW w, w = IF Counting(Head(d), i, t) THEN Head(d).value[i] ELSE x
  PROVE  Back(Tail(d), i, t, y, w)
<1> DEFINE e == Tail(d)
           h == Head(d)
<1>1. /\ h = d[1] /\ DOMAIN d = 1 .. Len(d) /\ Len(d) \in Nat /\ 1 \in DOMAIN d
      /\ \A a \in DOMAIN e : a \in Nat /\ a + 1 \in DOMAIN d /\ e[a] = d[a + 1]
      /\ \A a \in DOMAIN d : a \in Nat /\ (a # 1 => a - 1 \in DOMAIN e /\ e[a - 1] = d[a])
  BY TakeFacts
<1> HIDE DEF e, h
<1>2. ASSUME NEW a \in DOMAIN e, Counting(e[a], i, t), \A b \in DOMAIN e : Counting(e[b], i, t) => b <= a
      PROVE  e[a].value[i] = y
  <2>1. a \in Nat /\ a + 1 \in DOMAIN d /\ e[a] = d[a + 1]
    BY <1>1
  <2>2. ASSUME NEW b \in DOMAIN d, Counting(d[b], i, t) PROVE b <= a + 1
    <3>1. CASE b = 1
      BY <2>1, <3>1
    <3>2. CASE b # 1
      <4>1. b \in Nat /\ b - 1 \in DOMAIN e /\ e[b - 1] = d[b]
        BY <1>1, <3>2
      <4>2. b - 1 <= a
        BY <1>2, <2>2, <4>1
      <4> QED BY <2>1, <4>1, <4>2
    <3> QED BY <3>1, <3>2
  <2> QED BY <1>2, <2>1, <2>2 DEF Back
<1>3. ASSUME \A a \in DOMAIN e : ~Counting(e[a], i, t) PROVE y = w
  <2>1. \A b \in DOMAIN d : b # 1 => ~Counting(d[b], i, t)
    BY <1>1, <1>3
  <2>2. CASE Counting(h, i, t)
    <3>1. \A b \in DOMAIN d : Counting(d[b], i, t) => b <= 1
      BY <1>1, <2>1
    <3>2. d[1].value[i] = y
      BY <1>1, <2>2, <3>1 DEF Back
    <3> QED BY <1>1, <2>2, <3>2 DEF h
  <2>3. CASE ~Counting(h, i, t)
    <3>1. \A b \in DOMAIN d : ~Counting(d[b], i, t)
      BY <1>1, <2>1, <2>3
    <3> QED BY <2>3, <3>1 DEF Back, h
  <2> QED BY <2>2, <2>3
<1>4. Back(e, i, t, y, w)
  BY <1>2, <1>3 DEF Back
<1> QED BY <1>4 DEF e

(* With no change of his that counts, he has asked for nothing. *)
LEMMA NoneCounts ==
  ASSUME NEW d \in Seq(Messages), NEW id \in Int, AskedOf(d, id), NEW i, NEW t \in Int, id < t
  PROVE  \A a \in DOMAIN d : ~Counting(d[a], i, t)
<1>1. \A a \in DOMAIN d : d[a].id \in Int
  BY DEF Messages
<1> QED BY <1>1 DEF AskedOf, Counting

(* What he has of each index, once nothing waits or is on its way, is mine; and it will
   be, unless it waits here, or he has asked for something else of what he knew last. *)
Agree(S, d, mine, l, k) ==
  l.to_send.what \in {"none", "update"} =>
    \A i \in l.sent : (l.to_send.what = "update" => i \notin l.to_send.fields) =>
      /\ Coming(S, i, get_index(l.ids, i), mine[i])
      /\ get_index(l.ids, i) <= k.his_id /\ i \notin k.his_to_send.fields =>
           Back(d, i, get_index(l.ids, i), k.his[i], mine[i])

(* All of it; of a partner who is gone on one side only what is still on its way. *)
Agreed(c, d, mine, l, k, both) ==
  /\ InOrder(c) /\ Told(said(c), k.his, k.his_id) /\ Asked(d, l.sent, l.ids)
  /\ both => /\ Follows(said(c), k.his, k.his_id, l.sent, l.ids)
             /\ AskedOf(d, k.his_id) /\ FilterTold(d, k.told_filter, l.wants)
             /\ Agree(said(c), d, mine, l, k)

(* Only these parts of the records count. *)
LEMMA AgreedSame ==
  ASSUME NEW c, NEW d, NEW mine, NEW l, NEW k, NEW n, NEW j, NEW both, Agreed(c, d, mine, l, k, both),
         n.sent = l.sent, n.ids = l.ids, n.to_send = l.to_send, n.wants = l.wants,
         j.his = k.his, j.his_id = k.his_id, j.his_to_send = k.his_to_send,
         j.told_filter = k.told_filter
  PROVE  Agreed(c, d, mine, n, j, both)
<1>1. Agree(said(c), d, mine, l, k) => Agree(said(c), d, mine, n, j)
  BY DEF Agree
<1> QED BY <1>1 DEF Agreed

(* Other messages of the owner, and of his partner *)
LEMMA PutOther ==
  ASSUME NEW c \in Seq(Messages), NEW d, NEW mine, NEW l, NEW k, NEW both,
         Agreed(c, d, mine, l, k, both), NEW m \in Messages, ~Says(m)
  PROVE  Agreed(c \o <<m>>, d, mine, l, k, both)
<1>1. InOrder(c)
  BY DEF Agreed
<1>2. said(c \o <<m>>) = said(c) /\ InOrder(c \o <<m>>)
  BY <1>1, PutSaid DEF SaidNow
<1> QED BY <1>2 DEF Agreed

(* His partner takes such a message. *)
LEMMA TakeOther ==
  ASSUME NEW c \in Seq(Messages), NEW d, NEW mine, NEW l, NEW k, NEW both,
         Agreed(c, d, mine, l, k, both), c # <<>>, ~Says(Head(c))
  PROVE  Agreed(Tail(c), d, mine, l, k, both)
<1>1. InOrder(c)
  BY DEF Agreed
<1>2. said(Tail(c)) = said(c) /\ InOrder(Tail(c))
  BY <1>1, TakeSaid DEF SaidNow
<1> QED BY <1>2 DEF Agreed

(* The partner sends what asks for nothing. *)
LEMMA AskOther ==
  ASSUME NEW c, NEW d \in Seq(Messages), NEW mine, NEW l, NEW k, NEW both,
         Agreed(c, d, mine, l, k, both), NEW m \in Messages, m.what \notin {"MOD", "FILT"}
  PROVE  Agreed(c, d \o <<m>>, mine, l, k, both)
<1>1. Asked(d \o <<m>>, l.sent, l.ids)
  BY AskedPut DEF Agreed
<1>2. both => AskedOf(d \o <<m>>, k.his_id) /\ FilterTold(d \o <<m>>, k.told_filter, l.wants)
  BY AskedOfPut, FilterPut DEF Agreed
<1>3. \A i, t, y, x : Back(d, i, t, y, x) => Back(d \o <<m>>, i, t, y, x)
  <2>1. \A i, t : ~Counting(m, i, t)
    BY DEF Counting
  <2> QED BY <2>1, BackPut
<1>4. both => Agree(said(c), d \o <<m>>, mine, l, k)
  BY <1>3 DEF Agreed, Agree
<1> QED BY <1>1, <1>2, <1>4 DEF Agreed

(* The owner takes what asks for nothing. *)
LEMMA AskedOther ==
  ASSUME NEW c, NEW d \in Seq(Messages), NEW mine, NEW l, NEW k, NEW both,
         Agreed(c, d, mine, l, k, both), d # <<>>, Head(d).what \notin {"MOD", "FILT"}
  PROVE  Agreed(c, Tail(d), mine, l, k, both)
<1>1. Asked(Tail(d), l.sent, l.ids)
  BY AskedTake DEF Agreed
<1>2. both => AskedOf(Tail(d), k.his_id) /\ FilterTold(Tail(d), k.told_filter, l.wants)
  BY AskedOfTake, FilterTake DEF Agreed
<1>3. \A i, t, y, x : Back(d, i, t, y, x) => Back(Tail(d), i, t, y, x)
  <2>1. \A i, t : ~Counting(Head(d), i, t)
    BY DEF Counting
  <2> QED BY <2>1, BackTake
<1>4. both => Agree(said(c), Tail(d), mine, l, k)
  BY <1>3 DEF Agreed, Agree
<1> QED BY <1>1, <1>2, <1>4 DEF Agreed

(* One side is gone. *)
LEMMA AgreedHalf ==
  ASSUME NEW c, NEW d, NEW mine, NEW l, NEW k, NEW both, Agreed(c, d, mine, l, k, both)
  PROVE  /\ Agreed(c, d, mine, l, k, FALSE)
         /\ \A x, n : Asked(d, n.sent, n.ids) => Agreed(c, d, x, n, k, FALSE)
BY DEF Agreed

(* The changes of his variable he has made here are sent. *)
LEMMA HisSent ==
  ASSUME NEW c \in Seq(Messages), NEW d \in Seq(Messages), NEW mine, NEW l \in Links, NEW k \in Links,
         Agreed(c, d, mine, l, k, TRUE),
         Sent(l.ids, l.sent),
         NEW m \in Messages, m.what = "MOD", m.id = k.his_id,
         k.his_to_send.fields # {}, k.his_to_send.fields \subseteq DOMAIN k.his,
         DOMAIN m.value = k.his_to_send.fields, \A i \in DOMAIN m.value : m.value[i] = k.his[i],
         NEW j, j.his = k.his, j.his_id = k.his_id, j.his_to_send.fields = {},
         j.told_filter = k.told_filter
  PROVE  Agreed(c, d \o <<m>>, mine, l, j, TRUE)
<1> DEFINE S == said(c)
           e == d \o <<m>>
<1>1. /\ InOrder(c) /\ Told(S, k.his, k.his_id) /\ Asked(d, l.sent, l.ids)
      /\ Follows(S, k.his, k.his_id, l.sent, l.ids)
      /\ AskedOf(d, k.his_id) /\ FilterTold(d, k.told_filter, l.wants)
      /\ Agree(S, d, mine, l, k)
  BY DEF Agreed
<1>2. k.his_id \in Int /\ l.ids \in Numbered
  BY DEF Links
<1>3. l.ids.default \in Int /\ k.his_id < get_next_id(l.ids)
  BY <1>1, <1>2, SentFacts DEF Follows
<1>4. m.id >= l.ids.default => DOMAIN m.value \subseteq l.sent
  BY <1>1, <1>2, <1>3 DEF Follows
<1>5. Asked(e, l.sent, l.ids)
  BY <1>1, <1>3, <1>4, AskedPut
<1>6. AskedOf(e, k.his_id) /\ FilterTold(e, k.told_filter, l.wants)
  BY <1>1, <1>2, AskedOfPut, FilterPut
<1>7. ASSUME l.to_send.what \in {"none", "update"}, NEW i \in l.sent,
             l.to_send.what = "update" => i \notin l.to_send.fields
      PROVE  /\ Coming(S, i, get_index(l.ids, i), mine[i])
             /\ get_index(l.ids, i) <= j.his_id =>
                  Back(e, i, get_index(l.ids, i), j.his[i], mine[i])
  <2>1. /\ Coming(S, i, get_index(l.ids, i), mine[i])
        /\ get_index(l.ids, i) <= k.his_id /\ i \notin k.his_to_send.fields =>
             Back(d, i, get_index(l.ids, i), k.his[i], mine[i])
    BY <1>1, <1>7 DEF Agree
  <2>2. ASSUME get_index(l.ids, i) <= k.his_id
        PROVE  Back(e, i, get_index(l.ids, i), k.his[i], mine[i])
    <3>1. get_index(l.ids, i) \in Int
      BY <1>1, <1>2, SentFacts
    <3>2. Counting(m, i, get_index(l.ids, i)) <=> i \in k.his_to_send.fields
      BY <1>2, <2>2, <3>1 DEF Counting
    <3>3. IF Counting(m, i, get_index(l.ids, i)) THEN m.value[i] = k.his[i]
          ELSE Back(d, i, get_index(l.ids, i), k.his[i], mine[i])
      BY <2>1, <2>2, <3>2
    <3> QED BY <3>3, BackPut
  <2> QED BY <2>1, <2>2
<1> HIDE DEF S, e
<1>8. Agree(S, e, mine, l, j)
  BY <1>7 DEF Agree
<1>9. Told(S, j.his, j.his_id) /\ Follows(S, j.his, j.his_id, l.sent, l.ids)
      /\ AskedOf(e, j.his_id) /\ FilterTold(e, j.told_filter, l.wants)
  BY <1>1, <1>6
<1> QED BY <1>1, <1>5, <1>8, <1>9 DEF Agreed, S, e

(* A change of his variable waits. *)
LEMMA HisChanged ==
  ASSUME NEW c \in Seq(Messages), NEW d, NEW mine, NEW l \in Links, NEW k \in Links, NEW both,
         Agreed(c, d, mine, l, k, both), Sent(l.ids, l.sent),
         NEW j, DOMAIN j.his = DOMAIN k.his, k.his # Undefined,
         k.his_to_send.fields \subseteq j.his_to_send.fields,
         \A i \in DOMAIN k.his : i \notin j.his_to_send.fields => j.his[i] = k.his[i],
         j.his_id = k.his_id, j.told_filter = k.told_filter
  PROVE  Agreed(c, d, mine, l, j, both)
<1>1. Told(said(c), j.his, j.his_id)
  BY DEF Agreed, Told
<1>2. both => Follows(said(c), j.his, j.his_id, l.sent, l.ids)
  BY DEF Agreed, Follows
<1>3. ASSUME both PROVE Agree(said(c), d, mine, l, j)
  <2>1. PICK S, his, id, sent, ids :
          S = said(c) /\ his = k.his /\ id = k.his_id /\ sent = l.sent /\ ids = l.ids
    OBVIOUS
  <2>2. /\ id \in Int /\ ids \in Numbered /\ Sent(ids, sent) /\ S \in SUBSET Messages
        /\ Told(S, his, id) /\ Follows(S, his, id, sent, ids)
    BY <1>3, <2>1, SaidType DEF Agreed, Links
  <2>3. ASSUME NEW i \in sent, get_index(ids, i) <= id PROVE i \in DOMAIN his
    <3>1. /\ id \in Int /\ ids \in Numbered /\ Sent(ids, sent) /\ Told(S, his, id)
          /\ Follows(S, his, id, sent, ids) /\ S \in SUBSET Messages
          /\ i \in sent /\ get_index(ids, i) <= id
      BY <2>2, <2>3
    <3>2. DOMAIN his = sent /\ \A m \in S : ~Carries(m, i)
      BY <3>1, NothingNewer
    <3> QED BY <3>2
  <2>4. Agree(S, d, mine, l, k)
    BY <1>3, <2>1 DEF Agreed
  <2> QED BY <2>1, <2>3, <2>4 DEF Agree
<1> QED BY <1>1, <1>2, <1>3 DEF Agreed

(* Whether he wants the variable is told him. *)
LEMMA FilterSent ==
  ASSUME NEW c, NEW d \in Seq(Messages), NEW mine, NEW l, NEW k, NEW both,
         Agreed(c, d, mine, l, k, both), NEW m \in Messages, m.what = "FILT",
         NEW j, j.his = k.his, j.his_id = k.his_id, j.his_to_send = k.his_to_send,
         j.told_filter = m.wants
  PROVE  Agreed(c, d \o <<m>>, mine, l, j, both)
<1>1. Asked(d \o <<m>>, l.sent, l.ids)
  BY AskedPut DEF Agreed
<1>2. both => AskedOf(d \o <<m>>, k.his_id) /\ FilterTold(d \o <<m>>, m.wants, l.wants)
  BY AskedOfPut, FilterPut DEF Agreed
<1>3. \A i, t, y, x : Back(d, i, t, y, x) => Back(d \o <<m>>, i, t, y, x)
  <2>1. \A i, t : ~Counting(m, i, t)
    BY DEF Counting
  <2> QED BY <2>1, BackPut
<1>4. both => Agree(said(c), d \o <<m>>, mine, l, j)
  BY <1>3 DEF Agreed, Agree
<1> QED BY <1>1, <1>2, <1>4 DEF Agreed

(* The message made of what waits, e, and the numbers then. *)
SendsNow(l, e, m, n) ==
  /\ Says(m) /\ m.id = get_next_id(l.ids)
  /\ m.what = "SET" <=> e.what = "update"
  /\ m.what = "UNDEF" <=> e.what = "undefine"
  /\ DOMAIN m.value = e.fields /\ \A i \in e.fields : m.value[i] = e.value[i]
  /\ n.to_send.what = "none" /\ n.wants = l.wants /\ n.sent = DOMAIN e.value
  /\ n.ids = IF e.what = "update" THEN update_from_variable(l.ids, e.fields, m.id)
             ELSE update_fully(m.id)

(* What waits, as a set of indices and values of mine. *)
LEMMA WaitsFacts ==
  ASSUME NEW l \in Links, NEW mine \in Variable, Coherent(l, mine), Owned(l, mine),
         l.to_send.what # "none"
  PROVE  LET e == l.to_send
         IN  /\ e.what \in {"define", "update", "undefine"} /\ l.ids \in Numbered
             /\ l.sent \in SUBSET Nat /\ IsFiniteSet(e.fields) /\ Sent(l.ids, l.sent)
             /\ e.fields \subseteq DOMAIN e.value
             /\ e.what \in {"define", "update"} => e.value = mine /\ e.fields # {} /\ l.wants
             /\ e.what = "define" => e.fields = DOMAIN e.value
             /\ e.what = "update" => l.sent = DOMAIN mine
             /\ e.what = "undefine" => /\ l.sent # {} /\ e.fields = {} /\ DOMAIN e.value = {}
                                       /\ (l.wants => DOMAIN mine = {})
<1> DEFINE e == l.to_send
<1>1. e \in Events /\ l.ids \in Numbered /\ l.sent \in SUBSET Nat
  BY DEF Links
<1>2. e.what \in {"define", "update", "undefine"}
  BY <1>1 DEF Events
<1>3. DOMAIN Undefined = {}
  BY DEF Undefined
<1>4. e.what \in {"define", "update"} => e.value = mine /\ e.fields # {} /\ l.wants
        /\ e.fields \subseteq DOMAIN e.value /\ (e.what = "define" => e.fields = DOMAIN e.value)
  BY DEF Coherent, Owned
<1>5. e.what = "undefine" => /\ l.sent # {} /\ e.fields = {} /\ DOMAIN e.value = {}
                             /\ (l.wants => DOMAIN mine = {})
  BY <1>3 DEF Coherent, Owned
<1>6. e.what = "update" => l.sent = DOMAIN mine
  BY DEF Owned
<1>7. Sent(l.ids, l.sent)
  BY DEF Owned
<1>8. IsFiniteSet(e.fields)
  <2>1. IsFiniteSet(DOMAIN mine)
    BY VariableFacts
  <2>2. e.what \in {"define", "update"} => e.fields \subseteq DOMAIN mine
    BY <1>4
  <2> HIDE DEF e
  <2> QED BY <1>2, <1>5, <2>1, <2>2, FS_Subset, FS_EmptySet
<1> HIDE DEF e
<1> QED BY <1>1, <1>2, <1>4, <1>5, <1>6, <1>7, <1>8 DEF e

(* What waits is sent, and what the owner holds is of his variable again. *)
LEMMA OwnedSent ==
  ASSUME NEW l \in Links, NEW mine \in Variable, Coherent(l, mine), Owned(l, mine),
         l.to_send.what # "none", NEW m, NEW n, SendsNow(l, l.to_send, m, n)
  PROVE  /\ Owned(n, mine) /\ m.id < get_next_id(n.ids)
         /\ \A d : d \in Seq(Messages) /\ Asked(d, l.sent, l.ids) => Asked(d, n.sent, n.ids)
<1> DEFINE e == l.to_send
<1>1. /\ e.what \in {"define", "update", "undefine"} /\ l.ids \in Numbered
      /\ l.sent \in SUBSET Nat /\ IsFiniteSet(e.fields) /\ Sent(l.ids, l.sent)
      /\ e.fields \subseteq DOMAIN e.value
      /\ e.what \in {"define", "update"} => e.value = mine /\ e.fields # {} /\ l.wants
      /\ e.what = "define" => e.fields = DOMAIN e.value
      /\ e.what = "update" => l.sent = DOMAIN mine
      /\ e.what = "undefine" => /\ l.sent # {} /\ e.fields = {} /\ DOMAIN e.value = {}
                                /\ (l.wants => DOMAIN mine = {})
  BY WaitsFacts
<1>2. /\ m.id = get_next_id(l.ids) /\ n.to_send.what = "none" /\ n.wants = l.wants
      /\ n.sent = DOMAIN e.value
      /\ n.ids = IF e.what = "update" THEN update_from_variable(l.ids, e.fields, m.id)
                 ELSE update_fully(m.id)
  BY DEF SendsNow
<1>3. m.id \in Int /\ m.id >= 0 /\ l.ids.default \in Int
  BY <1>1, <1>2, SentFacts
<1> HIDE DEF e
<1>4. n.sent = IF n.wants THEN DOMAIN mine ELSE {}
  BY <1>1, <1>2
<1>5. CASE e.what = "update"
  <2>1. e.fields \in SUBSET l.sent /\ e.fields # {}
    BY <1>1, <1>5
  <2>2. /\ Sent(n.ids, l.sent) /\ n.ids.default = l.ids.default /\ n.ids \in Numbered
        /\ m.id < get_next_id(n.ids)
    BY <1>1, <1>2, <1>5, <2>1, PartlySent
  <2>3. n.sent = l.sent
    BY <1>1, <1>2, <1>5
  <2>4. Owned(n, mine)
    BY <1>2, <1>4, <2>2, <2>3 DEF Owned
  <2>5. ASSUME NEW d \in Seq(Messages), Asked(d, l.sent, l.ids) PROVE Asked(d, n.sent, n.ids)
    <3>1. \A a \in DOMAIN d : d[a].id \in Int
      BY DEF Messages
    <3>2. get_next_id(n.ids) \in Int
      BY <2>2, NextIsNew
    <3> QED BY <1>2, <1>3, <2>2, <2>3, <2>5, <3>1, <3>2 DEF Asked
  <2> QED BY <2>2, <2>4, <2>5
<1>6. CASE e.what # "update"
  <2>1. /\ Sent(n.ids, n.sent) /\ n.ids.default = m.id /\ get_next_id(n.ids) = m.id + 1
    BY <1>2, <1>3, <1>6, FullySent
  <2>2. Owned(n, mine)
    BY <1>2, <1>4, <2>1 DEF Owned
  <2>3. ASSUME NEW d \in Seq(Messages), Asked(d, l.sent, l.ids) PROVE Asked(d, n.sent, n.ids)
    <3>1. \A a \in DOMAIN d : d[a].id \in Int
      BY DEF Messages
    <3> QED BY <1>2, <1>3, <2>1, <2>3, <3>1 DEF Asked
  <2> QED BY <1>3, <2>1, <2>2, <2>3
<1> QED BY <1>5, <1>6

(* What waits for him is sent: what is in it he will have, and what he has asked of it
   before counts no more. *)
LEMMA MineSent ==
  ASSUME NEW c \in Seq(Messages), NEW d \in Seq(Messages), NEW mine \in Variable,
         NEW l \in Links, NEW k \in Links, Coherent(l, mine), Owned(l, mine),
         l.to_send.what # "none", NEW m \in Messages, NEW n, SendsNow(l, l.to_send, m, n),
         Agreed(c, d, mine, l, k, TRUE)
  PROVE  Agreed(c \o <<m>>, d, mine, n, k, TRUE)
<1> DEFINE e == l.to_send
           S == said(c)
           T == S \cup {m}
<1>1. /\ e.what \in {"define", "update", "undefine"} /\ l.ids \in Numbered
      /\ l.sent \in SUBSET Nat /\ IsFiniteSet(e.fields) /\ Sent(l.ids, l.sent)
      /\ e.fields \subseteq DOMAIN e.value
      /\ e.what \in {"define", "update"} => e.value = mine /\ e.fields # {} /\ l.wants
      /\ e.what = "define" => e.fields = DOMAIN e.value
      /\ e.what = "update" => l.sent = DOMAIN mine
      /\ e.what = "undefine" => /\ l.sent # {} /\ e.fields = {} /\ DOMAIN e.value = {}
                                /\ (l.wants => DOMAIN mine = {})
  BY WaitsFacts
<1>2. /\ Says(m) /\ m.id = get_next_id(l.ids)
      /\ m.what = "SET" <=> e.what = "update"
      /\ m.what = "UNDEF" <=> e.what = "undefine"
      /\ DOMAIN m.value = e.fields /\ \A i \in e.fields : m.value[i] = e.value[i]
      /\ n.to_send.what = "none" /\ n.wants = l.wants /\ n.sent = DOMAIN e.value
      /\ n.ids = IF e.what = "update" THEN update_from_variable(l.ids, e.fields, m.id)
                 ELSE update_fully(m.id)
  BY DEF SendsNow
<1>3. /\ InOrder(c) /\ Told(S, k.his, k.his_id) /\ Asked(d, l.sent, l.ids)
      /\ Follows(S, k.his, k.his_id, l.sent, l.ids)
      /\ AskedOf(d, k.his_id) /\ FilterTold(d, k.told_filter, l.wants)
      /\ Agree(S, d, mine, l, k)
  BY DEF Agreed
<1>4. k.his_id \in Int /\ S \in SUBSET Messages /\ \A o \in S : o.id \in Int
  BY SaidType DEF Links
<1>5. DOMAIN Undefined = {}
  BY DEF Undefined
<1> HIDE DEF e, S
<1>6. Told(T, k.his, k.his_id) /\ \A o \in S : o.id < m.id
  <2>1. /\ m.what = "SET" => DOMAIN m.value # {} /\ DOMAIN m.value \subseteq l.sent
        /\ m.what = "UNDEF" => DOMAIN m.value = {} /\ l.sent # {}
    BY <1>1, <1>2
  <2>2. PICK sent, ids, his, id : sent = l.sent /\ ids = l.ids /\ his = k.his /\ id = k.his_id
    OBVIOUS
  <2>3. /\ id \in Int /\ ids \in Numbered /\ Sent(ids, sent) /\ Told(S, his, id)
        /\ Follows(S, his, id, sent, ids) /\ m.id = get_next_id(ids)
        /\ m.what = "SET" => DOMAIN m.value # {} /\ DOMAIN m.value \subseteq sent
        /\ m.what = "UNDEF" => DOMAIN m.value = {} /\ sent # {}
        /\ S \in SUBSET Messages /\ Says(m) /\ m \in Messages
    BY <1>1, <1>2, <1>3, <1>4, <2>1, <2>2
  <2>4. Told(T, his, id) /\ \A o \in S : o.id < m.id
    BY <2>3, ToldMore
  <2> QED BY <2>2, <2>4
<1>7. said(c \o <<m>>) = T /\ InOrder(c \o <<m>>)
  BY <1>2, <1>3, <1>6, PutSaid DEF SaidNow, S
<1>8. Asked(d, n.sent, n.ids)
  BY <1>3, OwnedSent DEF e
<1>9. m.id \in Int /\ k.his_id < m.id /\ m.id >= 0
  BY <1>1, <1>2, <1>3, SentFacts DEF Follows
<1>12. /\ Follows(T, k.his, k.his_id, n.sent, n.ids)
       /\ \A i \in n.sent :
            /\ Coming(T, i, get_index(n.ids, i), mine[i])
            /\ get_index(n.ids, i) <= k.his_id /\ i \notin k.his_to_send.fields =>
                 Back(d, i, get_index(n.ids, i), k.his[i], mine[i])
  <2>1. CASE e.what = "update"
    <3>1. e.fields \in SUBSET l.sent /\ e.fields # {} /\ n.sent = l.sent /\ m.what = "SET" /\ e.value = mine
      BY <1>1, <1>2, <2>1
    <3>2. Follows(T, k.his, k.his_id, n.sent, n.ids)
      <4>1. PICK sent, ids, his, id, new : /\ sent = l.sent /\ ids = l.ids /\ his = k.his /\ id = k.his_id
                                           /\ new = n.ids
        OBVIOUS
      <4>2. /\ id \in Int /\ ids \in Numbered /\ sent \in SUBSET Nat /\ Sent(ids, sent)
            /\ Follows(S, his, id, sent, ids) /\ m.id = get_next_id(ids) /\ m.what = "SET"
            /\ DOMAIN m.value # {} /\ DOMAIN m.value \subseteq sent /\ IsFiniteSet(DOMAIN m.value)
            /\ new = update_from_variable(ids, DOMAIN m.value, m.id)
        BY <1>1, <1>2, <1>3, <1>4, <2>1, <3>1, <4>1
      <4>3. Follows(T, his, id, sent, new)
        BY <1>4, <4>2, FollowsSome
      <4> QED BY <3>1, <4>1, <4>3
    <3>3. \A i : get_index(n.ids, i) = IF i \in e.fields THEN m.id ELSE get_index(l.ids, i)
      BY <1>1, <1>2, <2>1, <3>1, PartlySent, SMTT(15)
    <3>4. \A i : Carries(m, i) <=> i \in e.fields
      BY <1>2, <3>1 DEF Carries, IsFull
    <3>5. ASSUME NEW i \in n.sent
          PROVE  /\ Coming(T, i, get_index(n.ids, i), mine[i])
                 /\ get_index(n.ids, i) <= k.his_id /\ i \notin k.his_to_send.fields =>
                      Back(d, i, get_index(n.ids, i), k.his[i], mine[i])
      <4>1. CASE i \in e.fields
        <5>1. get_index(n.ids, i) = m.id
          BY <3>3, <4>1
        <5>2. Coming(T, i, m.id, mine[i])
          BY <1>2, <1>4, <1>6, <1>9, <3>1, <4>1 DEF Coming
        <5> QED BY <1>4, <1>9, <5>1, <5>2
      <4>2. CASE i \notin e.fields
        <5>1. get_index(n.ids, i) = get_index(l.ids, i) /\ ~Carries(m, i)
          BY <3>3, <3>4, <4>2
        <5>2. /\ Coming(S, i, get_index(l.ids, i), mine[i])
              /\ get_index(l.ids, i) <= k.his_id /\ i \notin k.his_to_send.fields =>
                   Back(d, i, get_index(l.ids, i), k.his[i], mine[i])
          BY <1>3, <2>1, <3>1, <4>2 DEF Agree, e
        <5>3. Coming(T, i, get_index(l.ids, i), mine[i])
          BY <5>1, <5>2 DEF Coming
        <5> QED BY <5>1, <5>2, <5>3
      <4> QED BY <4>1, <4>2
    <3> QED BY <3>2, <3>5
  <2>2. CASE e.what # "update"
    <3>1. IsFull(m) /\ n.sent = DOMAIN m.value /\ n.ids = update_fully(m.id)
      BY <1>1, <1>2, <2>2 DEF IsFull, Says
    <3>2. Follows(T, k.his, k.his_id, n.sent, n.ids)
      <4>1. PICK sent, ids, his, id : sent = l.sent /\ ids = l.ids /\ his = k.his /\ id = k.his_id
        OBVIOUS
      <4>2. /\ id \in Int /\ ids \in Numbered /\ Sent(ids, sent)
            /\ Follows(S, his, id, sent, ids) /\ m.id = get_next_id(ids)
        BY <1>1, <1>2, <1>3, <1>4, <4>1
      <4>3. Follows(T, his, id, DOMAIN m.value, update_fully(m.id))
        BY <1>4, <3>1, <4>2, FollowsAll
      <4> QED BY <3>1, <4>1, <4>3
    <3>3. \A i : get_index(n.ids, i) = m.id
      BY <1>9, <3>1, FullySent
    <3>4. ASSUME NEW i \in n.sent
          PROVE  /\ Coming(T, i, get_index(n.ids, i), mine[i])
                 /\ get_index(n.ids, i) <= k.his_id /\ i \notin k.his_to_send.fields =>
                      Back(d, i, get_index(n.ids, i), k.his[i], mine[i])
      <4>1. i \in e.fields /\ e.value = mine /\ m.value[i] = mine[i]
        BY <1>1, <1>2, <2>2, <3>1
      <4>2. Coming(T, i, m.id, mine[i])
        BY <1>4, <1>6, <1>9, <4>1 DEF Coming
      <4> QED BY <1>4, <1>9, <3>3, <4>2
    <3> QED BY <3>2, <3>4
  <2> QED BY <2>1, <2>2
<1> HIDE DEF T
<1>14. Agree(T, d, mine, n, k)
  BY <1>2, <1>12 DEF Agree
<1>13. FilterTold(d, k.told_filter, n.wants)
  BY <1>2, <1>3
<1> QED BY <1>3, <1>6, <1>7, <1>8, <1>12, <1>13, <1>14 DEF Agreed

(* He takes a SET, DEF or UNDEF: what he has now is what was sent then. *)
LEMMA HisTaken ==
  ASSUME NEW c \in Seq(Messages), NEW d \in Seq(Messages), NEW mine, NEW l \in Links, NEW k \in Links,
         NEW both \in BOOLEAN, Agreed(c, d, mine, l, k, both), Sent(l.ids, l.sent), c # <<>>,
         NEW h, h = Head(c), Says(h), NEW j, j.his_id = h.id, j.told_filter = k.told_filter,
         IsFull(h) => DOMAIN j.his = DOMAIN h.value /\ \A i \in DOMAIN h.value : j.his[i] = h.value[i],
         ~IsFull(h) => /\ DOMAIN j.his = DOMAIN k.his
                       /\ \A i \in DOMAIN k.his :
                            j.his[i] = IF i \in DOMAIN h.value THEN h.value[i] ELSE k.his[i]
                       /\ \A i \in k.his_to_send.fields :
                            i \notin DOMAIN h.value => i \in j.his_to_send.fields
  PROVE  Agreed(Tail(c), d, mine, l, j, both)
<1> DEFINE S == said(c)
           T == S \ {h}
<1>1. InOrder(c) /\ Told(S, k.his, k.his_id) /\ Asked(d, l.sent, l.ids)
  BY DEF Agreed
<1>2. /\ said(Tail(c)) = T /\ InOrder(Tail(c)) /\ h \in S /\ \A n \in T : h.id < n.id
  BY <1>1, TakeSaid DEF SaidNow
<1>3. /\ S \in SUBSET Messages /\ (\A o \in S : o.id \in Int) /\ k.his_id \in Int /\ l.ids \in Numbered
  BY SaidType DEF Links
<1> HIDE DEF S
<1>4. ~IsFull(h) => h.what = "SET"
  BY DEF IsFull, Says
<1>5. Told(T, j.his, j.his_id) /\ h.id > k.his_id
      /\ (~IsFull(h) => DOMAIN h.value \subseteq DOMAIN k.his)
  <2>1. PICK id, his, v : id = k.his_id /\ his = k.his /\ v = j.his
    OBVIOUS
  <2>2. CASE IsFull(h)
    <3>1. DOMAIN v = DOMAIN h.value
      BY <2>1, <2>2
    <3>2. Told(S, his, id) /\ id \in Int
      BY <1>1, <1>3, <2>1
    <3>3. Told(T, v, h.id) /\ h.id > id
      BY <1>2, <1>3, <2>2, <3>1, <3>2, ToldByAll
    <3> QED BY <2>1, <2>2, <3>3
  <2>3. CASE ~IsFull(h)
    <3>1. DOMAIN v = DOMAIN his /\ h.what = "SET"
      BY <1>4, <2>1, <2>3
    <3>2. Told(S, his, id) /\ id \in Int
      BY <1>1, <1>3, <2>1
    <3>3. Told(T, v, h.id) /\ h.id > id /\ DOMAIN h.value \subseteq DOMAIN his
      BY <1>2, <1>3, <3>1, <3>2, ToldBySet
    <3> QED BY <2>1, <3>3
  <2> QED BY <2>2, <2>3
<1>6. ASSUME both
      PROVE  /\ Follows(T, j.his, j.his_id, l.sent, l.ids)
             /\ AskedOf(d, j.his_id) /\ FilterTold(d, j.told_filter, l.wants)
             /\ Agree(T, d, mine, l, j)
  <2>1. /\ Follows(S, k.his, k.his_id, l.sent, l.ids)
        /\ AskedOf(d, k.his_id) /\ FilterTold(d, k.told_filter, l.wants)
        /\ Agree(S, d, mine, l, k)
    BY <1>6 DEF Agreed, S
  <2>2. Follows(T, j.his, j.his_id, l.sent, l.ids)
    <3>1. PICK id, his, v, sent, ids : id = k.his_id /\ his = k.his /\ v = j.his /\ sent = l.sent
                                       /\ ids = l.ids
      OBVIOUS
    <3>2. /\ id \in Int /\ ids \in Numbered /\ Sent(ids, sent) /\ Told(S, his, id)
          /\ Follows(S, his, id, sent, ids) /\ S \in SUBSET Messages
          /\ h \in S /\ \A n \in S \ {h} : h.id < n.id
          /\ DOMAIN v = IF IsFull(h) THEN DOMAIN h.value ELSE DOMAIN his
      BY <1>1, <1>2, <1>3, <2>1, <3>1
    <3>3. Follows(T, v, h.id, sent, ids)
      BY <3>2, FollowsLess
    <3> QED BY <3>1, <3>3
  <2>3. AskedOf(d, j.his_id)
    <3>1. \A a \in DOMAIN d : d[a].id \in Int
      BY DEF Messages
    <3> QED BY <1>2, <1>3, <1>5, <2>1, <3>1 DEF AskedOf
  <2>4. ASSUME NEW i \in l.sent, NEW t, t = get_index(l.ids, i), Coming(S, i, t, mine[i]),
               t <= k.his_id /\ i \notin k.his_to_send.fields => Back(d, i, t, k.his[i], mine[i])
        PROVE  /\ Coming(T, i, t, mine[i])
               /\ t <= j.his_id /\ i \notin j.his_to_send.fields => Back(d, i, t, j.his[i], mine[i])
    <3>1. Coming(T, i, t, mine[i])
      BY <2>4 DEF Coming
    <3>2. t \in Int /\ l.ids.default \in Int /\ l.ids.default <= t
      BY <1>3, <2>4, SentFacts
    <3>3. ASSUME t <= h.id, i \notin j.his_to_send.fields PROVE Back(d, i, t, j.his[i], mine[i])
      <4>1. CASE Carries(h, i)
        <5>1. h.id = t /\ k.his_id < t
          BY <1>2, <1>3, <1>5, <2>1, <2>4, <3>2, <3>3, <4>1 DEF Follows
        <5>2. h.value[i] = mine[i]
          BY <1>2, <2>4, <4>1, <5>1 DEF Coming
        <5>3. j.his[i] = h.value[i]
          <6>1. CASE IsFull(h)
            <7>1. DOMAIN h.value = l.sent
              BY <1>2, <1>3, <2>1, <3>2, <5>1, <6>1 DEF Follows
            <7> QED BY <6>1, <7>1
          <6>2. CASE ~IsFull(h)
            <7>1. i \in DOMAIN h.value /\ i \in DOMAIN k.his
              BY <1>5, <4>1, <6>2 DEF Carries
            <7> QED BY <6>2, <7>1
          <6> QED BY <6>1, <6>2
        <5>4. \A a \in DOMAIN d : ~Counting(d[a], i, t)
          BY <1>3, <2>1, <3>2, <5>1, NoneCounts
        <5> QED BY <5>2, <5>3, <5>4 DEF Back
      <4>2. CASE ~Carries(h, i)
        <5>1. ~IsFull(h) /\ i \notin DOMAIN h.value
          BY <1>4, <4>2 DEF Carries
        <5>2. t <= k.his_id
          <6>1. SUFFICES ASSUME k.his_id < t PROVE FALSE
            BY <1>3, <3>2
          <6>2. PICK n \in S : Carries(n, i) /\ n.id = t
            BY <2>1, <2>4, <6>1 DEF Follows
          <6>3. n # h /\ h.id < n.id
            BY <1>2, <4>2, <6>2
          <6> QED BY <1>2, <1>3, <3>2, <3>3, <6>2, <6>3
        <5>3. i \notin k.his_to_send.fields
          BY <3>3, <5>1
        <5>4. DOMAIN k.his = l.sent
          <6>1. PICK sent, ids, his, id : sent = l.sent /\ ids = l.ids /\ his = k.his /\ id = k.his_id
            OBVIOUS
          <6>2. /\ id \in Int /\ ids \in Numbered /\ Sent(ids, sent) /\ Told(S, his, id)
                /\ Follows(S, his, id, sent, ids) /\ S \in SUBSET Messages
                /\ i \in sent /\ get_index(ids, i) <= id
            BY <1>1, <1>3, <2>1, <2>4, <5>2, <6>1
          <6>3. DOMAIN his = sent /\ \A m \in S : ~Carries(m, i)
            BY <6>2, NothingNewer
          <6> QED BY <6>1, <6>3
        <5>5. j.his[i] = k.his[i]
          BY <5>1, <5>4
        <5> QED BY <2>4, <5>2, <5>3, <5>5
      <4> QED BY <4>1, <4>2
    <3> QED BY <3>1, <3>3
  <2> HIDE DEF T
  <2>5. Agree(T, d, mine, l, j)
    BY <2>1, <2>4 DEF Agree
  <2> QED BY <2>1, <2>2, <2>3, <2>5
<1> HIDE DEF T
<1> QED BY <1>1, <1>2, <1>5, <1>6 DEF Agreed

(* A change of mine that he will be told of: what does not wait for him is as it was. *)
LEMMA StillAgreed ==
  ASSUME NEW c, NEW d, NEW mine, NEW l, NEW k, NEW both, Agreed(c, d, mine, l, k, both), NEW v, NEW n,
         n.sent = l.sent, n.ids = l.ids, n.wants = l.wants,
         n.to_send.what \in {"none", "update"} =>
           \A i \in l.sent : (n.to_send.what = "update" => i \notin n.to_send.fields) =>
             /\ l.to_send.what \in {"none", "update"} /\ v[i] = mine[i]
             /\ l.to_send.what = "update" => i \notin l.to_send.fields
  PROVE  Agreed(c, d, v, n, k, both)
<1>1. Agree(said(c), d, mine, l, k) => Agree(said(c), d, v, n, k)
  BY DEF Agree
<1> QED BY <1>1 DEF Agreed

(* What he has asked for is taken, where it counts. *)
LEMMA ModTaken ==
  ASSUME NEW c \in Seq(Messages), NEW d \in Seq(Messages), NEW mine, NEW l \in Links, NEW k \in Links,
         NEW both \in BOOLEAN, Agreed(c, d, mine, l, k, both), Sent(l.ids, l.sent), d # <<>>,
         NEW h, h = Head(d), h.what = "MOD", NEW n, NEW w,
         n.sent = l.sent, n.ids = l.ids, n.wants = l.wants,
         n.to_send.what = l.to_send.what, n.to_send.fields = l.to_send.fields,
         l.to_send.what \in {"none", "update"} =>
           \A i \in l.sent : w[i] = IF Counting(h, i, get_index(l.ids, i)) THEN h.value[i] ELSE mine[i]
  PROVE  Agreed(c, Tail(d), w, n, k, both)
<1> DEFINE S == said(c)
<1>1. InOrder(c) /\ Told(S, k.his, k.his_id) /\ Asked(Tail(d), n.sent, n.ids)
  BY AskedTake DEF Agreed
<1>2. /\ S \in SUBSET Messages /\ (\A o \in S : o.id \in Int) /\ k.his_id \in Int /\ l.ids \in Numbered
  BY SaidType DEF Links
<1>3. h \in Messages /\ h.id \in Int /\ 1 \in DOMAIN d /\ h = d[1]
  BY TakeFacts DEF Messages
<1>4. ASSUME both
      PROVE  /\ Follows(S, k.his, k.his_id, n.sent, n.ids)
             /\ AskedOf(Tail(d), k.his_id) /\ FilterTold(Tail(d), k.told_filter, n.wants)
             /\ Agree(S, Tail(d), w, n, k)
  <2>1. /\ Follows(S, k.his, k.his_id, l.sent, l.ids)
        /\ AskedOf(d, k.his_id) /\ FilterTold(d, k.told_filter, l.wants)
        /\ Agree(S, d, mine, l, k)
    BY <1>4 DEF Agreed
  <2>2. AskedOf(Tail(d), k.his_id) /\ FilterTold(Tail(d), k.told_filter, n.wants)
    BY <2>1, AskedOfTake, FilterTake
  <2>3. h.id <= k.his_id
    BY <1>3, <2>1 DEF AskedOf
  <2> HIDE DEF S
  <2>4. ASSUME l.to_send.what \in {"none", "update"}, NEW i \in l.sent, NEW t, t = get_index(l.ids, i),
               Coming(S, i, t, mine[i]),
               t <= k.his_id /\ i \notin k.his_to_send.fields => Back(d, i, t, k.his[i], mine[i])
        PROVE  /\ Coming(S, i, t, w[i])
               /\ t <= k.his_id /\ i \notin k.his_to_send.fields => Back(Tail(d), i, t, k.his[i], w[i])
    <3>1. t \in Int
      BY <1>2, <2>4, SentFacts
    <3>2. w[i] = IF Counting(h, i, t) THEN h.value[i] ELSE mine[i]
      BY <2>4
    <3>3. CASE Counting(h, i, t)
      <4>1. t <= k.his_id
        BY <1>2, <1>3, <2>3, <3>1, <3>3 DEF Counting
      <4>2. \A m \in S : ~Carries(m, i)
        <5>1. PICK sent, ids, his, id : sent = l.sent /\ ids = l.ids /\ his = k.his /\ id = k.his_id
          OBVIOUS
        <5>2. /\ id \in Int /\ ids \in Numbered /\ Sent(ids, sent) /\ Told(S, his, id)
              /\ Follows(S, his, id, sent, ids) /\ S \in SUBSET Messages
              /\ i \in sent /\ get_index(ids, i) <= id
          BY <1>1, <1>2, <2>1, <2>4, <4>1, <5>1 DEF S
        <5> QED BY <5>2, NothingNewer
      <4> QED BY <2>4, <3>2, <4>2, BackTake DEF Coming
    <3>4. CASE ~Counting(h, i, t)
      BY <2>4, <3>2, <3>4, BackTake
    <3> QED BY <3>3, <3>4
  <2>5. Agree(S, Tail(d), w, n, k)
    BY <2>1, <2>4 DEF Agree
  <2> QED BY <2>1, <2>2, <2>5
<1> QED BY <1>1, <1>4 DEF Agreed

(* Nothing has been said by either. *)
LEMMA NewAgreed ==
  ASSUME NEW mine, NEW l, NEW k, l.sent = {}, l.ids = NoIds, l.to_send.what = "none", k.his = Undefined,
         k.his_id = -1, l.wants => DOMAIN mine = {}, k.told_filter = l.wants, NEW both
  PROVE  Owned(l, mine) /\ Agreed(<<>>, <<>>, mine, l, k, both)
<1>1. NoIds \in Numbered /\ Sent(NoIds, {}) /\ NoIds.default = -1
  <2>1. NoIds \in Numbered
    BY NewPartnerFacts DEF NewPartner, Links
  <2>2. NoIds.default = -1 /\ DOMAIN NoIds.at = {}
    BY DEF NoIds
  <2> QED BY <2>1, <2>2 DEF Sent
<1>2. get_next_id(NoIds) \in Int /\ get_next_id(NoIds) > -1
  BY <1>1, SentFacts
<1>3. said(<<>>) = {} /\ InOrder(<<>>) /\ DOMAIN Undefined = {}
  BY DEF said, InOrder, Undefined
<1>4. Owned(l, mine)
  BY <1>1 DEF Owned
<1>5. Told({}, k.his, k.his_id)
  BY DEF Told
<1>6. Follows({}, k.his, k.his_id, {}, NoIds)
  BY <1>1, <1>2, <1>3 DEF Follows
<1>7. Asked(<<>>, {}, NoIds) /\ AskedOf(<<>>, k.his_id) /\ FilterTold(<<>>, k.told_filter, l.wants)
  BY DEF Asked, AskedOf, FilterTold
<1>8. Agree({}, <<>>, mine, l, k)
  BY DEF Agree
<1> QED BY <1>3, <1>4, <1>5, <1>6, <1>7, <1>8 DEF Agreed

(* What one side has of the other's variable, and the steps of the handshake. *)
SameHis(l, n) ==
  /\ n.his = l.his /\ n.his_id = l.his_id /\ n.his_to_send = l.his_to_send
  /\ n.told_filter = l.told_filter /\ n.init = l.init

(* What one side has sent of his own variable *)
SameMine(l, n) == n.sent = l.sent /\ n.ids = l.ids /\ n.to_send = l.to_send /\ n.wants = l.wants

(* Of an index that does not wait to be sent, mine is as it was. *)
Tells(l, mine, n, v) ==
  n.to_send.what \in {"none", "update"} =>
    \A i \in l.sent : (n.to_send.what = "update" => i \notin n.to_send.fields) =>
      /\ l.to_send.what \in {"none", "update"} /\ v[i] = mine[i]
      /\ l.to_send.what = "update" => i \notin l.to_send.fields

(* A step of the owner: he still owes what he has not sent. *)
Owes(l, mine, n, v) ==
  /\ Owned(n, v) /\ Tells(l, mine, n, v) /\ SameHis(l, n)
  /\ n.sent = l.sent /\ n.ids = l.ids

(* What is to be said changes, and nothing else of the record. *)
LEMMA SaysSame ==
  ASSUME NEW l \in Links, NEW e, NEW n, n = SaysNow(l, e)
  PROVE  SameHis(l, n) /\ n.sent = l.sent /\ n.ids = l.ids /\ n.wants = l.wants /\ n.to_send = e
BY DEF SaysNow, Links, SameHis

(* A change or a definition of the owner's variable waits for each partner who is to
   have it (change_my_variable, define_my_variable of CmPartner). *)
LEMMA MineChanged ==
  ASSUME NEW l \in Links, NEW mine \in Variable, NEW v \in Defined, Owned(l, mine), Coherent(l, mine),
         NEW fields \in SUBSET DOMAIN v, fields # {},
         compareTypeAndLimits(mine, v) => diffAllFields(v, mine) \subseteq fields,
         ~compareTypeAndLimits(mine, v) => fields = DOMAIN v,
         NEW n, n = ChangeMyVariable(l, v, fields)
  PROVE  Owes(l, mine, n, v) /\ n.wants = l.wants
<1>1. l.to_send.what \in {"none", "define", "update", "undefine"}
  BY DEF Links, Events
<1>2. /\ l.to_send.what = "none" => l.sent = IF l.wants THEN DOMAIN mine ELSE {}
      /\ l.to_send.what = "update" => l.sent = DOMAIN mine
      /\ l.to_send.what \in {"define", "update"} =>
           l.to_send.value = mine /\ l.to_send.fields # {} /\ l.wants
      /\ l.to_send.what = "undefine" => l.to_send.value = Undefined /\ l.sent # {}
      /\ Sent(l.ids, l.sent)
  BY DEF Owned, Coherent
<1>3. v # Undefined /\ DOMAIN v # {} /\ DOMAIN Undefined = {}
  BY DefinedFacts, VariableFacts DEF Undefined
<1>4. CASE ~l.wants
  <2>1. n = l
    BY <1>4 DEF ChangeMyVariable
  <2>2. l.to_send.what \in {"none", "undefine"}
    BY <1>1, <1>2, <1>4
  <2>3. Owned(n, v)
    BY <1>2, <1>4, <2>1, <2>2 DEF Owned
  <2>4. Tells(l, mine, n, v)
    BY <1>2, <1>4, <2>1, <2>2 DEF Tells
  <2> QED BY <2>1, <2>3, <2>4 DEF Owes, SameHis
<1>5. CASE l.wants
  <2> DEFINE old == l.to_send
             keeps == \/ old.what # "none" /\ compareTypeAndLimits(old.value, v)
                      \/ old.what = "none" /\ l.sent = DOMAIN v
  <2>1. PICK new : new = IF keeps THEN update_existing(old, v, fields) ELSE full_define_variable(v)
    OBVIOUS
  <2>2. n = SaysNow(l, new)
    BY <1>5, <2>1 DEF ChangeMyVariable, SaysNow
  <2>3. SameHis(l, n) /\ n.sent = l.sent /\ n.ids = l.ids /\ n.wants = l.wants /\ n.to_send = new
    BY <2>2, SaysSame
  <2>4. CASE ~keeps
    <3>1. new.what = "define" /\ new.value = v /\ new.fields = DOMAIN v
      BY <2>1, <2>4 DEF full_define_variable, event
    <3>2. Owned(n, v) /\ Tells(l, mine, n, v)
      BY <1>2, <1>3, <2>3, <3>1 DEF Owned, Tells
    <3> QED BY <2>3, <3>2 DEF Owes
  <2>5. CASE keeps /\ old.what = "none"
    <3>1. new.what = "update" /\ new.value = v /\ new.fields = fields /\ l.sent = DOMAIN v
      BY <2>1, <2>5 DEF update_existing, event
    <3>2. DOMAIN v = DOMAIN mine
      BY <1>2, <1>5, <2>5, <3>1
    <3>3. \A i \in DOMAIN v : i \notin fields => v[i] = mine[i]
      BY <3>2 DEF compareTypeAndLimits, diffAllFields
    <3> HIDE DEF keeps
    <3>4. Owned(n, v)
      BY <1>2, <2>3, <3>1 DEF Owned
    <3>5. Tells(l, mine, n, v)
      BY <2>3, <2>5, <3>1, <3>3 DEF Tells
    <3> QED BY <2>3, <3>4, <3>5 DEF Owes
  <2>6. CASE keeps /\ old.what # "none"
    <3>1. DOMAIN old.value = DOMAIN v
      BY <2>6 DEF compareTypeAndLimits
    <3>2. old.what \in {"define", "update"} /\ old.value = mine /\ DOMAIN v = DOMAIN mine
      BY <1>1, <1>2, <1>3, <2>6, <3>1
    <3> DEFINE some == IF DOMAIN v \in {fields, old.fields} THEN DOMAIN v
                       ELSE diffAllFields(v, old.value) \cup old.fields \cup fields
    <3>3. new.what = old.what /\ new.value = v /\ new.fields = some
      BY <2>1, <2>6 DEF update_existing, event
    <3>4. some # {}
      BY <1>3
    <3>5. ASSUME NEW i \in DOMAIN v, i \notin some PROVE i \notin old.fields /\ v[i] = mine[i]
      <4>1. some = diffAllFields(v, mine) \cup old.fields \cup fields
        BY <3>2, <3>5
      <4> QED BY <3>5, <4>1 DEF diffAllFields
    <3> HIDE DEF keeps, some
    <3>6. Owned(n, v)
      BY <1>2, <2>3, <3>2, <3>3, <3>4 DEF Owned
    <3>7. Tells(l, mine, n, v)
      BY <1>2, <2>3, <3>2, <3>3, <3>5 DEF Tells
    <3> QED BY <2>3, <3>6, <3>7 DEF Owes
  <2> QED BY <2>4, <2>5, <2>6
<1> QED BY <1>4, <1>5

(* So does the end of it (undefine_my_variable). *)
LEMMA MineUndefined ==
  ASSUME NEW l \in Links, NEW mine, Owned(l, mine), NEW n, n = UndefineMyVariable(l)
  PROVE  Owes(l, mine, n, Undefined) /\ n.wants = l.wants /\ (~l.wants => Owned(n, mine))
         /\ (n.to_send.what = "none" => n.sent = {}) /\ n.to_send.what # "update"
<1>1. PICK new : new = IF l.sent # {} THEN event("undefine", Undefined, {}) ELSE NoEvent
  OBVIOUS
<1>2. n = SaysNow(l, new)
  BY <1>1 DEF UndefineMyVariable, SaysNow
<1>3. SameHis(l, n) /\ n.sent = l.sent /\ n.ids = l.ids /\ n.wants = l.wants /\ n.to_send = new
  BY <1>2, SaysSame
<1>4. /\ new.what = IF l.sent # {} THEN "undefine" ELSE "none"
      /\ DOMAIN Undefined = {} /\ Sent(l.ids, l.sent)
  BY <1>1 DEF event, NoEvent, Undefined, Owned
<1>5. Owned(n, Undefined) /\ (~l.wants => Owned(n, mine))
  BY <1>3, <1>4 DEF Owned
<1>6. Tells(l, mine, n, Undefined)
  BY <1>3, <1>4 DEF Tells
<1> QED BY <1>3, <1>4, <1>5, <1>6 DEF Owes

(* A filter of his is taken: what he has been sent waits to be defined or undefined. *)
LEMMA FilterTaken ==
  ASSUME NEW l \in Links, NEW mine \in Variable, Owned(l, mine), Coherent(l, mine),
         NEW wants \in BOOLEAN, NEW x \in Links, SameHis(l, x), x.sent = l.sent, x.ids = l.ids,
         x.wants = wants, x.to_send = l.to_send,
         NEW n, n = IF mine = Undefined THEN x
                    ELSE IF x.wants THEN ChangeMyVariable(x, mine, DOMAIN mine)
                    ELSE UndefineMyVariable(x)
  PROVE  /\ Owned(n, mine) /\ SameHis(l, n) /\ n.sent = l.sent /\ n.ids = l.ids /\ n.wants = wants
         /\ n.to_send.what \in {"none", "update"} =>
              \A i \in l.sent : n.to_send.what = "update" /\ i \in n.to_send.fields
<1>1. /\ x \in Links /\ SameHis(l, x) /\ x.sent = l.sent /\ x.ids = l.ids /\ x.wants = wants
      /\ x.to_send = l.to_send
  OBVIOUS
<1>2. /\ l.to_send.what \in {"none", "define", "update", "undefine"}
      /\ l.to_send.what = "none" => l.sent = IF l.wants THEN DOMAIN mine ELSE {}
      /\ l.to_send.what = "update" => l.sent = DOMAIN mine
      /\ l.to_send.what \in {"define", "update"} =>
           l.to_send.value = mine /\ l.to_send.fields # {} /\ l.wants /\ mine # Undefined
      /\ l.to_send.what = "undefine" => l.to_send.value = Undefined /\ l.sent # {}
      /\ Sent(l.ids, l.sent)
  BY DEF Owned, Coherent, Links, Events
<1>3. DOMAIN Undefined = {} /\ (mine # Undefined => DOMAIN mine # {})
  <2>1. DOMAIN Undefined = {}
    BY DEF Undefined
  <2>2. mine # Undefined => DOMAIN mine # {}
    BY VariableFacts
  <2> QED BY <2>1, <2>2
<1>4. CASE mine = Undefined
  <2>1. n = x /\ l.to_send.what \in {"none", "undefine"}
    BY <1>2, <1>4
  <2>2. Owned(n, mine)
    BY <1>1, <1>2, <1>3, <1>4, <2>1 DEF Owned
  <2>3. l.to_send.what = "none" => l.sent = {}
    BY <1>2, <1>3, <1>4
  <2> QED BY <1>1, <2>1, <2>2, <2>3
<1>5. CASE mine # Undefined /\ wants
  <2> DEFINE old == x.to_send
             keeps == \/ old.what # "none" /\ compareTypeAndLimits(old.value, mine)
                      \/ old.what = "none" /\ x.sent = DOMAIN mine
  <2>1. PICK new : new = IF keeps THEN update_existing(old, mine, DOMAIN mine)
                         ELSE full_define_variable(mine)
    OBVIOUS
  <2>2. n = SaysNow(x, new)
    BY <1>1, <1>5, <2>1 DEF ChangeMyVariable, SaysNow
  <2>3. SameHis(x, n) /\ n.sent = x.sent /\ n.ids = x.ids /\ n.wants = x.wants /\ n.to_send = new
    BY <1>1, <2>2, SaysSame
  <2>4. SameHis(l, n) /\ n.sent = l.sent /\ n.ids = l.ids /\ n.wants = wants
    BY <1>1, <2>3 DEF SameHis
  <2>5. /\ new.value = mine /\ new.fields = DOMAIN mine /\ new.what \in {"define", "update"}
        /\ new.what = "update" => l.sent = DOMAIN mine
    <3>1. CASE ~keeps
      BY <2>1, <3>1 DEF full_define_variable, event
    <3>2. CASE keeps /\ old.what = "none"
      <4>1. new.what = "update" /\ new.value = mine /\ new.fields = DOMAIN mine
        BY <2>1, <3>2 DEF update_existing, event
      <4> QED BY <1>1, <3>2, <4>1
    <3>3. CASE keeps /\ old.what # "none"
      <4>1. new.what = old.what /\ new.value = mine /\ new.fields = DOMAIN mine
        BY <2>1, <3>3 DEF update_existing, event
      <4>2. DOMAIN old.value = DOMAIN mine
        BY <3>3 DEF compareTypeAndLimits
      <4>3. old.what \in {"define", "update"}
        BY <1>1, <1>2, <1>3, <1>5, <3>3, <4>2
      <4> QED BY <1>1, <1>2, <4>1, <4>3
    <3> QED BY <3>1, <3>2, <3>3
  <2>6. Owned(n, mine)
    BY <1>2, <1>3, <1>5, <2>3, <2>4, <2>5 DEF Owned
  <2> HIDE DEF keeps
  <2> QED BY <2>3, <2>4, <2>5, <2>6
<1>6. CASE mine # Undefined /\ ~wants
  <2>1. n = UndefineMyVariable(x)
    BY <1>1, <1>6
  <2>2. PICK new : new = IF x.sent # {} THEN event("undefine", Undefined, {}) ELSE NoEvent
    OBVIOUS
  <2>3. n = SaysNow(x, new)
    BY <2>1, <2>2 DEF UndefineMyVariable, SaysNow
  <2>4. SameHis(x, n) /\ n.sent = x.sent /\ n.ids = x.ids /\ n.wants = x.wants /\ n.to_send = new
    BY <1>1, <2>3, SaysSame
  <2>5. new.what = IF l.sent # {} THEN "undefine" ELSE "none"
    BY <1>1, <2>2 DEF event, NoEvent
  <2>6. SameHis(l, n) /\ n.sent = l.sent /\ n.ids = l.ids /\ n.wants = wants
    BY <1>1, <2>4 DEF SameHis
  <2>7. Owned(n, mine)
    BY <1>2, <1>6, <2>4, <2>5, <2>6 DEF Owned
  <2> QED BY <2>4, <2>5, <2>6, <2>7
<1> QED BY <1>4, <1>5, <1>6

(* A FILT comes: of the whole variable is said what the partner now is to have of it. *)
LEMMA FilterAgreed ==
  ASSUME NEW c, NEW d \in Seq(Messages), NEW mine, NEW l, NEW k, NEW both, Agreed(c, d, mine, l, k, both),
         d # <<>>, NEW h, h = Head(d), h.what = "FILT", NEW n,
         n.sent = l.sent, n.ids = l.ids, n.wants = h.wants,
         n.to_send.what \in {"none", "update"} =>
           \A i \in l.sent : n.to_send.what = "update" /\ i \in n.to_send.fields
  PROVE  Agreed(c, Tail(d), mine, n, k, both)
<1>1. Asked(Tail(d), n.sent, n.ids)
  BY AskedTake DEF Agreed
<1>2. both => AskedOf(Tail(d), k.his_id) /\ FilterTold(Tail(d), k.told_filter, n.wants)
  BY AskedOfTake, FilterTake DEF Agreed
<1>3. Agree(said(c), Tail(d), mine, n, k)
  BY DEF Agree
<1> QED BY <1>1, <1>2, <1>3 DEF Agreed

(* What process p makes of a change of his: of the indices it names those that count, if he
   may apply it. *)
Applies(l, mine, h, fields) ==
  /\ l.to_send.what \notin {"define", "undefine"} /\ is_safe_to_apply(l.ids, h.id)
  /\ mine # Undefined /\ fields # {}

(* A MOD comes: of an index the owner has said nothing newer of, it is what he now has
   (is_safe_to_apply, diff_event_fields). *)
LEMMA ModIndex ==
  ASSUME NEW l \in Links, NEW mine \in Variable, Owned(l, mine), NEW h \in Messages,
         h.what = "MOD", h.id < get_next_id(l.ids), l.to_send.what \in {"none", "update"},
         NEW v, v = copy_indexes(mine, h.value, DOMAIN h.value), NEW fields,
         fields = diff_event_fields(l.ids, v, diffAllFields(v, mine), h.id),
         NEW w, w = IF Applies(l, mine, h, fields) THEN copy_indexes(mine, v, fields) ELSE mine,
         NEW i \in l.sent
  PROVE  w[i] = IF Counting(h, i, get_index(l.ids, i)) THEN h.value[i] ELSE mine[i]
<1> DEFINE t == get_index(l.ids, i)
<1>1. l.sent = DOMAIN mine /\ Sent(l.ids, l.sent) /\ l.ids \in Numbered /\ i \in DOMAIN mine
  BY DEF Owned, Links
<1>2. /\ l.ids.default \in Int /\ t \in Int /\ h.id \in Int /\ l.ids.default <= t
      /\ Min(numbers(l.ids)) = l.ids.default
      /\ \E x \in numbers(l.ids) : get_next_id(l.ids) = x + 1
  BY <1>1, SentFacts DEF Messages
<1>3. mine # Undefined /\ IsFiniteSet(DOMAIN mine)
  BY <1>1, VariableFacts
<1>4. DOMAIN v = DOMAIN mine /\ v[i] = IF i \in DOMAIN h.value THEN h.value[i] ELSE mine[i]
  BY <1>1 DEF copy_indexes
<1>5. i \in fields <=> /\ v[i] # mine[i]
                       /\ IF Cardinality(DOMAIN v) > 1 THEN t <= h.id ELSE t = h.id
  BY <1>1, <1>4 DEF diff_event_fields, diffAllFields
<1>6. ~(Cardinality(DOMAIN v) > 1) => h.id <= t
  <2> SUFFICES ASSUME ~(Cardinality(DOMAIN v) > 1) PROVE h.id <= t
    OBVIOUS
  <2>1. Cardinality(DOMAIN mine) \in Nat /\ (Cardinality(DOMAIN mine) = 0 <=> DOMAIN mine = {})
    BY <1>3, FS_CardinalityType, FS_EmptySet
  <2>2. Cardinality(DOMAIN mine) = 1
    BY <1>1, <1>4, <2>1
  <2>3. DOMAIN mine = {i}
    BY <1>1, <1>3, <2>2, FS_Singleton
  <2>4. PICK x \in numbers(l.ids) : get_next_id(l.ids) = x + 1
    BY <1>2
  <2>5. x = l.ids.default \/ x = t
    BY <1>1, <2>3, <2>4 DEF numbers, get_index, Sent
  <2> QED BY <1>2, <2>4, <2>5
<1>7. CASE Counting(h, i, t)
  <2>1. i \in DOMAIN h.value /\ h.id >= t
    BY <1>7 DEF Counting
  <2>2. i \in fields <=> v[i] # mine[i]
    BY <1>2, <1>5, <1>6, <2>1
  <2>3. i \in fields => Applies(l, mine, h, fields)
    BY <1>2, <1>3, <2>1 DEF Applies, is_safe_to_apply
  <2>4. w[i] = v[i]
    BY <1>1, <1>4, <2>2, <2>3 DEF copy_indexes
  <2> QED BY <1>4, <1>7, <2>1, <2>4
<1>8. CASE ~Counting(h, i, t)
  <2>1. i \notin fields
    BY <1>2, <1>4, <1>5, <1>8 DEF Counting
  <2>2. w[i] = mine[i]
    BY <1>1, <2>1 DEF copy_indexes
  <2> QED BY <1>8, <2>2
<1> QED BY <1>7, <1>8

(* The change is applied to what waits for him as well. *)
LEMMA ModApplied ==
  ASSUME NEW l \in Links, NEW mine \in Variable, Owned(l, mine),
         l.to_send.what \notin {"define", "undefine"}, NEW w, DOMAIN w = DOMAIN mine,
         NEW n, n = AddMyVariableModification(l, w)
  PROVE  /\ Owned(n, w) /\ SameHis(l, n)
         /\ n.sent = l.sent /\ n.ids = l.ids /\ n.wants = l.wants
         /\ n.to_send.what = l.to_send.what /\ n.to_send.fields = l.to_send.fields
<1>1. CASE l.to_send.what = "none"
  <2>1. n = l
    BY <1>1 DEF AddMyVariableModification
  <2> QED BY <1>1, <2>1 DEF Owned, SameHis
<1>2. CASE l.to_send.what = "update"
  <2>1. n = [l EXCEPT !.to_send.value = w]
    BY <1>2 DEF AddMyVariableModification
  <2>2. /\ SameHis(l, n) /\ n.sent = l.sent /\ n.ids = l.ids /\ n.wants = l.wants
        /\ n.to_send.what = l.to_send.what /\ n.to_send.fields = l.to_send.fields
        /\ n.to_send.value = w
    BY <2>1 DEF Links, Events, SameHis
  <2>3. Owned(n, w)
    BY <1>2, <2>2 DEF Owned
  <2> QED BY <2>2, <2>3
<1> QED BY <1>1, <1>2 DEF Links, Events

(* A change that may be applied is of the type of the variable, and so is what he was sent. *)
LEMMA ModFits ==
  ASSUME NEW l \in Links, NEW mine \in Variable, Owned(l, mine), NEW d, Asked(d, l.sent, l.ids),
         NEW a \in DOMAIN d, NEW h \in Messages, h = d[a], h.what = "MOD",
         l.to_send.what \notin {"define", "undefine"}, is_safe_to_apply(l.ids, h.id)
  PROVE  /\ DOMAIN h.value \subseteq DOMAIN mine
         /\ IF l.to_send.what = "none" THEN l.sent = DOMAIN mine
            ELSE DOMAIN l.to_send.value = DOMAIN mine
<1>1. Sent(l.ids, l.sent) /\ l.ids \in Numbered /\ l.to_send.what \in {"none", "update"}
  BY DEF Owned, Links, Events
<1>2. Min(numbers(l.ids)) = l.ids.default
  BY <1>1, SentFacts
<1>3. h.id >= l.ids.default
  BY <1>1, <1>2, SentFacts DEF is_safe_to_apply, Messages
<1>4. DOMAIN h.value # {} /\ DOMAIN h.value \subseteq l.sent
  BY <1>3 DEF Asked
<1> QED BY <1>1, <1>4 DEF Owned

----------------------------------------------------------------------------
(* The handshake *)

has(c, what) == \E a \in DOMAIN c : c[a].what = what

(* What is on its way to a partner, whose record of the sender is k: an INIT-ACC and an
   INIT after those he has had or will have by then never both come before an INIT. *)
Hand(c, k) ==
  /\ \A a \in DOMAIN c : c[a].what \notin {"INIT", "INIT-ACC"} => "received_init" \in k.init
  /\ \A a \in DOMAIN c : c[a].what = "INIT" =>
       \/ "received_init" \notin k.init /\ \A b \in DOMAIN c : b < a => c[b].what # "INIT"
       \/ "received_init_acc" \notin k.init /\ \A b \in DOMAIN c : b < a => c[b].what # "INIT-ACC"

(* What the sender, whose record is l, has sent has come or is on its way, and he
   answers only what has come. *)
Shake(c, l, k) ==
  /\ "received_init_acc" \in k.init \/ has(c, "INIT-ACC") => "received_init" \in l.init
  /\ "received_init" \in k.init \/ has(c, "INIT") <=> "sent_init" \in l.init
  /\ "sent_init_acc" \in l.init => "received_init_acc" \in k.init \/ has(c, "INIT-ACC")

(* A kind of message is on its way when it was there before or goes now. *)
LEMMA PutHas ==
  ASSUME NEW c \in Seq(Messages), NEW m \in Messages, NEW what
  PROVE  has(c \o <<m>>, what) <=> has(c, what) \/ m.what = what
BY PutFacts DEF has

(* It was there before it was taken. *)
LEMMA TakeHas ==
  ASSUME NEW c \in Seq(Messages), c # <<>>, NEW what
  PROVE  /\ has(c, what) <=> has(Tail(c), what) \/ Head(c).what = what
         /\ \A a \in DOMAIN Tail(c) : a + 1 \in DOMAIN c /\ Tail(c)[a] = c[a + 1]
<1>1. has(c, what) => has(Tail(c), what) \/ Head(c).what = what
  <2> SUFFICES ASSUME NEW a \in DOMAIN c, c[a].what = what, a # 1 PROVE has(Tail(c), what)
    BY TakeFacts DEF has
  <2>1. a - 1 \in DOMAIN Tail(c) /\ Tail(c)[a - 1] = c[a]
    BY TakeFacts
  <2> QED BY <2>1 DEF has
<1> QED BY <1>1, TakeFacts DEF has

(* What an earlier message says is said to those who take the rest. *)
LEMMA HandTaken ==
  ASSUME NEW c \in Seq(Messages), c # <<>>, NEW k, Hand(c, k), NEW j,
         "received_init" \in k.init => "received_init" \in j.init,
         "received_init" \in j.init => "received_init" \in k.init \/ Head(c).what = "INIT",
         "received_init_acc" \in j.init => "received_init_acc" \in k.init \/ Head(c).what = "INIT-ACC"
  PROVE  Hand(Tail(c), j)
<1>1. /\ Head(c) = c[1] /\ 1 \in DOMAIN c /\ DOMAIN c \subseteq Int
      /\ \A a \in DOMAIN Tail(c) : a + 1 \in DOMAIN c /\ Tail(c)[a] = c[a + 1] /\ a \in Nat /\ 1 < a + 1
  <2>1. \A a \in DOMAIN Tail(c) : 1 < a + 1
    BY TakeFacts
  <2> QED BY <2>1, TakeFacts
<1>2. ASSUME NEW a \in DOMAIN Tail(c), Tail(c)[a].what \notin {"INIT", "INIT-ACC"}
      PROVE  "received_init" \in j.init
  BY <1>1, <1>2 DEF Hand
<1>3. ASSUME NEW a \in DOMAIN Tail(c), Tail(c)[a].what = "INIT"
      PROVE  \/ /\ "received_init" \notin j.init
                /\ \A b \in DOMAIN Tail(c) : b < a => Tail(c)[b].what # "INIT"
             \/ /\ "received_init_acc" \notin j.init
                /\ \A b \in DOMAIN Tail(c) : b < a => Tail(c)[b].what # "INIT-ACC"
  <2>1. \/ "received_init" \notin k.init /\ \A b \in DOMAIN c : b < a + 1 => c[b].what # "INIT"
        \/ "received_init_acc" \notin k.init /\ \A b \in DOMAIN c : b < a + 1 => c[b].what # "INIT-ACC"
    BY <1>1, <1>3 DEF Hand
  <2>2. \A b \in DOMAIN Tail(c) : b < a => b + 1 \in DOMAIN c /\ b + 1 < a + 1 /\ Tail(c)[b] = c[b + 1]
    BY <1>1
  <2>3. 1 < a + 1 /\ 1 \in DOMAIN c
    BY <1>1
  <2>4. CASE "received_init" \notin k.init /\ \A b \in DOMAIN c : b < a + 1 => c[b].what # "INIT"
    BY <1>1, <2>2, <2>3, <2>4
  <2>5. CASE "received_init_acc" \notin k.init /\ \A b \in DOMAIN c : b < a + 1 => c[b].what # "INIT-ACC"
    BY <1>1, <2>2, <2>3, <2>5
  <2> QED BY <2>1, <2>4, <2>5
<1> QED BY <1>2, <1>3 DEF Hand

(* A message after the handshake, to one who has had my INIT. *)
LEMMA HandPut ==
  ASSUME NEW c \in Seq(Messages), NEW m \in Messages, NEW k, Hand(c, k),
         m.what \notin {"INIT", "INIT-ACC"} => "received_init" \in k.init,
         m.what = "INIT" => \/ "received_init" \notin k.init /\ ~has(c, "INIT")
                            \/ "received_init_acc" \notin k.init /\ ~has(c, "INIT-ACC")
  PROVE  Hand(c \o <<m>>, k)
<1> DEFINE e == c \o <<m>>
<1>1. /\ DOMAIN c = 1 .. Len(c) /\ Len(c) \in Nat /\ e[Len(c) + 1] = m
      /\ \A a \in DOMAIN c : e[a] = c[a]
      /\ \A a \in DOMAIN e : a \in Int /\ (a \in DOMAIN c \/ a = Len(c) + 1)
  BY PutFacts
<1>2. \A a \in DOMAIN c, b \in DOMAIN e : b < a => b \in DOMAIN c
  BY <1>1
<1>3. \A b \in DOMAIN e : b < Len(c) + 1 => b \in DOMAIN c
  BY <1>1
<1> HIDE DEF e
<1>4. ASSUME NEW a \in DOMAIN e, e[a].what \notin {"INIT", "INIT-ACC"} PROVE "received_init" \in k.init
  BY <1>1, <1>4 DEF Hand
<1>5. ASSUME NEW a \in DOMAIN e, e[a].what = "INIT"
      PROVE  \/ "received_init" \notin k.init /\ \A b \in DOMAIN e : b < a => e[b].what # "INIT"
             \/ "received_init_acc" \notin k.init /\ \A b \in DOMAIN e : b < a => e[b].what # "INIT-ACC"
  <2>1. CASE a \in DOMAIN c
    BY <1>1, <1>2, <1>5, <2>1 DEF Hand
  <2>2. CASE a = Len(c) + 1
    BY <1>1, <1>3, <1>5, <2>2 DEF has
  <2> QED BY <1>1, <2>1, <2>2
<1>6. Hand(e, k)
  BY <1>4, <1>5 DEF Hand
<1> QED BY <1>6 DEF e

(* Only what has come counts for what comes. *)
LEMMA HandSame ==
  ASSUME NEW c, NEW k, Hand(c, k), NEW j,
         j.init \cap {"received_init", "received_init_acc"} = k.init \cap {"received_init", "received_init_acc"}
  PROVE  Hand(c, j)
<1>1. /\ "received_init" \in j.init <=> "received_init" \in k.init
      /\ "received_init_acc" \in j.init <=> "received_init_acc" \in k.init
  OBVIOUS
<1> QED BY <1>1 DEF Hand

(* A handshake that has not begun, or is over. *)
LEMMA NoneOnItsWay ==
  ASSUME NEW l, NEW k
  PROVE  /\ Hand(<<>>, k)
         /\ l.init = {} /\ k.init = {} => Shake(<<>>, l, k)
         /\ l.init = Handshake /\ k.init = Handshake => Shake(<<>>, l, k)
<1>1. DOMAIN <<>> = {}
  OBVIOUS
<1> QED BY <1>1 DEF Hand, Shake, has, Handshake

(* The answer and the INIT of EvalSendForPartner *)
LEMMA InitPut ==
  ASSUME NEW c \in Seq(Messages), NEW d, NEW l, NEW k, Hand(c, k), Shake(c, l, k), Shake(d, k, l),
         NEW m \in Messages, NEW j,
         \/ /\ m.what = "INIT-ACC" /\ "received_init" \in l.init
            /\ j.init = l.init \cup {"sent_init_acc"}
         \/ /\ m.what = "INIT" /\ ~({"received_init", "sent_init"} \subseteq l.init)
            /\ j.init = l.init \cup {"sent_init"}
  PROVE  Hand(c \o <<m>>, k) /\ Shake(c \o <<m>>, j, k) /\ Shake(d, k, j)
<1> DEFINE e == c \o <<m>>
<1>1. \A what : has(e, what) <=> has(c, what) \/ m.what = what
  BY PutHas
<1>2. /\ "received_init" \in j.init <=> "received_init" \in l.init
      /\ "received_init_acc" \in j.init <=> "received_init_acc" \in l.init
      /\ "sent_init" \in j.init <=> "sent_init" \in l.init \/ m.what = "INIT"
      /\ "sent_init_acc" \in j.init <=> "sent_init_acc" \in l.init \/ m.what = "INIT-ACC"
  OBVIOUS
<1>3. Hand(e, k)
  <2>1. m.what = "INIT" => \/ "received_init" \notin k.init /\ ~has(c, "INIT")
                           \/ "received_init_acc" \notin k.init /\ ~has(c, "INIT-ACC")
    BY DEF Shake
  <2>2. m.what \in {"INIT", "INIT-ACC"}
    OBVIOUS
  <2> QED BY <2>1, <2>2, HandPut
<1> HIDE DEF e
<1>4. Shake(e, j, k)
  BY <1>1, <1>2 DEF Shake
<1>5. Shake(d, k, j)
  BY <1>2 DEF Shake
<1> QED BY <1>3, <1>4, <1>5 DEF e

(* An INIT or an INIT-ACC is taken. *)
LEMMA InitTaken ==
  ASSUME NEW c \in Seq(Messages), c # <<>>, NEW d, NEW l, NEW k, NEW j, NEW both \in BOOLEAN,
         Hand(c, k), both => Shake(c, l, k) /\ Shake(d, k, l),
         \/ Head(c).what = "INIT" /\ j.init = (k.init \cup {"received_init"}) \ {"sent_init_acc"}
         \/ Head(c).what = "INIT-ACC" /\ j.init = k.init \cup {"received_init_acc"}
  PROVE  Hand(Tail(c), j) /\ (both => Shake(Tail(c), l, j) /\ Shake(d, j, l))
<1>1. /\ "received_init" \in j.init <=> "received_init" \in k.init \/ Head(c).what = "INIT"
      /\ "received_init_acc" \in j.init <=> "received_init_acc" \in k.init \/ Head(c).what = "INIT-ACC"
      /\ "sent_init" \in j.init <=> "sent_init" \in k.init
      /\ "sent_init_acc" \in j.init <=> "sent_init_acc" \in k.init /\ Head(c).what # "INIT"
  OBVIOUS
<1>2. Hand(Tail(c), j)
  BY <1>1, HandTaken
<1>3. \A what : has(c, what) <=> has(Tail(c), what) \/ Head(c).what = what
  BY TakeHas
<1>4. both => Shake(Tail(c), l, j)
  BY <1>1, <1>3 DEF Shake
<1>5. both => Shake(d, j, l)
  BY <1>1 DEF Shake
<1> QED BY <1>2, <1>4, <1>5

(* When nothing is on its way both have said and answered all. *)
LEMMA Finished ==
  ASSUME NEW l, NEW k, Shake(<<>>, l, k), Shake(<<>>, k, l), ~unanswered(l), ~unanswered(k),
         wants_init(l) => "sent_init" \in l.init, wants_init(k) => "sent_init" \in k.init
  PROVE  inited(l)
<1>1. \A what : ~has(<<>>, what)
  BY DEF has
<1>2. "sent_init" \in l.init /\ "sent_init" \in k.init
  BY <1>1 DEF Shake, wants_init, inited
<1> QED BY <1>1, <1>2 DEF Shake, unanswered, inited

----------------------------------------------------------------------------
(* Two processes: c is on its way from one, whose record of the other is l, and d to him
   from the other, whose record of him is k; x and y are their variables, and both says
   that each is a partner of the other. *)

Greeted(c, d, l, k, both) ==
  /\ Hand(c, k) /\ Hand(d, l)
  /\ both => Shake(c, l, k) /\ Shake(d, k, l)

(* Two processes, x and y their own variables, l and k what they hold of each other. *)
Two(c, d, x, y, l, k, both) ==
  /\ Owned(l, x) /\ Owned(k, y)
  /\ Agreed(c, d, x, l, k, both) /\ Agreed(d, c, y, k, l, both)
  /\ Greeted(c, d, l, k, both)

(* What is posted to a partner, or to one who is not there any more *)
Posted(c, m, both) == IF both THEN c \o <<m>> ELSE c

(* Only these parts of a record count. *)
LEMMA OwnedSame ==
  ASSUME NEW l, NEW mine, Owned(l, mine), NEW n, SameMine(l, n)
  PROVE  Owned(n, mine)
BY DEF Owned, SameMine

(* Of two records too. *)
LEMMA TwoSame ==
  ASSUME NEW c, NEW d, NEW x, NEW y, NEW l, NEW k, NEW both, Two(c, d, x, y, l, k, both),
         NEW n, SameHis(l, n), SameMine(l, n), NEW j, SameHis(k, j), SameMine(k, j)
  PROVE  Two(c, d, x, y, n, j, both)
<1>1. Agreed(c, d, x, n, j, both) /\ Agreed(d, c, y, j, n, both)
  BY AgreedSame DEF Two, SameHis, SameMine
<1>2. Owned(n, x) /\ Owned(j, y)
  BY OwnedSame DEF Two
<1>3. Greeted(c, d, n, j, both)
  BY DEF Two, Greeted, Hand, Shake, SameHis
<1> QED BY <1>1, <1>2, <1>3 DEF Two

(* After the handshake other messages leave it as it is, when they go, *)
LEMMA GreetedPut ==
  ASSUME NEW c \in Seq(Messages), NEW d, NEW l, NEW k, NEW both \in BOOLEAN, Greeted(c, d, l, k, both),
         inited(l), NEW m \in Messages, m.what \notin {"INIT", "INIT-ACC"}, NEW n, n.init = l.init
  PROVE  Greeted(Posted(c, m, both), d, n, k, both)
<1>1. Hand(d, n) /\ (both => Shake(d, k, n) /\ Shake(c, n, k))
  BY DEF Greeted, Hand, Shake
<1>2. both => "received_init" \in k.init
  BY DEF Greeted, Shake, inited
<1>3. both => Hand(c \o <<m>>, k)
  BY <1>2, HandPut DEF Greeted
<1>4. \A what \in {"INIT", "INIT-ACC"} : has(c \o <<m>>, what) <=> has(c, what)
  BY PutHas
<1>5. both => Shake(c \o <<m>>, n, k)
  BY <1>1, <1>4 DEF Shake
<1> QED BY <1>1, <1>3, <1>5 DEF Greeted, Posted

(* and when they come. *)
LEMMA GreetedTaken ==
  ASSUME NEW c, NEW d \in Seq(Messages), d # <<>>, NEW l, NEW k, NEW both \in BOOLEAN,
         Greeted(c, d, l, k, both), Head(d).what \notin {"INIT", "INIT-ACC"}, NEW n, n.init = l.init
  PROVE  Greeted(c, Tail(d), n, k, both)
<1>1. Hand(Tail(d), n)
  BY HandTaken DEF Greeted
<1>2. \A what \in {"INIT", "INIT-ACC"} : has(Tail(d), what) <=> has(d, what)
  BY TakeHas
<1>3. both => Shake(Tail(d), k, n) /\ Shake(c, n, k)
  BY <1>2 DEF Greeted, Shake
<1> QED BY <1>1, <1>3 DEF Greeted

(* When the other has lost me, what I say does not reach him. *)
LEMMA HalfChanged ==
  ASSUME NEW c, NEW d, NEW x, NEW y, NEW l, NEW k, Two(c, d, x, y, l, k, FALSE), NEW n, n.init = l.init,
         NEW z, Owned(n, z), Asked(d, n.sent, n.ids),
         Told(said(d), n.his, n.his_id)
  PROVE  Two(c, d, z, y, n, k, FALSE)
<1>1. Agreed(c, d, z, n, k, FALSE)
  BY DEF Two, Agreed
<1>2. Agreed(d, c, y, k, n, FALSE)
  BY DEF Two, Agreed
<1>3. Greeted(c, d, n, k, FALSE)
  BY DEF Two, Greeted, Hand
<1> QED BY <1>1, <1>2, <1>3 DEF Two

(* A process tells whether he wants the variable. *)
LEMMA FilterGoes ==
  ASSUME NEW c \in Seq(Messages), NEW d \in Seq(Messages), NEW x, NEW y, NEW l, NEW k,
         NEW both \in BOOLEAN, Two(c, d, x, y, l, k, both), inited(l),
         NEW m \in Messages, m.what = "FILT",
         NEW n, SameMine(l, n), n.his = l.his, n.his_id = l.his_id, n.his_to_send = l.his_to_send,
         n.init = l.init, n.told_filter = m.wants
  PROVE  Two(Posted(c, m, both), d, x, y, n, k, both)
<1>1. Owned(n, x) /\ Owned(k, y) /\ Greeted(Posted(c, m, both), d, n, k, both)
  BY OwnedSame, GreetedPut DEF Two
<1>2. CASE both
  <2>1. Agreed(c, d, x, n, k, both)
    BY AgreedSame DEF Two, SameMine
  <2>2. Agreed(c \o <<m>>, d, x, n, k, both)
    BY <2>1, PutOther DEF Says
  <2>3. Agreed(d, c \o <<m>>, y, k, n, both)
    BY FilterSent DEF Two
  <2> QED BY <1>1, <1>2, <2>2, <2>3 DEF Two, Posted
<1>3. CASE ~both
  BY <1>1, <1>3 DEF Two, Agreed, Posted, SameMine
<1> QED BY <1>2, <1>3

(* The MOD of what waits for him, and my record of him then *)
Asks(l, m, n) ==
  /\ m.what = "MOD" /\ m.id = l.his_id /\ l.his_to_send.fields # {}
  /\ DOMAIN m.value = l.his_to_send.fields /\ \A i \in DOMAIN m.value : m.value[i] = l.his[i]
  /\ SameMine(l, n) /\ n.his = l.his /\ n.his_id = l.his_id /\ n.his_to_send.fields = {}
  /\ n.told_filter = l.told_filter /\ n.init = l.init

(* He asks for a change of his partner's variable. *)
LEMMA HisGoes ==
  ASSUME NEW c \in Seq(Messages), NEW d \in Seq(Messages), NEW x, NEW y, NEW l \in Links, NEW k \in Links,
         NEW both \in BOOLEAN, Two(c, d, x, y, l, k, both), inited(l), Coherent(l, x),
         NEW m \in Messages, NEW n, Asks(l, m, n)
  PROVE  Two(Posted(c, m, both), d, x, y, n, k, both)
<1> USE DEF Asks
<1>1. Owned(n, x) /\ Owned(k, y) /\ Greeted(Posted(c, m, both), d, n, k, both)
  BY OwnedSame, GreetedPut DEF Two
<1>2. CASE both
  <2>1. Agreed(c, d, x, n, k, both)
    BY <1>2, AgreedHalf DEF Two, Agreed, Agree, SameMine
  <2>2. Agreed(c \o <<m>>, d, x, n, k, both)
    BY <2>1, PutOther DEF Says
  <2>3. Sent(k.ids, k.sent) /\ l.his_to_send.fields \subseteq DOMAIN l.his /\ Agreed(d, c, y, k, l, TRUE)
    BY <1>2 DEF Two, Owned, Coherent
  <2>4. Agreed(d, c \o <<m>>, y, k, n, TRUE)
    BY <2>3, HisSent
  <2> QED BY <1>1, <1>2, <2>2, <2>4 DEF Two, Posted
<1>3. CASE ~both
  BY <1>1, <1>3 DEF Two, Agreed, Posted, SameMine
<1> QED BY <1>2, <1>3

(* He says what waits of his own. *)
LEMMA MineGoes ==
  ASSUME NEW c \in Seq(Messages), NEW d \in Seq(Messages), NEW x \in Variable, NEW y,
         NEW l \in Links, NEW k \in Links,
         NEW both \in BOOLEAN, Two(c, d, x, y, l, k, both), inited(l), Coherent(l, x),
         l.to_send.what # "none", NEW m \in Messages, NEW n, SendsNow(l, l.to_send, m, n), SameHis(l, n)
  PROVE  Two(Posted(c, m, both), d, x, y, n, k, both)
<1>1. Owned(l, x) /\ Owned(k, y)
  BY DEF Two
<1>2. Owned(n, x) /\ Asked(d, n.sent, n.ids)
  BY <1>1, OwnedSent DEF Two, Agreed
<1>3. m.what \notin {"INIT", "INIT-ACC", "MOD", "FILT"} /\ n.init = l.init
  BY DEF SendsNow, Says, SameHis
<1>4. Greeted(Posted(c, m, both), d, n, k, both)
  BY <1>3, GreetedPut DEF Two
<1>5. CASE both
  <2>1. Agreed(c, d, x, l, k, TRUE)
    BY <1>5 DEF Two
  <2>2. Agreed(c \o <<m>>, d, x, n, k, TRUE)
    BY <1>1, <2>1, MineSent
  <2>3. Agreed(d, c \o <<m>>, y, k, l, TRUE)
    BY <1>3, <1>5, AskOther DEF Two
  <2>4. Agreed(d, c \o <<m>>, y, k, n, TRUE)
    BY <2>3, AgreedSame DEF SameHis
  <2> QED BY <1>1, <1>2, <1>4, <1>5, <2>2, <2>4 DEF Two, Posted
<1>6. CASE ~both
  <2>1. Told(said(d), n.his, n.his_id)
    BY DEF Two, Agreed, SameHis
  <2>2. Two(c, d, x, y, l, k, FALSE)
    BY <1>6
  <2>3. Two(c, d, x, y, n, k, FALSE)
    BY <1>2, <1>3, <2>1, <2>2, HalfChanged
  <2> QED BY <1>6, <2>3 DEF Posted
<1> QED BY <1>5, <1>6

(* What is not of the handshake *)
SameRest(l, n) ==
  /\ n.his = l.his /\ n.his_id = l.his_id /\ n.his_to_send = l.his_to_send
  /\ n.told_filter = l.told_filter /\ SameMine(l, n)

(* He sends an INIT or its answer. *)
LEMMA InitGoes ==
  ASSUME NEW c \in Seq(Messages), NEW d \in Seq(Messages), NEW x, NEW y, NEW l, NEW k,
         NEW both \in BOOLEAN, Two(c, d, x, y, l, k, both), NEW m \in Messages, NEW n, SameRest(l, n),
         \/ /\ m.what = "INIT-ACC" /\ "received_init" \in l.init
            /\ n.init = l.init \cup {"sent_init_acc"}
         \/ /\ m.what = "INIT" /\ ~({"received_init", "sent_init"} \subseteq l.init)
            /\ n.init = l.init \cup {"sent_init"}
  PROVE  Two(Posted(c, m, both), d, x, y, n, k, both)
<1>1. Owned(n, x) /\ Owned(k, y)
  BY OwnedSame DEF Two, SameRest
<1>2. m.what \in {"INIT", "INIT-ACC"}
  OBVIOUS
<1>3. Hand(d, n)
  <2>1. n.init \cap {"received_init", "received_init_acc"} = l.init \cap {"received_init", "received_init_acc"}
    OBVIOUS
  <2> QED BY <2>1, HandSame DEF Two, Greeted
<1>4. Greeted(Posted(c, m, both), d, n, k, both)
  <2>1. CASE both
    <3>1. Hand(c, k) /\ Shake(c, l, k) /\ Shake(d, k, l)
      BY <2>1 DEF Two, Greeted
    <3>2. Hand(c \o <<m>>, k) /\ Shake(c \o <<m>>, n, k) /\ Shake(d, k, n)
      BY <3>1, InitPut
    <3> QED BY <1>3, <2>1, <3>2 DEF Greeted, Posted
  <2>2. CASE ~both
    BY <1>3, <2>2 DEF Two, Greeted, Posted
  <2> QED BY <2>1, <2>2
<1>5. Agreed(c, d, x, n, k, both) /\ Agreed(d, c, y, k, n, both)
  BY AgreedSame DEF Two, SameRest, SameMine
<1>6. Agreed(c \o <<m>>, d, x, n, k, both)
  BY <1>2, <1>5, PutOther DEF Says
<1>7. Agreed(d, c \o <<m>>, y, k, n, both)
  BY <1>2, <1>5, AskOther
<1> QED BY <1>1, <1>4, <1>5, <1>6, <1>7 DEF Two, Posted

(* He takes an INIT or its answer. *)
LEMMA InitComes ==
  ASSUME NEW c \in Seq(Messages), NEW d \in Seq(Messages), NEW x, NEW y, NEW l, NEW k,
         NEW both \in BOOLEAN, Two(c, d, x, y, l, k, both), d # <<>>, NEW n, SameRest(l, n),
         \/ Head(d).what = "INIT" /\ n.init = (l.init \cup {"received_init"}) \ {"sent_init_acc"}
         \/ Head(d).what = "INIT-ACC" /\ n.init = l.init \cup {"received_init_acc"}
  PROVE  Two(c, Tail(d), x, y, n, k, both)
<1>1. Owned(n, x) /\ Owned(k, y)
  BY OwnedSame DEF Two, SameRest
<1>2. Head(d).what \in {"INIT", "INIT-ACC"}
  OBVIOUS
<1>3. Hand(d, l) /\ (both => Shake(d, k, l) /\ Shake(c, l, k)) /\ Hand(c, k)
  BY DEF Two, Greeted
<1>4. Hand(Tail(d), n) /\ (both => Shake(Tail(d), k, n) /\ Shake(c, n, k))
  BY <1>3, InitTaken
<1>5. Greeted(c, Tail(d), n, k, both)
  BY <1>3, <1>4 DEF Greeted
<1>6. Agreed(c, d, x, n, k, both) /\ Agreed(d, c, y, k, n, both)
  BY AgreedSame DEF Two, SameRest, SameMine
<1>7. Agreed(c, Tail(d), x, n, k, both)
  BY <1>2, <1>6, AskedOther
<1>8. Agreed(Tail(d), c, y, k, n, both)
  BY <1>2, <1>6, TakeOther DEF Says
<1> QED BY <1>1, <1>5, <1>7, <1>8 DEF Two

(* SET, DEF and UNDEF, and my record of him then *)
Takes(l, h, n) ==
  /\ Says(h) /\ n.his_id = h.id /\ n.told_filter = l.told_filter
  /\ n.init = l.init /\ SameMine(l, n)
  /\ IsFull(h) => DOMAIN n.his = DOMAIN h.value /\ \A i \in DOMAIN h.value : n.his[i] = h.value[i]
  /\ ~IsFull(h) => /\ DOMAIN n.his = DOMAIN l.his
                   /\ \A i \in DOMAIN l.his :
                        n.his[i] = IF i \in DOMAIN h.value THEN h.value[i] ELSE l.his[i]
                   /\ \A i \in l.his_to_send.fields :
                        i \notin DOMAIN h.value => i \in n.his_to_send.fields

(* He takes what his partner says. *)
LEMMA HisComes ==
  ASSUME NEW c \in Seq(Messages), NEW d \in Seq(Messages), NEW x, NEW y, NEW l \in Links, NEW k \in Links,
         NEW both \in BOOLEAN, Two(c, d, x, y, l, k, both), d # <<>>,
         NEW h, h = Head(d), NEW n, Takes(l, h, n)
  PROVE  Two(c, Tail(d), x, y, n, k, both)
<1> USE DEF Takes
<1>1. Owned(n, x) /\ Owned(k, y) /\ Sent(k.ids, k.sent) /\ Agreed(d, c, y, k, l, both)
  <2>1. Owned(l, x) /\ Owned(k, y) /\ Agreed(d, c, y, k, l, both)
    BY DEF Two
  <2>2. Owned(n, x)
    BY <2>1, OwnedSame
  <2> QED BY <2>1, <2>2 DEF Owned
<1>2. h.what \notin {"INIT", "INIT-ACC", "MOD", "FILT"}
  BY DEF Says
<1>3. Greeted(c, Tail(d), n, k, both)
  BY <1>2, GreetedTaken DEF Two
<1>4. Agreed(c, Tail(d), x, l, k, both)
  BY <1>2, AskedOther DEF Two
<1>5. Agreed(c, Tail(d), x, n, k, both)
  BY <1>4, AgreedSame DEF SameMine
<1>6. Agreed(Tail(d), c, y, k, n, both)
  BY <1>1, HisTaken
<1> QED BY <1>1, <1>3, <1>5, <1>6 DEF Two

(* He takes what his partner wants. *)
LEMMA FilterComes ==
  ASSUME NEW c \in Seq(Messages), NEW d \in Seq(Messages), NEW x, NEW y, NEW l, NEW k,
         NEW both \in BOOLEAN, Two(c, d, x, y, l, k, both), d # <<>>,
         NEW h, h = Head(d), h.what = "FILT", NEW n, Owned(n, x), SameHis(l, n),
         n.sent = l.sent, n.ids = l.ids, n.wants = h.wants,
         n.to_send.what \in {"none", "update"} =>
           \A i \in l.sent : n.to_send.what = "update" /\ i \in n.to_send.fields
  PROVE  Two(c, Tail(d), x, y, n, k, both)
<1>1. Agreed(c, Tail(d), x, n, k, both)
  <2>1. Agreed(c, d, x, l, k, both)
    BY DEF Two
  <2> QED BY <2>1, FilterAgreed
<1>2. Agreed(Tail(d), c, y, k, l, both)
  BY TakeOther DEF Two, Says
<1>3. Agreed(Tail(d), c, y, k, n, both)
  BY <1>2, AgreedSame DEF SameHis
<1>4. Greeted(c, Tail(d), n, k, both)
  BY GreetedTaken DEF Two, SameHis
<1> QED BY <1>1, <1>3, <1>4 DEF Two

(* He takes a change his partner asks for, and applies it or does not. *)
LEMMA ModComes ==
  ASSUME NEW c \in Seq(Messages), NEW d \in Seq(Messages), NEW x, NEW y, NEW l \in Links, NEW k \in Links,
         NEW both \in BOOLEAN, Two(c, d, x, y, l, k, both), d # <<>>,
         NEW h, h = Head(d), h.what = "MOD", NEW w, NEW n, Owned(n, w), SameHis(l, n),
         n.sent = l.sent, n.ids = l.ids, n.wants = l.wants,
         n.to_send.what = l.to_send.what, n.to_send.fields = l.to_send.fields,
         l.to_send.what \in {"none", "update"} =>
           \A i \in l.sent : w[i] = IF Counting(h, i, get_index(l.ids, i)) THEN h.value[i] ELSE x[i]
  PROVE  Two(c, Tail(d), w, y, n, k, both)
<1>1. Agreed(c, Tail(d), w, n, k, both)
  <2>1. Agreed(c, d, x, l, k, both) /\ Sent(l.ids, l.sent)
    BY DEF Two, Owned
  <2> QED BY <2>1, ModTaken
<1>2. Agreed(Tail(d), c, y, k, l, both)
  BY TakeOther DEF Two, Says
<1>3. Agreed(Tail(d), c, y, k, n, both)
  BY <1>2, AgreedSame DEF SameHis
<1>4. Greeted(c, Tail(d), n, k, both)
  BY GreetedTaken DEF Two, SameHis
<1> QED BY <1>1, <1>3, <1>4 DEF Two

(* A user's changes *)
LEMMA HisIsChanged ==
  ASSUME NEW c, NEW d \in Seq(Messages), NEW x, NEW y, NEW l \in Links, NEW k \in Links, NEW both,
         Two(c, d, x, y, l, k, both), NEW n, SameMine(l, n), n.init = l.init, n.told_filter = l.told_filter,
         n.his_id = l.his_id, DOMAIN n.his = DOMAIN l.his, l.his # Undefined,
         l.his_to_send.fields \subseteq n.his_to_send.fields,
         \A i \in DOMAIN l.his : i \notin n.his_to_send.fields => n.his[i] = l.his[i]
  PROVE  Two(c, d, x, y, n, k, both)
<1>1. Agreed(d, c, y, k, l, both) /\ Sent(k.ids, k.sent)
  BY DEF Two, Owned
<1>2. Agreed(d, c, y, k, n, both)
  BY <1>1, HisChanged
<1>3. Agreed(c, d, x, n, k, both)
  BY AgreedSame DEF Two, SameMine
<1>4. Greeted(c, d, n, k, both)
  BY DEF Two, Greeted, Hand, Shake
<1>5. Owned(n, x) /\ Owned(k, y)
  BY OwnedSame DEF Two
<1> QED BY <1>2, <1>3, <1>4, <1>5 DEF Two

(* His own variable changes, and the change waits for the partner. *)
LEMMA MineIsOwed ==
  ASSUME NEW c, NEW d, NEW x, NEW y, NEW l, NEW k, NEW both, Two(c, d, x, y, l, k, both),
         NEW n, NEW v, Owes(l, x, n, v), n.wants = l.wants
  PROVE  Two(c, d, v, y, n, k, both)
<1>1. Agreed(c, d, x, l, k, both) /\ Agreed(d, c, y, k, l, both)
  BY DEF Two
<1>2. Agreed(c, d, v, n, k, both)
  BY <1>1, StillAgreed DEF Owes, Tells
<1>3. Agreed(d, c, y, k, n, both)
  BY <1>1, AgreedSame DEF Owes, SameHis
<1>4. Greeted(c, d, n, k, both)
  BY DEF Two, Greeted, Hand, Shake, Owes, SameHis
<1>5. Owned(n, v) /\ Owned(k, y)
  BY DEF Two, Owes
<1> QED BY <1>2, <1>3, <1>4, <1>5 DEF Two

(* Connections *)
LEMMA BothNew ==
  ASSUME NEW x, NEW y, NEW both
  PROVE  Two(<<>>, <<>>, x, y, NewPartner, NewPartner, both)
<1>1. /\ NewPartner.sent = {} /\ NewPartner.ids = NoIds /\ NewPartner.to_send.what = "none"
      /\ NewPartner.his = Undefined /\ NewPartner.his_id = -1 /\ NewPartner.wants = FALSE
      /\ NewPartner.told_filter = FALSE /\ NewPartner.init = {}
  BY DEF NewPartner, NoEvent
<1>2. \A mine : Owned(NewPartner, mine) /\ Agreed(<<>>, <<>>, mine, NewPartner, NewPartner, both)
  BY <1>1, NewAgreed
<1>3. Greeted(<<>>, <<>>, NewPartner, NewPartner, both)
  BY <1>1, NoneOnItsWay DEF Greeted
<1> QED BY <1>2, <1>3 DEF Two

(* One side has forgotten the other, and what was on its way to him is gone. *)
LEMMA OneGone ==
  ASSUME NEW c, NEW d, NEW x, NEW y, NEW l, NEW k, NEW both, Two(c, d, x, y, l, k, both)
  PROVE  Two(c, <<>>, x, y, NewPartner, k, FALSE)
<1>1. Two(<<>>, <<>>, x, y, NewPartner, NewPartner, FALSE)
  BY BothNew
<1>2. Agreed(c, <<>>, x, NewPartner, k, FALSE)
  BY <1>1 DEF Two, Agreed
<1>3. Agreed(<<>>, c, y, k, NewPartner, FALSE)
  BY <1>1 DEF Two, Agreed
<1>4. Greeted(c, <<>>, NewPartner, k, FALSE)
  BY <1>1 DEF Two, Greeted
<1> QED BY <1>1, <1>2, <1>3, <1>4 DEF Two

----------------------------------------------------------------------------
(* Every two processes *)

Mutual(p, q) == q \in partners(p) /\ p \in partners(q)

(* What holds of two processes; to one who has forgotten the other nothing is on its way. *)
Relation(p, q) ==
  /\ Two(channel[p][q], channel[q][p], my[p], my[q], link[p][q], link[q][p], Mutual(p, q))
  /\ channel[p][q] # <<>> => p \in partners(q)
  /\ channel[q][p] # <<>> => q \in partners(p)

(* The invariant of every two processes. *)
Pairs == \A p \in Processes : \A q \in Processes \ {p} : Relation(p, q)

(* All of a record that counts between two. *)
SameLink(l, n) == SameHis(l, n) /\ SameMine(l, n)

(* What holds of two holds of them the other way round. *)
LEMMA Mirrored ==
  ASSUME NEW c, NEW d, NEW x, NEW y, NEW l, NEW k, NEW both, Two(c, d, x, y, l, k, both)
  PROVE  Two(d, c, y, x, k, l, both)
BY DEF Two, Greeted

(* What of two processes a step leaves alone. *)
Untouched(p, q) ==
  /\ my'[p] = my[p] /\ my'[q] = my[q]
  /\ SameLink(link[p][q], link'[p][q]) /\ SameLink(link[q][p], link'[q][p])
  /\ channel'[p][q] = channel[p][q] /\ channel'[q][p] = channel[q][p]
  /\ (q \in partners(p))' <=> q \in partners(p)
  /\ (p \in partners(q))' <=> p \in partners(q)

(* Such a step leaves what holds of the two. *)
LEMMA UntouchedHolds ==
  ASSUME NEW p, NEW q, Relation(p, q), Untouched(p, q)
  PROVE  Relation(p, q)'
<1>1. PICK c, d, x, y, l, k, n, j :
        /\ c = channel[p][q] /\ d = channel[q][p] /\ x = my[p] /\ y = my[q]
        /\ l = link[p][q] /\ k = link[q][p] /\ n = link'[p][q] /\ j = link'[q][p]
  OBVIOUS
<1>2. /\ SameHis(l, n) /\ SameMine(l, n) /\ SameHis(k, j) /\ SameMine(k, j)
      /\ c = channel'[p][q] /\ d = channel'[q][p] /\ x = my'[p] /\ y = my'[q]
      /\ (q \in partners(p))' <=> q \in partners(p)
      /\ (p \in partners(q))' <=> p \in partners(q)
  BY <1>1 DEF Untouched, SameLink
<1>3. /\ Two(c, d, x, y, l, k, Mutual(p, q))
      /\ c # <<>> => p \in partners(q)
      /\ d # <<>> => q \in partners(p)
  BY <1>1 DEF Relation
<1>4. PICK both : both = Mutual(p, q)
  OBVIOUS
<1>5. both = Mutual(p, q)'
  BY <1>2, <1>4 DEF Mutual
<1>6. Two(c, d, x, y, n, j, both)
  BY <1>2, <1>3, <1>4, TwoSame
<1>7. Two(channel[p][q], channel[q][p], my[p], my[q], link[p][q], link[q][p], Mutual(p, q))'
  BY <1>1, <1>2, <1>5, <1>6
<1>8. /\ (channel[p][q] # <<>> => p \in partners(q))'
      /\ (channel[q][p] # <<>> => q \in partners(p))'
  BY <1>2, <1>3
<1> QED BY <1>7, <1>8 DEF Relation

(* A step of one process, that is over when all are again as they should be to him. *)
LEMMA AllOthers ==
  ASSUME Pairs, NEW p \in Processes,
         \A x \in Processes \ {p} : \A y \in Processes \ {x, p} : Untouched(x, y),
         \A y \in Processes \ {p} : Relation(p, y)'
  PROVE  Pairs'
<1> SUFFICES ASSUME NEW x \in Processes, NEW y \in Processes \ {x} PROVE Relation(x, y)'
  BY DEF Pairs
<1>1. CASE x = p
  BY <1>1
<1>2. CASE y = p
  <2>1. Relation(p, x)'
    BY <1>2
  <2>2. Mutual(p, x)' <=> Mutual(x, p)'
    BY DEF Mutual
  <2>3. PICK both : both = Mutual(p, x)'
    OBVIOUS
  <2>4. both = Mutual(x, p)'
    BY <2>2, <2>3 DEF Mutual
  <2>5. Two(channel'[p][x], channel'[x][p], my'[p], my'[x], link'[p][x], link'[x][p], both)
    BY <2>1, <2>3 DEF Relation
  <2>6. Two(channel'[x][p], channel'[p][x], my'[x], my'[p], link'[x][p], link'[p][x], both)
    BY <2>5, Mirrored
  <2> QED BY <1>2, <2>1, <2>4, <2>6 DEF Relation
<1>3. CASE x # p /\ y # p
  BY <1>3, UntouchedHolds DEF Pairs
<1> QED BY <1>1, <1>2, <1>3

(* A step of p with q: n is his record of q then, and c and d are on their way. *)
Exchanged(p, q, n, c, d) ==
  /\ UNCHANGED <<my, order>>
  /\ SameLink(n, link'[p][q])
  /\ \A x, y \in Processes : <<x, y>> # <<p, q>> => SameLink(link[x][y], link'[x][y])
  /\ channel'[p][q] = c /\ channel'[q][p] = d
  /\ \A x, y \in Processes : <<x, y>> \notin {<<p, q>>, <<q, p>>} => channel'[x][y] = channel[x][y]

(* Such a step is over when it is over for p and q. *)
LEMMA ExchangedHolds ==
  ASSUME Pairs, NEW p \in Processes, NEW q \in Processes \ {p}, NEW n, NEW c, NEW d,
         Exchanged(p, q, n, c, d),
         Two(c, d, my[p], my[q], n, link[q][p], Mutual(p, q)),
         c # <<>> => p \in partners(q), d # <<>> => q \in partners(p)
  PROVE  Pairs'
<1>1. my' = my /\ order' = order /\ \A x : partners(x)' = partners(x)
  BY DEF Exchanged, partners
<1>2. \A x \in Processes : \A y \in Processes \ {x} : {x, y} # {p, q} => Untouched(x, y)
  <2> SUFFICES ASSUME NEW x \in Processes, NEW y \in Processes \ {x}, {x, y} # {p, q}
               PROVE  Untouched(x, y)
    OBVIOUS
  <2>1. <<x, y>> \notin {<<p, q>>, <<q, p>>} /\ <<y, x>> \notin {<<p, q>>, <<q, p>>}
    OBVIOUS
  <2>2. SameLink(link[x][y], link'[x][y]) /\ SameLink(link[y][x], link'[y][x])
    BY <2>1 DEF Exchanged
  <2>3. channel'[x][y] = channel[x][y] /\ channel'[y][x] = channel[y][x]
    BY <2>1 DEF Exchanged
  <2> QED BY <1>1, <2>2, <2>3 DEF Untouched
<1>3. Relation(p, q)'
  <2>1. PICK x, y, k, j, m, both : /\ x = my[p] /\ y = my[q] /\ k = link[q][p] /\ both = Mutual(p, q)
                                   /\ m = link'[p][q] /\ j = link'[q][p]
    OBVIOUS
  <2>2. SameLink(n, m) /\ SameLink(k, j)
    <3>1. <<q, p>> # <<p, q>>
      OBVIOUS
    <3> QED BY <2>1, <3>1 DEF Exchanged
  <2>3. Two(c, d, x, y, m, j, both)
    <3>1. Two(c, d, x, y, n, k, both)
      BY <2>1
    <3>2. SameHis(n, m) /\ SameMine(n, m) /\ SameHis(k, j) /\ SameMine(k, j)
      BY <2>2 DEF SameLink
    <3> QED BY <3>1, <3>2, TwoSame
  <2>4. both = Mutual(p, q)'
    BY <1>1, <2>1 DEF Mutual
  <2>5. c = channel'[p][q] /\ d = channel'[q][p] /\ x = my'[p] /\ y = my'[q]
    BY <1>1, <2>1 DEF Exchanged
  <2> QED BY <1>1, <2>1, <2>3, <2>4, <2>5 DEF Relation
<1>4. \A y \in Processes \ {p} : Relation(p, y)'
  <2> SUFFICES ASSUME NEW y \in Processes \ {p}, y # q PROVE Relation(p, y)'
    BY <1>3
  <2>1. Untouched(p, y)
    BY <1>2
  <2>2. Relation(p, y)
    BY DEF Pairs
  <2> QED BY <2>1, <2>2, UntouchedHolds
<1>5. \A x \in Processes \ {p} : \A y \in Processes \ {x, p} : Untouched(x, y)
  BY <1>2
<1> QED BY <1>4, <1>5, AllOthers

(* A process and a partner before a step *)
Now(p, q, c, d, x, y, l, k, both) ==
  /\ c = channel[p][q] /\ d = channel[q][p] /\ x = my[p] /\ y = my[q]
  /\ l = link[p][q] /\ k = link[q][p] /\ both = Mutual(p, q)

(* What is known of them, each value with a name. *)
LEMMA NowFacts ==
  ASSUME Inv, Pairs, NEW p \in Processes, NEW q \in Processes \ {p}
  PROVE  \E c \in Seq(Messages), d \in Seq(Messages), x \in Variable, y \in Variable,
            l \in Links, k \in Links, both \in BOOLEAN :
           /\ Now(p, q, c, d, x, y, l, k, both)
           /\ Two(c, d, x, y, l, k, both) /\ Coherent(l, x) /\ Coherent(k, y)
<1>1. /\ channel[p][q] \in Seq(Messages) /\ channel[q][p] \in Seq(Messages)
      /\ my[p] \in Variable /\ my[q] \in Variable
  BY DEF Inv, Typed
<1>2. /\ link[p][q] \in Links /\ Coherent(link[p][q], my[p])
      /\ link[q][p] \in Links /\ Coherent(link[q][p], my[q])
  BY LinkFacts
<1>3. Mutual(p, q) \in BOOLEAN
  BY DEF Mutual
<1>4. Two(channel[p][q], channel[q][p], my[p], my[q], link[p][q], link[q][p], Mutual(p, q))
  BY DEF Pairs, Relation
<1> QED BY <1>1, <1>2, <1>3, <1>4 DEF Now

(* A record counts as itself. *)
LEMMA SameLinkIs == \A l : SameLink(l, l)
BY DEF SameLink, SameHis, SameMine

(* Only one record is another. *)
LEMMA OnlyOneLink ==
  ASSUME Inv, NEW p \in Processes, NEW q \in Processes \ {p}, NEW n,
         \/ link' = [link EXCEPT ![p][q] = n]
         \/ link' = [link EXCEPT ![p] = [link[p] EXCEPT ![q] = n]]
  PROVE  /\ SameLink(n, link'[p][q])
         /\ \A x, y \in Processes : <<x, y>> # <<p, q>> => SameLink(link[x][y], link'[x][y])
<1>1. link \in [Processes -> [Processes -> Links]]
  BY DEF Inv, Typed
<1>2. /\ link'[p][q] = n
      /\ \A x, y \in Processes : <<x, y>> # <<p, q>> => link'[x][y] = link[x][y]
  BY <1>1
<1> QED BY <1>2, SameLinkIs

(* A step that sends messages to q. *)
LEMMA PostHolds ==
  ASSUME Inv, Pairs, NEW p \in Processes, NEW q \in Processes \ {p}, q \in partners(p), NEW ms, NEW n,
         post(p, q, ms), UNCHANGED <<my, order>>,
         SameLink(n, link'[p][q]),
         \A x, y \in Processes : <<x, y>> # <<p, q>> => SameLink(link[x][y], link'[x][y]),
         NEW c, c = IF Mutual(p, q) THEN channel[p][q] \o ms ELSE channel[p][q],
         Two(c, channel[q][p], my[p], my[q], n, link[q][p], Mutual(p, q))
  PROVE  Pairs'
<1>1. PICK d : d = channel[q][p]
  OBVIOUS
<1>2. channel \in [Processes -> [Processes -> Seq(Messages)]]
  BY DEF Inv, Typed
<1>3. /\ channel'[p][q] = c /\ channel'[q][p] = d
      /\ \A x, y \in Processes : <<x, y>> \notin {<<p, q>>, <<q, p>>} => channel'[x][y] = channel[x][y]
  <2>1. CASE p \in partners(q)
    <3>1. Mutual(p, q) /\ channel' = [channel EXCEPT ![p][q] = @ \o ms]
      BY <2>1 DEF Mutual, post
    <3>2. c = channel[p][q] \o ms
      BY <3>1
    <3> QED BY <1>1, <1>2, <3>1, <3>2
  <2>2. CASE p \notin partners(q)
    <3>1. ~Mutual(p, q) /\ channel' = channel
      BY <2>2 DEF Mutual, post
    <3> QED BY <1>1, <3>1
  <2> QED BY <2>1, <2>2
<1>4. Exchanged(p, q, n, c, d)
  BY <1>3 DEF Exchanged
<1>5. c # <<>> => p \in partners(q)
  <2>1. ~Mutual(p, q) => c = channel[p][q]
    OBVIOUS
  <2>2. channel[p][q] # <<>> => p \in partners(q)
    BY DEF Pairs, Relation
  <2> QED BY <2>1, <2>2 DEF Mutual
<1>6. Two(c, d, my[p], my[q], n, link[q][p], Mutual(p, q))
  BY <1>1
<1> QED BY <1>4, <1>5, <1>6, ExchangedHolds

(* A step that takes the next message of q. *)
LEMMA TakeHolds ==
  ASSUME Inv, Pairs, NEW p \in Processes, NEW q \in Processes \ {p}, NEW what, NEW n,
         takes(p, q, what), UNCHANGED <<my, order>>,
         SameLink(n, link'[p][q]),
         \A x, y \in Processes : <<x, y>> # <<p, q>> => SameLink(link[x][y], link'[x][y]),
         Two(channel[p][q], Tail(channel[q][p]), my[p], my[q], n, link[q][p], Mutual(p, q))
  PROVE  Pairs'
<1>1. PICK c, d : c = channel[p][q] /\ d = Tail(channel[q][p])
  OBVIOUS
<1>2. channel \in [Processes -> [Processes -> Seq(Messages)]]
  BY DEF Inv, Typed
<1>3. /\ channel'[p][q] = c /\ channel'[q][p] = d
      /\ \A x, y \in Processes : <<x, y>> \notin {<<p, q>>, <<q, p>>} => channel'[x][y] = channel[x][y]
  BY <1>1, <1>2 DEF takes
<1>4. Exchanged(p, q, n, c, d)
  BY <1>3 DEF Exchanged
<1>5. c # <<>> => p \in partners(q)
  BY <1>1 DEF Pairs, Relation
<1>6. Two(c, d, my[p], my[q], n, link[q][p], Mutual(p, q)) /\ q \in partners(p)
  BY <1>1 DEF takes
<1> QED BY <1>4, <1>5, <1>6, ExchangedHolds

(* What is sent when the output buffer has room: first the filters, *)
LEMMA SendFiltersPairs ==
  ASSUME Inv, Pairs, NEW p \in Processes, NEW q \in Processes \ {p}, SendFilters(p, q)
  PROVE  Pairs'
<1>1. PICK c \in Seq(Messages), d \in Seq(Messages), x \in Variable, y \in Variable,
           l \in Links, k \in Links, both \in BOOLEAN :
             Now(p, q, c, d, x, y, l, k, both) /\ Two(c, d, x, y, l, k, both)
  BY NowFacts
<1>2. PICK m : m = message("FILT", 0, Undefined, filter[p])
  OBVIOUS
<1>3. /\ m \in Messages /\ m.what = "FILT" /\ m.wants = filter[p]
  BY <1>2, BareMessage, NothingElse DEF message
<1>4. PICK n : n = [l EXCEPT !.told_filter = filter[p]]
  OBVIOUS
<1>5. /\ SameMine(l, n) /\ n.his = l.his /\ n.his_id = l.his_id /\ n.his_to_send = l.his_to_send
      /\ n.init = l.init /\ n.told_filter = m.wants
  BY <1>3, <1>4 DEF Links, SameMine
<1>6. link' = [link EXCEPT ![p] = [link[p] EXCEPT ![q] = n]]
  <2>1. link' = [link EXCEPT ![p][q].told_filter = filter[p]]
    BY DEF SendFilters
  <2> QED BY <1>1, <1>4, <2>1 DEF Now
<1>7. /\ q \in partners(p) /\ inited(l) /\ post(p, q, <<m>>) /\ UNCHANGED <<my, order>>
  BY <1>1, <1>2 DEF SendFilters, can_send, Now
<1>8. Two(Posted(c, m, both), d, x, y, n, k, both)
  BY <1>1, <1>3, <1>5, <1>7, FilterGoes
<1>9. PICK e : e = Posted(c, m, both)
  OBVIOUS
<1>10. /\ SameLink(n, link'[p][q])
       /\ \A s, t \in Processes : <<s, t>> # <<p, q>> => SameLink(link[s][t], link'[s][t])
  BY <1>6, OnlyOneLink
<1>11. /\ e = IF Mutual(p, q) THEN channel[p][q] \o <<m>> ELSE channel[p][q]
       /\ Two(e, channel[q][p], my[p], my[q], n, link[q][p], Mutual(p, q))
  BY <1>1, <1>8, <1>9 DEF Now, Posted
<1> QED BY <1>7, <1>10, <1>11, PostHolds

(* then the changes of the partner's variable, *)
LEMMA SendHisPairs ==
  ASSUME Inv, Pairs, NEW p \in Processes, NEW q \in Processes \ {p}, SendHis(p, q)
  PROVE  Pairs'
<1>1. PICK c \in Seq(Messages), d \in Seq(Messages), x \in Variable, y \in Variable,
           l \in Links, k \in Links, both \in BOOLEAN :
             Now(p, q, c, d, x, y, l, k, both) /\ Two(c, d, x, y, l, k, both) /\ Coherent(l, x)
  BY NowFacts
<1>2. PICK v : v = only(l.his_to_send.value, l.his_to_send.fields)
  OBVIOUS
<1>3. PICK m : m = message("MOD", l.his_id, v, FALSE)
  OBVIOUS
<1>4. PICK n : n = [l EXCEPT !.his = copy_indexes(@, l.his_to_send.value, l.his_to_send.fields),
                             !.his_to_send = Nothing]
  OBVIOUS
<1>5. /\ q \in partners(p) /\ inited(l) /\ l.his_to_send.fields # {} /\ post(p, q, <<m>>)
      /\ link' = [link EXCEPT ![p][q] = n] /\ UNCHANGED <<my, order>>
  BY <1>1, <1>2, <1>3, <1>4 DEF SendHis, can_send, Now
<1>6. /\ l.his \in Variable /\ l.his_to_send.fields \in SUBSET Nat /\ l.his_id \in Int
      /\ l.his_to_send.fields \subseteq DOMAIN l.his
      /\ \A i \in l.his_to_send.fields : l.his_to_send.value[i] = l.his[i]
  BY <1>1 DEF Links, Queued, Coherent
<1>7. copy_indexes(l.his, l.his_to_send.value, l.his_to_send.fields) = l.his
  <2>1. copy_indexes(l.his, l.his_to_send.value, l.his_to_send.fields) = [i \in DOMAIN l.his |-> l.his[i]]
    BY <1>6 DEF copy_indexes
  <2>2. IsValue(l.his)
    BY <1>6, VariableFacts
  <2> QED BY <2>1, <2>2 DEF IsValue
<1>8. /\ m \in Messages /\ m.what = "MOD" /\ m.id = l.his_id
      /\ DOMAIN m.value = l.his_to_send.fields /\ \A i \in DOMAIN m.value : m.value[i] = l.his[i]
  <2>1. \A i \in l.his_to_send.fields : l.his_to_send.value[i] \in Values
    BY <1>6, VariableFacts
  <2>2. v \in Part
    BY <1>2, <1>6, <2>1, OnlyType
  <2>3. DOMAIN v = l.his_to_send.fields /\ \A i \in l.his_to_send.fields : v[i] = l.his[i]
    BY <1>2, <1>6 DEF only
  <2> QED BY <1>3, <1>6, <2>2, <2>3 DEF message, Messages
<1>9. /\ SameMine(l, n) /\ n.his = l.his /\ n.his_id = l.his_id /\ n.his_to_send.fields = {}
      /\ n.told_filter = l.told_filter /\ n.init = l.init
  BY <1>4, <1>7 DEF Links, SameMine, Nothing
<1>10. Two(Posted(c, m, both), d, x, y, n, k, both)
  <2>1. Asks(l, m, n)
    BY <1>5, <1>8, <1>9 DEF Asks
  <2> QED BY <1>1, <1>5, <1>8, <2>1, HisGoes
<1>11. PICK e : e = Posted(c, m, both)
  OBVIOUS
<1>12. /\ e = IF Mutual(p, q) THEN channel[p][q] \o <<m>> ELSE channel[p][q]
       /\ Two(e, channel[q][p], my[p], my[q], n, link[q][p], Mutual(p, q))
  BY <1>1, <1>10, <1>11 DEF Now, Posted
<1>13. /\ SameLink(n, link'[p][q])
       /\ \A s, t \in Processes : <<s, t>> # <<p, q>> => SameLink(link[s][t], link'[s][t])
  BY <1>5, OnlyOneLink
<1> QED BY <1>5, <1>12, <1>13, PostHolds

(* and those of one's own. *)
LEMMA SendMinePairs ==
  ASSUME Inv, Pairs, NEW p \in Processes, NEW q \in Processes \ {p}, SendMine(p, q)
  PROVE  Pairs'
<1>1. PICK c \in Seq(Messages), d \in Seq(Messages), x \in Variable, y \in Variable,
           l \in Links, k \in Links, both \in BOOLEAN :
             Now(p, q, c, d, x, y, l, k, both) /\ Two(c, d, x, y, l, k, both) /\ Coherent(l, x)
  BY NowFacts
<1>2. PICK e \in Events : e = l.to_send
  BY <1>1 DEF Links
<1>3. PICK id : id = get_next_id(l.ids)
  OBVIOUS
<1>4. PICK what : what = CASE e.what = "undefine" -> "UNDEF"
                           [] e.what = "define" -> "DEF"
                           [] e.what = "update" -> "SET"
  OBVIOUS
<1>5. PICK v : v = only(e.value, e.fields)
  OBVIOUS
<1>6. PICK m : m = message(what, id, v, FALSE)
  OBVIOUS
<1>7. PICK ids : ids = IF e.what = "update" THEN update_from_variable(l.ids, e.fields, id)
                                            ELSE update_fully(id)
  OBVIOUS
<1>8. PICK n : n = [l EXCEPT !.to_send = NoEvent, !.sent = DOMAIN e.value, !.ids = ids]
  OBVIOUS
<1>9. /\ q \in partners(p) /\ inited(l) /\ e.what # "none" /\ post(p, q, <<m>>)
      /\ link' = [link EXCEPT ![p][q] = n] /\ UNCHANGED <<my, order>>
  BY <1>1, <1>2, <1>3, <1>4, <1>5, <1>6, <1>7, <1>8 DEF SendMine, can_send, Now
<1>10. Owned(l, x)
  BY <1>1 DEF Two
<1>11. /\ e.what \in {"define", "update", "undefine"} /\ l.ids \in Numbered
       /\ e.fields \subseteq DOMAIN e.value /\ (e.what = "define" => e.fields = DOMAIN e.value)
       /\ (e.what = "define" => e.fields # {})
  BY <1>1, <1>2, <1>9, <1>10, WaitsFacts
<1>12. e.value \in Variable /\ e.fields \in SUBSET Nat /\ id \in Int
  BY <1>3, <1>11, NextIdType DEF Events
<1>13. v \in Part /\ DOMAIN v = e.fields /\ \A i \in e.fields : v[i] = e.value[i]
  <2>1. \A i \in e.fields : e.value[i] \in Values
    BY <1>11, <1>12, VariableFacts
  <2> QED BY <1>5, <1>12, <2>1, OnlyType DEF only
<1>14. /\ what \in {"SET", "DEF", "UNDEF"} /\ (what = "DEF" <=> e.what = "define")
       /\ (what = "SET" <=> e.what = "update") /\ (what = "UNDEF" <=> e.what = "undefine")
  BY <1>4, <1>11
<1>15. what = "DEF" => v \in Defined
  <2> SUFFICES ASSUME what = "DEF" PROVE v \in Defined
    OBVIOUS
  <2>1. e.fields = DOMAIN e.value /\ e.fields # {}
    BY <1>11, <1>14
  <2>2. IsValue(e.value) /\ (DOMAIN e.value # {} => e.value \in Defined)
    BY <1>12, VariableFacts
  <2>3. v = e.value
    BY <1>5, <2>1, <2>2 DEF only, IsValue
  <2> QED BY <2>1, <2>2, <2>3
<1>16. m \in Messages /\ m.what = what /\ m.id = id /\ m.value = v
  BY <1>6, <1>12, <1>13, <1>14, <1>15 DEF message, Messages
<1>17. /\ SameHis(l, n) /\ n.to_send = NoEvent /\ n.wants = l.wants /\ n.sent = DOMAIN e.value
       /\ n.ids = ids
  BY <1>8 DEF Links, SameHis
<1>18. SendsNow(l, e, m, n)
  BY <1>3, <1>7, <1>13, <1>14, <1>16, <1>17 DEF SendsNow, Says, NoEvent
<1>19. SendsNow(l, l.to_send, m, n) /\ l.to_send.what # "none"
  BY <1>2, <1>9, <1>18
<1>20. Two(Posted(c, m, both), d, x, y, n, k, both)
  BY <1>1, <1>9, <1>16, <1>17, <1>19, MineGoes
<1>21. PICK u : u = Posted(c, m, both)
  OBVIOUS
<1>22. /\ u = IF Mutual(p, q) THEN channel[p][q] \o <<m>> ELSE channel[p][q]
       /\ Two(u, channel[q][p], my[p], my[q], n, link[q][p], Mutual(p, q))
  BY <1>1, <1>20, <1>21 DEF Now, Posted
<1>23. /\ SameLink(n, link'[p][q])
       /\ \A s, t \in Processes : <<s, t>> # <<p, q>> => SameLink(link[s][t], link'[s][t])
  BY <1>9, OnlyOneLink
<1> QED BY <1>9, <1>22, <1>23, PostHolds

(* The answer goes before the INIT. *)
LEMMA EvalSendForPartnerPairs ==
  ASSUME Inv, Pairs, NEW p \in Processes, NEW q \in Processes \ {p}, NEW again \in BOOLEAN,
         EvalSendForPartner(p, q, again)
  PROVE  Pairs'
<1>1. PICK c \in Seq(Messages), d \in Seq(Messages), x \in Variable, y \in Variable,
           l \in Links, k \in Links, both \in BOOLEAN :
             Now(p, q, c, d, x, y, l, k, both) /\ Two(c, d, x, y, l, k, both)
  BY NowFacts
<1>2. PICK answers : answers = unanswered(l)
  OBVIOUS
<1>3. PICK asks : asks = (wants_init(l) /\ ("sent_init" \in l.init => again))
  OBVIOUS
<1>4. PICK acc, ini : /\ acc = message("INIT-ACC", 0, Undefined, FALSE)
                      /\ ini = message("INIT", 0, Undefined, FALSE)
  OBVIOUS
<1>5. PICK first, second : /\ first = (IF answers THEN <<acc>> ELSE <<>>)
                           /\ second = (IF asks THEN <<ini>> ELSE <<>>)
  OBVIOUS
<1>6. PICK j : j = [l EXCEPT !.init = @ \cup (IF answers THEN {"sent_init_acc"} ELSE {})]
  OBVIOUS
<1>7. PICK n : n = [l EXCEPT !.init = @ \cup (IF answers THEN {"sent_init_acc"} ELSE {})
                                        \cup (IF asks THEN {"sent_init"} ELSE {})]
  OBVIOUS
<1>8. /\ q \in partners(p) /\ post(p, q, first \o second) /\ UNCHANGED <<my, order>>
      /\ link' = [link EXCEPT ![p] = [link[p] EXCEPT ![q] = n]]
  BY <1>1, <1>2, <1>3, <1>4, <1>5, <1>7 DEF EvalSendForPartner, Now
<1>9. acc \in Messages /\ acc.what = "INIT-ACC" /\ ini \in Messages /\ ini.what = "INIT"
  BY <1>4, BareMessage DEF message
<1>10. /\ answers \in BOOLEAN /\ asks \in BOOLEAN
       /\ answers => "received_init" \in l.init
       /\ asks => ~({"received_init", "sent_init"} \subseteq l.init)
  BY <1>2, <1>3 DEF unanswered, wants_init, inited
<1>11. /\ SameRest(l, j) /\ SameRest(j, n) /\ n.init = j.init \cup (IF asks THEN {"sent_init"} ELSE {})
       /\ j.init = l.init \cup (IF answers THEN {"sent_init_acc"} ELSE {})
  BY <1>6, <1>7 DEF Links, SameRest, SameMine
<1>12. PICK e : e = IF both THEN c \o first ELSE c
  OBVIOUS
<1>13. PICK u : u = IF both THEN e \o second ELSE e
  OBVIOUS
<1>14. first \in Seq(Messages) /\ second \in Seq(Messages)
  BY <1>5, <1>9, OneMessage
<1>15. e \in Seq(Messages) /\ u = IF both THEN c \o (first \o second) ELSE c
  <2>1. c \o first \in Seq(Messages) /\ (c \o first) \o second = c \o (first \o second)
    BY <1>14, ConcatProperties, ConcatAssociative, SMTT(15)
  <2> QED BY <1>12, <1>13, <2>1
<1>16. Two(e, d, x, y, j, k, both)
  <2>1. CASE answers
    <3>1. e = Posted(c, acc, both)
      BY <1>5, <1>12, <2>1 DEF Posted
    <3>2. j.init = l.init \cup {"sent_init_acc"}
      BY <1>11, <2>1
    <3>3. Two(Posted(c, acc, both), d, x, y, j, k, both)
      BY <1>1, <1>9, <1>10, <1>11, <2>1, <3>2, InitGoes
    <3> QED BY <3>1, <3>3
  <2>2. CASE ~answers
    <3>1. e = c
      BY <1>5, <1>12, <2>2, ConcatEmptySeq
    <3>2. SameHis(l, j) /\ SameMine(l, j) /\ SameHis(k, k) /\ SameMine(k, k)
      BY <1>11, <2>2 DEF SameRest, SameHis, SameMine
    <3> QED BY <1>1, <3>1, <3>2, TwoSame
  <2> QED BY <1>10, <2>1, <2>2
<1>17. Two(u, d, x, y, n, k, both)
  <2>1. CASE asks
    <3>1. u = Posted(e, ini, both)
      BY <1>5, <1>13, <2>1 DEF Posted
    <3>2. n.init = j.init \cup {"sent_init"} /\ ~({"received_init", "sent_init"} \subseteq j.init)
      BY <1>10, <1>11, <2>1
    <3>3. Two(Posted(e, ini, both), d, x, y, n, k, both)
      BY <1>1, <1>9, <1>11, <1>15, <1>16, <3>2, InitGoes
    <3> QED BY <3>1, <3>3
  <2>2. CASE ~asks
    <3>1. u = e
      BY <1>5, <1>13, <1>15, <2>2, ConcatEmptySeq
    <3>2. SameHis(j, n) /\ SameMine(j, n) /\ SameHis(k, k) /\ SameMine(k, k)
      BY <1>11, <2>2 DEF SameRest, SameHis, SameMine
    <3> QED BY <1>16, <3>1, <3>2, TwoSame
  <2> QED BY <1>10, <2>1, <2>2
<1>18. PICK ms : ms = first \o second
  OBVIOUS
<1>19. /\ u = IF Mutual(p, q) THEN channel[p][q] \o ms ELSE channel[p][q]
       /\ Two(u, channel[q][p], my[p], my[q], n, link[q][p], Mutual(p, q))
  BY <1>1, <1>15, <1>17, <1>18 DEF Now
<1>20. /\ SameLink(n, link'[p][q])
       /\ \A s, t \in Processes : <<s, t>> # <<p, q>> => SameLink(link[s][t], link'[s][t])
  BY <1>8, OnlyOneLink
<1>21. post(p, q, ms) /\ q \in partners(p) /\ UNCHANGED <<my, order>>
  BY <1>8, <1>18
<1> QED BY <1>19, <1>20, <1>21, PostHolds

(* Who else becomes the owner of the name does not matter between two. *)
LEMMA TrySame ==
  ASSUME NEW p, NEW mine, NEW links \in [Processes -> Links], NEW seq, NEW m, NEW c, NEW t,
         t = tryDefineSomeCollidingVariable(p, mine, links, seq, m, c)
  PROVE  \A x \in Processes : SameLink(links[x], t.links[x])
<1>1. PICK last : last = seq[Max(places(seq, counted(p, links, seq, m)))]
  OBVIOUS
<1>2. t.links = links \/ t.links = [links EXCEPT ![last].collides = FALSE]
  BY <1>1 DEF tryDefineSomeCollidingVariable
<1>3. CASE t.links = links
  BY <1>3, SameLinkIs
<1>4. CASE t.links = [links EXCEPT ![last].collides = FALSE]
  <2> TAKE x \in Processes
  <2>1. links[x] \in Links
    OBVIOUS
  <2>2. t.links[x] = IF x = last THEN [links[x] EXCEPT !.collides = FALSE] ELSE links[x]
    BY <1>4
  <2>3. CASE x = last
    <3>1. t.links[x] = [links[x] EXCEPT !.collides = FALSE]
      BY <2>2, <2>3
    <3>2. PICK l \in Links : l = links[x]
      BY <2>1
    <3>3. SameLink(l, [l EXCEPT !.collides = FALSE])
      BY DEF Links, SameLink, SameHis, SameMine
    <3> QED BY <3>1, <3>2, <3>3
  <2>4. CASE x # last
    BY <2>2, <2>4, SameLinkIs
  <2> QED BY <2>3, <2>4
<1> QED BY <1>2, <1>3, <1>4

(* The messages of a partner, handled one at a time: INIT, *)
LEMMA ProcessINITPairs ==
  ASSUME Inv, Pairs, NEW p \in Processes, NEW q \in Processes \ {p}, ProcessINIT(p, q)
  PROVE  Pairs'
<1>1. PICK c \in Seq(Messages), d \in Seq(Messages), x \in Variable, y \in Variable,
           l \in Links, k \in Links, both \in BOOLEAN :
             Now(p, q, c, d, x, y, l, k, both) /\ Two(c, d, x, y, l, k, both)
  BY NowFacts
<1>2. PICK n : n = [l EXCEPT !.init = (@ \cup {"received_init"}) \ {"sent_init_acc"}]
  OBVIOUS
<1>3. /\ takes(p, q, "INIT") /\ UNCHANGED <<my, order>>
      /\ link' = [link EXCEPT ![p] = [link[p] EXCEPT ![q] = n]]
  <2>1. link' = [link EXCEPT ![p] = [link[p] EXCEPT ![q].init =
                  (@ \cup {"received_init"}) \ {"sent_init_acc"}]]
    BY DEF ProcessINIT
  <2> QED BY <1>1, <1>2, <2>1 DEF ProcessINIT, Now
<1>4. /\ SameRest(l, n) /\ d # <<>> /\ Head(d).what = "INIT"
      /\ n.init = (l.init \cup {"received_init"}) \ {"sent_init_acc"}
  BY <1>1, <1>2, <1>3 DEF Links, SameRest, SameMine, takes, next_message, Now
<1>5. Two(c, Tail(d), x, y, n, k, both)
  BY <1>1, <1>4, InitComes
<1>6. Two(channel[p][q], Tail(channel[q][p]), my[p], my[q], n, link[q][p], Mutual(p, q))
  BY <1>1, <1>5 DEF Now
<1>7. /\ SameLink(n, link'[p][q])
      /\ \A s, t \in Processes : <<s, t>> # <<p, q>> => SameLink(link[s][t], link'[s][t])
  BY <1>3, OnlyOneLink
<1> QED BY <1>3, <1>6, <1>7, TakeHolds

(* INIT-ACC, *)
LEMMA ProcessINIT_ACCPairs ==
  ASSUME Inv, Pairs, NEW p \in Processes, NEW q \in Processes \ {p}, ProcessINIT_ACC(p, q)
  PROVE  Pairs'
<1>1. PICK c \in Seq(Messages), d \in Seq(Messages), x \in Variable, y \in Variable,
           l \in Links, k \in Links, both \in BOOLEAN :
             Now(p, q, c, d, x, y, l, k, both) /\ Two(c, d, x, y, l, k, both)
  BY NowFacts
<1>2. PICK n : n = [l EXCEPT !.init = @ \cup {"received_init_acc"}]
  OBVIOUS
<1>3. /\ takes(p, q, "INIT-ACC") /\ UNCHANGED <<my, order>>
      /\ link' = [link EXCEPT ![p] = [link[p] EXCEPT ![q] = n]]
  <2>1. link' = [link EXCEPT ![p][q].init = @ \cup {"received_init_acc"}]
    BY DEF ProcessINIT_ACC
  <2> QED BY <1>1, <1>2, <2>1 DEF ProcessINIT_ACC, Now
<1>4. /\ SameRest(l, n) /\ d # <<>> /\ Head(d).what = "INIT-ACC"
      /\ n.init = l.init \cup {"received_init_acc"}
  BY <1>1, <1>2, <1>3 DEF Links, SameRest, SameMine, takes, next_message, Now
<1>5. Two(c, Tail(d), x, y, n, k, both)
  BY <1>1, <1>4, InitComes
<1>6. Two(channel[p][q], Tail(channel[q][p]), my[p], my[q], n, link[q][p], Mutual(p, q))
  BY <1>1, <1>5 DEF Now
<1>7. /\ SameLink(n, link'[p][q])
      /\ \A s, t \in Processes : <<s, t>> # <<p, q>> => SameLink(link[s][t], link'[s][t])
  BY <1>3, OnlyOneLink
<1> QED BY <1>3, <1>6, <1>7, TakeHolds

(* A SET of a variable he does not have any more, which never is, would leave it so. *)
LEMMA ProcessSETPairs ==
  ASSUME Inv, Pairs, NEW p \in Processes, NEW q \in Processes \ {p}, ProcessSET(p, q)
  PROVE  Pairs'
<1>1. PICK c \in Seq(Messages), d \in Seq(Messages), x \in Variable, y \in Variable,
           l \in Links, k \in Links, both \in BOOLEAN :
             Now(p, q, c, d, x, y, l, k, both) /\ Two(c, d, x, y, l, k, both)
  BY NowFacts
<1>2. PICK h : h = Head(d)
  OBVIOUS
<1>3. PICK v : v = copy_indexes(l.his, h.value, DOMAIN h.value)
  OBVIOUS
<1>4. PICK queued : queued = erase_variable_changes_from_queue(l.his_to_send, diffAllFields(v, l.his))
  OBVIOUS
<1>5. PICK n : n = [l EXCEPT !.his = v, !.his_id = h.id, !.his_to_send = queued]
  OBVIOUS
<1>6. /\ takes(p, q, "SET") /\ UNCHANGED <<my, order>> /\ h = next_message(p, q)
  BY <1>1, <1>2 DEF ProcessSET, Now, next_message
<1>7. d # <<>> /\ h.what = "SET" /\ h \in said(d) /\ \A m \in said(d) \ {h} : h.id < m.id
  <2>1. d # <<>> /\ h.what = "SET"
    BY <1>1, <1>2, <1>6 DEF takes, Now, next_message
  <2>2. InOrder(d) /\ Says(h)
    BY <1>1, <2>1 DEF Two, Agreed, Says
  <2>3. SaidNow(h) = {h}
    BY <2>2 DEF SaidNow
  <2> QED BY <1>1, <1>2, <2>1, <2>2, <2>3, TakeSaid
<1>8. DOMAIN h.value # {} /\ DOMAIN h.value \subseteq DOMAIN l.his
  <2>1. Told(said(d), l.his, l.his_id)
    BY <1>1 DEF Two, Agreed
  <2>2. said(d) \in SUBSET Messages /\ l.his_id \in Int
    BY <1>1, SaidType DEF Links
  <2> QED BY <1>7, <2>1, <2>2, SetFits
<1>9. l.his # Undefined
  BY <1>8 DEF Undefined
<1>10. link' = [link EXCEPT ![p][q] = n]
  BY <1>1, <1>3, <1>4, <1>5, <1>6, <1>9 DEF ProcessSET, Now
<1>11. /\ SameMine(l, n) /\ n.his = v /\ n.his_id = h.id /\ n.his_to_send = queued
       /\ n.told_filter = l.told_filter /\ n.init = l.init
  BY <1>5 DEF Links, SameMine
<1>12. /\ DOMAIN v = DOMAIN l.his
       /\ \A i \in DOMAIN l.his : v[i] = IF i \in DOMAIN h.value THEN h.value[i] ELSE l.his[i]
  BY <1>3 DEF copy_indexes
<1>13. diffAllFields(v, l.his) \subseteq DOMAIN h.value
  BY <1>12 DEF diffAllFields
<1>14. \A i \in l.his_to_send.fields : i \notin DOMAIN h.value => i \in queued.fields
  <2>1. l.his_to_send \in Queued
    BY DEF Links
  <2> QED BY <1>4, <1>13, <2>1 DEF erase_variable_changes_from_queue, Queued
<1>15. Takes(l, h, n)
  BY <1>7, <1>11, <1>12, <1>14 DEF Takes, Says, IsFull
<1>16. Two(c, Tail(d), x, y, n, k, both)
  BY <1>1, <1>2, <1>7, <1>15, HisComes
<1>17. Two(channel[p][q], Tail(channel[q][p]), my[p], my[q], n, link[q][p], Mutual(p, q))
  BY <1>1, <1>16 DEF Now
<1>18. /\ SameLink(n, link'[p][q])
       /\ \A s, t \in Processes : <<s, t>> # <<p, q>> => SameLink(link[s][t], link'[s][t])
  BY <1>10, OnlyOneLink
<1> QED BY <1>6, <1>17, <1>18, TakeHolds

(* DEF: what was to be asked for is forgotten, *)
LEMMA ProcessDEFPairs ==
  ASSUME Inv, Pairs, NEW p \in Processes, NEW q \in Processes \ {p}, ProcessDEF(p, q)
  PROVE  Pairs'
<1>1. PICK c \in Seq(Messages), d \in Seq(Messages), x \in Variable, y \in Variable,
           l \in Links, k \in Links, both \in BOOLEAN :
             Now(p, q, c, d, x, y, l, k, both) /\ Two(c, d, x, y, l, k, both)
  BY NowFacts
<1>2. PICK h, collides : h = Head(d) /\ collides = doesPartnerVariableCollide(p, q)
  OBVIOUS
<1>3. PICK n : n = [l EXCEPT !.his = h.value, !.his_id = h.id, !.his_to_send = Nothing,
                             !.collides = @ \/ collides]
  OBVIOUS
<1>4. /\ takes(p, q, "DEF") /\ UNCHANGED <<my, order>> /\ h = next_message(p, q)
      /\ link' = [link EXCEPT ![p][q] = n]
  BY <1>1, <1>2, <1>3 DEF ProcessDEF, Now, next_message
<1>5. d # <<>> /\ h.what = "DEF"
  BY <1>1, <1>2, <1>4 DEF takes, Now, next_message
<1>6. /\ SameMine(l, n) /\ n.his = h.value /\ n.his_id = h.id
      /\ n.told_filter = l.told_filter /\ n.init = l.init
  BY <1>3 DEF Links, SameMine
<1>7. Takes(l, h, n)
  BY <1>5, <1>6 DEF Takes, Says, IsFull
<1>8. Two(c, Tail(d), x, y, n, k, both)
  BY <1>1, <1>2, <1>5, <1>7, HisComes
<1>9. Two(channel[p][q], Tail(channel[q][p]), my[p], my[q], n, link[q][p], Mutual(p, q))
  BY <1>1, <1>8 DEF Now
<1>10. /\ SameLink(n, link'[p][q])
       /\ \A s, t \in Processes : <<s, t>> # <<p, q>> => SameLink(link[s][t], link'[s][t])
  BY <1>4, OnlyOneLink
<1> QED BY <1>4, <1>9, <1>10, TakeHolds

(* UNDEF, *)
LEMMA ProcessUNDEFPairs ==
  ASSUME Inv, Pairs, NEW p \in Processes, NEW q \in Processes \ {p}, ProcessUNDEF(p, q)
  PROVE  Pairs'
<1>1. PICK c \in Seq(Messages), d \in Seq(Messages), x \in Variable, y \in Variable,
           l \in Links, k \in Links, both \in BOOLEAN :
             Now(p, q, c, d, x, y, l, k, both) /\ Two(c, d, x, y, l, k, both)
  BY NowFacts
<1>2. PICK h : h = Head(d)
  OBVIOUS
<1>3. takes(p, q, "UNDEF") /\ UNCHANGED <<my, order>> /\ h = next_message(p, q)
  BY <1>1, <1>2 DEF ProcessUNDEF, Now, next_message
<1>4. d # <<>> /\ h.what = "UNDEF" /\ h \in said(d)
  <2>1. d # <<>> /\ h.what = "UNDEF"
    BY <1>1, <1>2, <1>3 DEF takes, Now, next_message
  <2>2. InOrder(d) /\ Says(h)
    BY <1>1, <2>1 DEF Two, Agreed, Says
  <2> QED BY <1>1, <1>2, <2>1, <2>2, TakeSaid
<1>5. DOMAIN h.value = {} /\ h.id \in Int
  <2>1. Told(said(d), l.his, l.his_id)
    BY <1>1 DEF Two, Agreed
  <2>2. said(d) \subseteq Messages
    BY SaidType
  <2> QED BY <1>4, <2>1, <2>2 DEF Told, Messages
<1>6. link[p] \in [Processes -> Links] /\ link \in [Processes -> [Processes -> Links]]
  BY DEF Inv, Typed
<1>7. CASE l.his = Undefined
  <2>1. PICK n : n = [l EXCEPT !.his_id = h.id, !.his_to_send = Nothing]
    OBVIOUS
  <2>2. link' = [link EXCEPT ![p][q] = n]
    BY <1>1, <1>3, <1>7, <2>1 DEF ProcessUNDEF, Now
  <2>3. /\ SameMine(l, n) /\ n.his = Undefined /\ n.his_id = h.id
        /\ n.told_filter = l.told_filter /\ n.init = l.init
    BY <1>7, <2>1 DEF Links, SameMine
  <2>4. DOMAIN n.his = DOMAIN h.value
    BY <1>5, <2>3 DEF Undefined
  <2>5. Takes(l, h, n)
    BY <1>4, <1>5, <2>3, <2>4 DEF Takes, Says, IsFull
  <2>6. Two(c, Tail(d), x, y, n, k, both)
    BY <1>1, <1>2, <1>4, <2>5, HisComes
  <2>7. Two(channel[p][q], Tail(channel[q][p]), my[p], my[q], n, link[q][p], Mutual(p, q))
    BY <1>1, <2>6 DEF Now
  <2>8. /\ SameLink(n, link'[p][q])
        /\ \A s, t \in Processes : <<s, t>> # <<p, q>> => SameLink(link[s][t], link'[s][t])
    BY <2>2, OnlyOneLink
  <2> QED BY <1>3, <2>7, <2>8, TakeHolds
<1>8. CASE l.his # Undefined
  <2>1. PICK n : n = [l EXCEPT !.his = Undefined, !.his_id = h.id, !.his_to_send = Nothing,
                               !.collides = FALSE]
    OBVIOUS
  <2>2. PICK erased : erased = [link[p] EXCEPT ![q] = n]
    OBVIOUS
  <2>3. PICK ch : ch = IF told_of(p, q) THEN deleted ELSE changes[p]
    OBVIOUS
  <2>4. PICK t : t = tryDefineSomeCollidingVariable(p, my[p], erased, order[p], master[p], ch)
    OBVIOUS
  <2>5. link' = [link EXCEPT ![p] = t.links]
    BY <1>1, <1>3, <1>8, <2>1, <2>2, <2>3, <2>4 DEF ProcessUNDEF, Now
  <2>6. /\ n \in Links /\ SameMine(l, n) /\ n.his = Undefined /\ n.his_id = h.id
        /\ n.told_filter = l.told_filter /\ n.init = l.init
    <3>1. Nothing \in Queued /\ Undefined \in Variable
      BY DEF Nothing, Queued, Variable
    <3> QED BY <1>5, <2>1, <3>1 DEF Links, SameMine
  <2>7. DOMAIN n.his = DOMAIN h.value
    BY <1>5, <2>6 DEF Undefined
  <2>8. Takes(l, h, n)
    BY <1>4, <1>5, <2>6, <2>7 DEF Takes, Says, IsFull
  <2>9. Two(c, Tail(d), x, y, n, k, both)
    BY <1>1, <1>2, <1>4, <2>8, HisComes
  <2>10. Two(channel[p][q], Tail(channel[q][p]), my[p], my[q], n, link[q][p], Mutual(p, q))
    BY <1>1, <2>9 DEF Now
  <2>11. erased \in [Processes -> Links] /\ erased[q] = n
         /\ \A z \in Processes \ {q} : erased[z] = link[p][z]
    BY <1>6, <2>2, <2>6
  <2>12. \A z \in Processes : SameLink(erased[z], t.links[z])
    BY <2>4, <2>11, TrySame
  <2>13. /\ SameLink(n, link'[p][q])
         /\ \A s, z \in Processes : <<s, z>> # <<p, q>> => SameLink(link[s][z], link'[s][z])
    <3>1. link'[p] = t.links /\ \A s \in Processes \ {p} : link'[s] = link[s]
      BY <1>6, <2>5
    <3>2. SameLink(n, link'[p][q])
      BY <2>11, <2>12, <3>1
    <3>3. ASSUME NEW s \in Processes, NEW z \in Processes, <<s, z>> # <<p, q>>
          PROVE  SameLink(link[s][z], link'[s][z])
      <4>1. CASE s = p
        BY <2>11, <2>12, <3>1, <3>3, <4>1
      <4>2. CASE s # p
        BY <3>1, <4>2, SameLinkIs
      <4> QED BY <4>1, <4>2
    <3> QED BY <3>2, <3>3
  <2> QED BY <1>3, <2>10, <2>13, TakeHolds
<1> QED BY <1>7, <1>8

(* and FILT: he is to be told all of the variable, or that it is gone. *)
LEMMA ProcessFILTPairs ==
  ASSUME Inv, Pairs, NEW p \in Processes, NEW q \in Processes \ {p}, ProcessFILT(p, q)
  PROVE  Pairs'
<1>1. PICK c \in Seq(Messages), d \in Seq(Messages), x \in Variable, y \in Variable,
           l \in Links, k \in Links, both \in BOOLEAN :
             Now(p, q, c, d, x, y, l, k, both) /\ Two(c, d, x, y, l, k, both) /\ Coherent(l, x)
  BY NowFacts
<1>2. PICK h : h = Head(d)
  OBVIOUS
<1>3. PICK wants : wants = h.wants
  OBVIOUS
<1>4. PICK m : m = [l EXCEPT !.wants = wants]
  OBVIOUS
<1>5. PICK n : n = IF x = Undefined THEN m
                   ELSE IF m.wants THEN ChangeMyVariable(m, x, DOMAIN x)
                   ELSE UndefineMyVariable(m)
  OBVIOUS
<1>6. /\ takes(p, q, "FILT") /\ UNCHANGED <<my, order>> /\ h = next_message(p, q)
      /\ link' = [link EXCEPT ![p][q] = n]
  BY <1>1, <1>2, <1>3, <1>4, <1>5 DEF ProcessFILT, Now, next_message
<1>7. d # <<>> /\ h.what = "FILT" /\ h \in Messages /\ wants \in BOOLEAN
  <2>1. d # <<>> /\ h.what = "FILT"
    BY <1>1, <1>2, <1>6 DEF takes, Now, next_message
  <2>2. h \in Messages
    BY <1>2, <2>1, TakeFacts
  <2> QED BY <1>3, <2>1, <2>2 DEF Messages
<1>8. /\ m \in Links /\ SameHis(l, m) /\ m.sent = l.sent /\ m.ids = l.ids
      /\ m.wants = wants /\ m.to_send = l.to_send
  BY <1>4, <1>7 DEF Links, SameHis
<1>9. Owned(l, x)
  BY <1>1 DEF Two
<1>10. /\ Owned(n, x) /\ SameHis(l, n) /\ n.sent = l.sent /\ n.ids = l.ids /\ n.wants = wants
       /\ n.to_send.what \in {"none", "update"} =>
            \A i \in l.sent : n.to_send.what = "update" /\ i \in n.to_send.fields
  BY <1>1, <1>5, <1>7, <1>8, <1>9, FilterTaken
<1>11. Two(c, Tail(d), x, y, n, k, both)
  BY <1>1, <1>2, <1>3, <1>7, <1>10, FilterComes
<1>12. Two(channel[p][q], Tail(channel[q][p]), my[p], my[q], n, link[q][p], Mutual(p, q))
  BY <1>1, <1>11 DEF Now
<1>13. /\ SameLink(n, link'[p][q])
       /\ \A s, t \in Processes : <<s, t>> # <<p, q>> => SameLink(link[s][t], link'[s][t])
  BY <1>6, OnlyOneLink
<1> QED BY <1>6, <1>12, <1>13, TakeHolds

(* A user changes the partner's variable as he has it here. *)
LEMMA ChangePartnerVariablePairs ==
  ASSUME Inv, Pairs, NEW p \in Processes, NEW q \in partners(p), NEW i, NEW x \in Values,
         NEW gen_cb \in BOOLEAN, ChangePartnerVariable(p, q, i, x, gen_cb)
  PROVE  Pairs'
<1>1. q \in Processes \ {p}
  BY TypedFacts
<1>2. PICK c \in Seq(Messages), d \in Seq(Messages), u \in Variable, y \in Variable,
           l \in Links, k \in Links, both \in BOOLEAN :
             Now(p, q, c, d, u, y, l, k, both) /\ Two(c, d, u, y, l, k, both) /\ Coherent(l, u)
  BY <1>1, NowFacts
<1>3. PICK v : v = [l.his EXCEPT ![i] = x]
  OBVIOUS
<1>4. PICK n : n = [l EXCEPT !.his = v, !.his_to_send = push_back_or_update(@, v, {i})]
  OBVIOUS
<1>5. /\ i \in DOMAIN l.his /\ link' = [link EXCEPT ![p][q] = n] /\ UNCHANGED <<my, order, channel>>
  BY <1>2, <1>3, <1>4 DEF ChangePartnerVariable, Now
<1>6. /\ SameMine(l, n) /\ n.init = l.init /\ n.told_filter = l.told_filter /\ n.his_id = l.his_id
      /\ n.his = v /\ n.his_to_send.fields = l.his_to_send.fields \cup {i}
  BY <1>4 DEF Links, SameMine, push_back_or_update
<1>7. DOMAIN n.his = DOMAIN l.his /\ l.his # Undefined
  <2>1. l.his \in Variable
    BY DEF Links
  <2> QED BY <1>3, <1>5, <1>6, <2>1, ChangedType, VariableFacts
<1>8. /\ l.his_to_send.fields \subseteq n.his_to_send.fields
      /\ \A z \in DOMAIN l.his : z \notin n.his_to_send.fields => n.his[z] = l.his[z]
  <2> SUFFICES ASSUME NEW z \in DOMAIN l.his, z # i PROVE v[z] = l.his[z]
    BY <1>6
  <2>1. l.his \in Variable
    BY DEF Links
  <2>2. l.his = [j \in DOMAIN l.his |-> l.his[j]]
    BY <2>1, VariableFacts DEF IsValue
  <2> QED BY <1>3, <2>2
<1>9. Two(c, d, u, y, n, k, both)
  BY <1>2, <1>6, <1>7, <1>8, HisIsChanged
<1>10. Two(c, d, my[p], my[q], n, link[q][p], Mutual(p, q))
  BY <1>2, <1>9 DEF Now
<1>11. /\ SameLink(n, link'[p][q])
       /\ \A s, t \in Processes : <<s, t>> # <<p, q>> => SameLink(link[s][t], link'[s][t])
  BY <1>1, <1>5, OnlyOneLink
<1>12. Exchanged(p, q, n, c, d)
  BY <1>2, <1>5, <1>11 DEF Exchanged, Now
<1>13. (c # <<>> => p \in partners(q)) /\ (d # <<>> => q \in partners(p))
  BY <1>1, <1>2 DEF Pairs, Relation, Now
<1> QED BY <1>1, <1>10, <1>12, <1>13, ExchangedHolds

----------------------------------------------------------------------------
(* A change of mine *)

LEMMA OwesSame ==
  ASSUME NEW l, NEW x, NEW m, SameLink(l, m), NEW n, NEW v, Owes(m, x, n, v), n.wants = m.wants,
         NEW j, SameLink(n, j)
  PROVE  Owes(l, x, j, v) /\ j.wants = l.wants
<1>1. SameHis(l, m) /\ SameMine(l, m) /\ SameHis(n, j) /\ SameMine(n, j)
  BY DEF SameLink
<1>2. Owned(n, v) /\ Tells(m, x, n, v) /\ SameHis(m, n) /\ n.sent = m.sent /\ n.ids = m.ids
  BY DEF Owes
<1>3. Owned(j, v)
  BY <1>1, <1>2, OwnedSame
<1>4. SameHis(l, j)
  BY <1>1, <1>2 DEF SameHis
<1>5. j.sent = l.sent /\ j.ids = l.ids /\ j.wants = l.wants
  BY <1>1, <1>2 DEF SameMine
<1>6. Tells(l, x, j, v)
  BY <1>1, <1>2 DEF Tells, SameMine
<1> QED BY <1>3, <1>4, <1>5, <1>6 DEF Owes

(* Nothing is owed to one who is no partner. *)
LEMMA NothingOwed ==
  ASSUME NEW x, NEW v
  PROVE  Owes(NewPartner, x, NewPartner, v)
<1>1. Owned(NewPartner, v)
  BY BothNew DEF Two
<1>2. NewPartner.sent = {}
  BY DEF NewPartner
<1>3. Tells(NewPartner, x, NewPartner, v)
  BY <1>2 DEF Tells
<1> QED BY <1>1, <1>3 DEF Owes, SameHis

(* A step of p that changes his variable and his records, and takes at most a message. *)
LEMMA MineHolds ==
  ASSUME Inv, Pairs, NEW p \in Processes, NEW v, NEW lk,
         my' = [my EXCEPT ![p] = v], link' = [link EXCEPT ![p] = lk], order' = order,
         \A x, y \in Processes : y # p => channel'[x][y] = channel[x][y],
         \A y \in Processes \ {p} :
           /\ channel'[y][p] # <<>> => channel[y][p] # <<>>
           /\ Two(channel[p][y], channel'[y][p], v, my[y], lk[y], link[y][p], Mutual(p, y))
  PROVE  Pairs'
<1>1. /\ my \in [Processes -> Variable] /\ link \in [Processes -> [Processes -> Links]]
  BY DEF Inv, Typed
<1>2. /\ my'[p] = v /\ \A x \in Processes \ {p} : my'[x] = my[x]
      /\ link'[p] = lk /\ \A x \in Processes \ {p} : link'[x] = link[x]
      /\ \A x : partners(x)' = partners(x)
  BY <1>1 DEF partners
<1>3. ASSUME NEW x \in Processes \ {p}, NEW y \in Processes \ {x, p} PROVE Untouched(x, y)
  BY <1>2, SameLinkIs DEF Untouched
<1>4. ASSUME NEW y \in Processes \ {p} PROVE Relation(p, y)'
  <2>1. PICK both : both = Mutual(p, y)
    OBVIOUS
  <2>2. both = Mutual(p, y)'
    BY <1>2, <2>1 DEF Mutual
  <2>3. channel'[p][y] = channel[p][y]
    OBVIOUS
  <2>4. Two(channel'[p][y], channel'[y][p], my'[p], my'[y], link'[p][y], link'[y][p], both)
    BY <1>2, <2>1, <2>3
  <2>5. /\ (channel[p][y] # <<>> => p \in partners(y))'
        /\ (channel[y][p] # <<>> => y \in partners(p))'
    BY <1>2, <2>3 DEF Pairs, Relation
  <2> QED BY <2>2, <2>4, <2>5 DEF Relation
<1> QED BY <1>3, <1>4, AllOthers

(* What a change of mine makes of the records, told to all but the one it comes from *)
TellsThem(p, links, v, fields, src, lk) ==
  /\ Partners(my[p], links, order[p])
  /\ \A y \in Processes : SameLink(link[p][y], links[y])
  /\ fields \subseteq DOMAIN v
  /\ compareTypeAndLimits(my[p], v) => fields # {} /\ diffAllFields(v, my[p]) \subseteq fields
  /\ lk = told_partners(p, links, v, ToldOf(my[p], v, fields), src)

(* Each partner but that one is owed the change. *)
LEMMA OwedToPartners ==
  ASSUME Inv, Pairs, NEW p \in Processes, NEW links, NEW v \in Defined, NEW fields,
         NEW src, NEW lk, TellsThem(p, links, v, fields, src, lk), NEW y \in Processes \ {p}, y # src
  PROVE  Owes(link[p][y], my[p], lk[y], v) /\ lk[y].wants = link[p][y].wants
<1> USE DEF TellsThem
<1>0. PICK told : told = ToldOf(my[p], v, fields)
  OBVIOUS
<1>1. PICK x, l, m, n : x = my[p] /\ l = link[p][y] /\ m = links[y] /\ n = lk[y]
  OBVIOUS
<1>2. /\ x \in Variable /\ m \in Links /\ Coherent(m, x) /\ (y \notin partners(p) => m = NewPartner)
      /\ SameLink(l, m)
  BY <1>1, TypedFacts DEF Partners, partners
<1>3. Owned(m, x)
  <2>1. Owned(l, x)
    BY <1>1 DEF Pairs, Relation, Two
  <2> QED BY <1>2, <2>1, OwnedSame DEF SameLink
<1>4. /\ told \in SUBSET DOMAIN v /\ told # {}
      /\ compareTypeAndLimits(x, v) => diffAllFields(v, x) \subseteq told
      /\ ~compareTypeAndLimits(x, v) => told = DOMAIN v
  <2>1. DOMAIN v # {}
    BY DefinedFacts, VariableFacts
  <2> QED BY <1>0, <1>1, <2>1 DEF ToldOf
<1>5. Owes(m, x, n, v) /\ n.wants = m.wants
  <2>1. CASE y \in partners(p)
    <3>1. n = ChangeMyVariable(m, v, told)
      BY <1>0, <1>1, <2>1 DEF told_partners
    <3> QED BY <1>2, <1>3, <1>4, <3>1, MineChanged
  <2>2. CASE y \notin partners(p)
    <3>1. m = NewPartner /\ n = NewPartner
      BY <1>1, <1>2, <2>2 DEF told_partners
    <3> QED BY <3>1, NothingOwed
  <2> QED BY <2>1, <2>2
<1>6. SameLink(n, n)
  BY SameLinkIs
<1>7. Owes(l, x, n, v) /\ n.wants = l.wants
  BY <1>2, <1>5, <1>6, OwesSame
<1> QED BY <1>1, <1>7

(* A change of mine that all are told of *)
LEMMA AllAreOwed ==
  ASSUME Inv, Pairs, NEW p \in Processes, NEW v, NEW lk,
         my' = [my EXCEPT ![p] = v], link' = [link EXCEPT ![p] = lk], UNCHANGED <<order, channel>>,
         \A y \in Processes \ {p} :
           Owes(link[p][y], my[p], lk[y], v) /\ lk[y].wants = link[p][y].wants
  PROVE  Pairs'
<1>1. ASSUME NEW y \in Processes \ {p}
      PROVE  Two(channel[p][y], channel[y][p], v, my[y], lk[y], link[y][p], Mutual(p, y))
  <2>1. PICK c, d, x, w, l, k, both, n : Now(p, y, c, d, x, w, l, k, both) /\ n = lk[y]
    BY DEF Now
  <2>2. Two(c, d, x, w, l, k, both) /\ Owes(l, x, n, v) /\ n.wants = l.wants
    BY <2>1 DEF Pairs, Relation, Now
  <2>3. Two(c, d, v, w, n, k, both)
    BY <2>2, MineIsOwed
  <2> QED BY <2>1, <2>3 DEF Now
<1> QED BY <1>1, MineHolds

(* A user defines his variable, changes it, *)
LEMMA DefinePairs ==
  ASSUME Inv, Pairs, NEW p \in Processes, NEW v \in Defined, NEW gen_cb \in BOOLEAN, Define(p, v, gen_cb)
  PROVE  Pairs'
<1>1. PICK marked : marked = [q \in Processes |->
        [link[p][q] EXCEPT !.collides = @ \/ (q \in partners(p) /\ link[p][q].his # Undefined)]]
  OBVIOUS
<1>2. PICK fields : fields = DOMAIN v
  OBVIOUS
<1>3. PICK told : told = ToldOf(my[p], v, fields)
  OBVIOUS
<1>4. PICK lk : lk = told_partners(p, marked, v, told, Nobody)
  OBVIOUS
<1>5. /\ my' = [my EXCEPT ![p] = v] /\ link' = [link EXCEPT ![p] = lk] /\ UNCHANGED <<order, channel>>
  BY <1>1, <1>2, <1>3, <1>4 DEF Define, internalChangeMyVariable, ToldOf
<1>6. Partners(my[p], link[p], order[p])
  BY TypedFacts
<1>7. ASSUME NEW q \in Processes
      PROVE  /\ marked[q] \in Links /\ Coherent(marked[q], my[p]) /\ SameLink(link[p][q], marked[q])
             /\ q \notin ToSet(order[p]) => marked[q] = NewPartner
  <2>1. PICK l \in Links : l = link[p][q] /\ Coherent(l, my[p]) /\ (q \notin ToSet(order[p]) => l = NewPartner)
    BY <1>6 DEF Partners
  <2>2. PICK b \in BOOLEAN : b = (l.collides \/ (q \in partners(p) /\ l.his # Undefined))
    BY <2>1 DEF Links
  <2>3. PICK n : n = [l EXCEPT !.collides = b]
    OBVIOUS
  <2>4. n = marked[q]
    BY <1>1, <2>1, <2>2, <2>3
  <2>5. /\ n \in Links /\ n.his = l.his /\ n.his_to_send = l.his_to_send /\ n.wants = l.wants
        /\ n.to_send = l.to_send /\ n.collides = b
    BY <2>2, <2>3 DEF Links
  <2>6. SameLink(l, n)
    BY <2>3 DEF Links, SameLink, SameHis, SameMine
  <2>7. Coherent(n, my[p])
    <3>1. l.his = Undefined => ~b
      BY <2>1, <2>2 DEF Coherent
    <3> QED BY <2>1, <2>5, <3>1 DEF Coherent
  <2>8. ASSUME q \notin ToSet(order[p]) PROVE n = NewPartner
    <3>1. l = NewPartner /\ b = FALSE
      <4>1. NewPartner.collides = FALSE
        BY DEF NewPartner
      <4> QED BY <2>1, <2>2, <2>8, <4>1 DEF partners
    <3>2. n = [l EXCEPT !.collides = l.collides]
      BY <2>3, <3>1 DEF NewPartner
    <3>3. [l EXCEPT !.collides = l.collides] = l
      BY DEF Links
    <3> QED BY <3>1, <3>2, <3>3
  <2> QED BY <2>1, <2>4, <2>5, <2>6, <2>7, <2>8
<1>8. Partners(my[p], marked, order[p])
  <2>1. marked \in [Processes -> Links]
    BY <1>1, <1>7
  <2> QED BY <1>7, <2>1 DEF Partners
<1>9. fields \in SUBSET DOMAIN v /\ fields # {} /\ diffAllFields(v, my[p]) \subseteq fields
  BY <1>2, DefinedFacts, VariableFacts DEF diffAllFields
<1>10. ASSUME NEW y \in Processes \ {p}
       PROVE  Owes(link[p][y], my[p], lk[y], v) /\ lk[y].wants = link[p][y].wants
  <2>1. y # Nobody
    BY VariablesAssumption
  <2>2. TellsThem(p, marked, v, fields, Nobody, lk)
    BY <1>3, <1>4, <1>7, <1>8, <1>9 DEF TellsThem
  <2> QED BY <2>1, <2>2, OwedToPartners
<1> QED BY <1>5, <1>10, AllAreOwed, ZenonT(40)

(* an index at a time, *)
LEMMA ChangeMinePairs ==
  ASSUME Inv, Pairs, NEW p \in Processes, NEW i, NEW x \in Values, NEW gen_cb \in BOOLEAN,
         ChangeMine(p, i, x, gen_cb)
  PROVE  Pairs'
<1>1. PICK v : v = [my[p] EXCEPT ![i] = x]
  OBVIOUS
<1>2. PICK fields : fields = {i}
  OBVIOUS
<1>3. PICK told : told = ToldOf(my[p], v, fields)
  OBVIOUS
<1>4. PICK links : links = link[p]
  OBVIOUS
<1>5. PICK lk : lk = told_partners(p, links, v, told, Nobody)
  OBVIOUS
<1>6. /\ my' = [my EXCEPT ![p] = v] /\ link' = [link EXCEPT ![p] = lk] /\ UNCHANGED <<order, channel>>
      /\ i \in DOMAIN my[p]
  BY <1>1, <1>2, <1>3, <1>4, <1>5 DEF ChangeMine, internalChangeMyVariable, ToldOf
<1>7. my[p] \in Variable /\ Partners(my[p], links, order[p])
  BY <1>4, TypedFacts
<1>8. v \in Variable /\ DOMAIN v = DOMAIN my[p] /\ diffAllFields(v, my[p]) \subseteq {i}
  BY <1>1, <1>6, <1>7, ChangedType
<1>9. v \in Defined /\ fields \in SUBSET DOMAIN v /\ fields # {} /\ diffAllFields(v, my[p]) \subseteq fields
  <2>1. v # Undefined
    BY <1>6, <1>8, VariableFacts
  <2> QED BY <1>2, <1>6, <1>8, <2>1, VariableFacts
<1>10. \A y \in Processes : SameLink(link[p][y], links[y])
  BY <1>4, SameLinkIs
<1>11. ASSUME NEW y \in Processes \ {p}
       PROVE  Owes(link[p][y], my[p], lk[y], v) /\ lk[y].wants = link[p][y].wants
  <2>1. y # Nobody
    BY VariablesAssumption
  <2>2. TellsThem(p, links, v, fields, Nobody, lk)
    BY <1>3, <1>5, <1>7, <1>9, <1>10 DEF TellsThem
  <2> QED BY <1>9, <2>1, <2>2, OwedToPartners
<1> QED BY <1>6, <1>11, AllAreOwed, ZenonT(40)

(* and takes it back. *)
LEMMA UndefinePairs ==
  ASSUME Inv, Pairs, NEW p \in Processes, NEW gen_cb \in BOOLEAN, Undefine(p, gen_cb)
  PROVE  Pairs'
<1>1. PICK told : told = [q \in Processes |-> IF q \in partners(p) THEN UndefineMyVariable(link[p][q])
                                                                  ELSE link[p][q]]
  OBVIOUS
<1>2. PICK c : c = IF gen_cb THEN deleted ELSE NoChange
  OBVIOUS
<1>3. PICK t : t = tryDefineSomeCollidingVariable(p, Undefined, told, order[p], master[p], c)
  OBVIOUS
<1>4. PICK lk, v : lk = t.links /\ v = Undefined
  OBVIOUS
<1>5. /\ my' = [my EXCEPT ![p] = v] /\ link' = [link EXCEPT ![p] = lk] /\ UNCHANGED <<order, channel>>
  BY <1>1, <1>2, <1>3, <1>4 DEF Undefine
<1>6. ASSUME NEW y \in Processes
      PROVE  /\ told[y] \in Links
             /\ y # p => Owes(link[p][y], my[p], told[y], v) /\ told[y].wants = link[p][y].wants
  <2>1. PICK l, x, n : l \in Links /\ l = link[p][y] /\ x = my[p] /\ n = told[y]
    BY LinkFacts
  <2>2. CASE y \in partners(p)
    <3>1. n = UndefineMyVariable(l)
      BY <1>1, <2>1, <2>2
    <3>2. n \in Links
      <4>1. PICK e \in Events : n = SaysNow(l, e)
        BY <2>1, <3>1, LinkFacts, UndefinedIsSaid
      <4> QED BY <2>1, <4>1, SaysNowFacts
    <3>3. y # p => Owned(l, x)
      BY <2>1 DEF Pairs, Relation, Two
    <3>4. y # p => Owes(l, x, n, Undefined) /\ n.wants = l.wants
      BY <2>1, <3>1, <3>3, MineUndefined
    <3> QED BY <1>4, <2>1, <3>2, <3>4
  <2>3. CASE y \notin partners(p)
    <3>1. n = NewPartner /\ l = NewPartner
      BY <1>1, <2>1, <2>3, TypedFacts DEF Partners, partners
    <3>2. Owes(l, x, n, v)
      BY <3>1, NothingOwed
    <3> QED BY <2>1, <3>1, <3>2
  <2> QED BY <2>2, <2>3
<1>7. told \in [Processes -> Links]
  BY <1>1, <1>6
<1>8. \A y \in Processes : SameLink(told[y], lk[y])
  BY <1>3, <1>4, <1>7, TrySame
<1>9. ASSUME NEW y \in Processes \ {p}
      PROVE  Owes(link[p][y], my[p], lk[y], v) /\ lk[y].wants = link[p][y].wants
  <2>1. PICK l, x, m, n : l = link[p][y] /\ x = my[p] /\ m = told[y] /\ n = lk[y]
    OBVIOUS
  <2>2. SameLink(l, l) /\ Owes(l, x, m, v) /\ m.wants = l.wants /\ SameLink(m, n)
    BY <1>6, <1>8, <2>1, SameLinkIs
  <2>3. Owes(l, x, n, v) /\ n.wants = l.wants
    BY <2>2, OwesSame
  <2> QED BY <2>1, <2>3
<1> QED BY <1>5, <1>9, AllAreOwed, ZenonT(40)

(* A change that a partner asks for: he has it already, all others are owed it. *)
LEMMA ProcessMODPairs ==
  ASSUME Inv, Pairs, NEW p \in Processes, NEW q \in Processes \ {p}, ProcessMOD(p, q)
  PROVE  Pairs'
<1>1. PICK c \in Seq(Messages), d \in Seq(Messages), x \in Variable, y \in Variable,
           l \in Links, k \in Links, both \in BOOLEAN :
             Now(p, q, c, d, x, y, l, k, both) /\ Two(c, d, x, y, l, k, both) /\ Coherent(l, x)
  BY NowFacts
<1>2. PICK h : h = Head(d)
  OBVIOUS
<1>3. PICK v : v = copy_indexes(x, h.value, DOMAIN h.value)
  OBVIOUS
<1>4. PICK fields : fields = diff_event_fields(l.ids, v, diffAllFields(v, x), h.id)
  OBVIOUS
<1>5. PICK w : w = IF Applies(l, x, h, fields) THEN copy_indexes(x, v, fields) ELSE x
  OBVIOUS
<1>6. h = next_message(p, q) /\ takes(p, q, "MOD") /\ order' = order
  BY <1>1, <1>2 DEF ProcessMOD, Now, next_message
<1>7. d # <<>> /\ h.what = "MOD" /\ h \in Messages
  <2>1. d # <<>> /\ h.what = "MOD"
    BY <1>1, <1>2, <1>6 DEF takes, Now, next_message
  <2> QED BY <1>2, <2>1, TakeFacts
<1>8. h.id < get_next_id(l.ids) /\ Owned(l, x) /\ l.ids \in Numbered
  <2>1. Asked(d, l.sent, l.ids) /\ Owned(l, x)
    BY <1>1 DEF Two, Agreed
  <2>2. 1 \in DOMAIN d /\ h = d[1]
    BY <1>2, <1>7, TakeFacts
  <2> QED BY <1>7, <2>1, <2>2 DEF Asked, Links
<1>9. l.to_send.what \in {"none", "update"} =>
        \A i \in l.sent : w[i] = IF Counting(h, i, get_index(l.ids, i)) THEN h.value[i] ELSE x[i]
  BY <1>3, <1>4, <1>5, <1>7, <1>8, ModIndex
<1>10. Applies(l, x, h, fields) <=> applicable(p, q, h) /\ fields # {}
  BY <1>1 DEF Applies, applicable, Now
<1>11. IF Applies(l, x, h, fields)
         THEN internalChangeMyVariable(p, link[p], changes[p], w, fields, q, TRUE)
         ELSE UNCHANGED <<my, changes, link>>
  <2>1. /\ next_message(p, q) = h /\ my[p] = x /\ link[p][q] = l
        /\ copy_indexes(my[p], h.value, DOMAIN h.value) = v
        /\ diff_event_fields(link[p][q].ids, v, diffAllFields(v, my[p]), h.id) = fields
    BY <1>1, <1>3, <1>4, <1>6 DEF Now
  <2> QED BY <1>5, <1>10, <2>1 DEF ProcessMOD
<1>12. channel \in [Processes -> [Processes -> Seq(Messages)]]
  BY DEF Inv, Typed
<1>13. CASE ~Applies(l, x, h, fields)
  <2>1. Owned(l, w) /\ SameHis(l, l) /\ w = x
    BY <1>5, <1>8, <1>13 DEF SameHis
  <2>2. Two(c, Tail(d), w, y, l, k, both)
    BY <1>1, <1>2, <1>7, <1>9, <2>1, ModComes
  <2>3. Two(channel[p][q], Tail(channel[q][p]), my[p], my[q], l, link[q][p], Mutual(p, q))
    BY <1>1, <2>1, <2>2 DEF Now
  <2>4. SameLink(l, link'[p][q]) /\ \A s, t \in Processes : SameLink(link[s][t], link'[s][t])
    BY <1>1, <1>11, <1>13, SameLinkIs DEF Now
  <2> QED BY <1>6, <1>11, <1>13, <2>3, <2>4, TakeHolds
<1>14. CASE Applies(l, x, h, fields)
  <2>1. l.to_send.what \notin {"define", "undefine"} /\ x # Undefined /\ fields # {}
    BY <1>14 DEF Applies
  <2>2. v \in Variable /\ DOMAIN v = DOMAIN x
    BY <1>3, <1>7, PartFacts, CopiedType
  <2>3. w = copy_indexes(x, v, fields)
    BY <1>5, <1>14
  <2>4. w \in Variable /\ DOMAIN w = DOMAIN x
    <3>1. \A i \in fields \cap DOMAIN x : v[i] \in Values
      BY <2>2, VariableFacts
    <3> QED BY <2>3, <3>1, CopiedType
  <2>5. fields \subseteq DOMAIN w
    BY <1>4, <2>2, <2>4 DEF diff_event_fields, diffAllFields
  <2>6. diffAllFields(w, x) \subseteq fields
    BY <2>3, CopiedDiffers
  <2>7. w \in Defined
    <3>1. w # Undefined
      BY <2>1, <2>4, VariableFacts
    <3> QED BY <2>4, <3>1, VariableFacts
  <2>8. PICK links : links = link[p]
    OBVIOUS
  <2>9. PICK lk : lk = told_partners(p, links, w, ToldOf(my[p], w, fields), q)
    OBVIOUS
  <2>10. my' = [my EXCEPT ![p] = w] /\ link' = [link EXCEPT ![p] = lk]
    BY <1>11, <1>14, <2>8, <2>9 DEF internalChangeMyVariable, ToldOf
  <2>11. TellsThem(p, links, w, fields, q, lk)
    <3>1. Partners(my[p], links, order[p]) /\ \A z \in Processes : SameLink(link[p][z], links[z])
      BY <2>8, TypedFacts, SameLinkIs
    <3> QED BY <1>1, <2>1, <2>5, <2>6, <2>9, <3>1 DEF TellsThem, Now
  <2>12. Two(c, Tail(d), w, y, lk[q], k, both)
    <3>1. PICK n : n = lk[q]
      OBVIOUS
    <3>2. n = AddMyVariableModification(l, w)
      <4>1. q \in partners(p)
        BY <1>6 DEF takes
      <4> QED BY <1>1, <2>8, <2>9, <3>1, <4>1 DEF told_partners, Now
    <3>3. /\ Owned(n, w) /\ SameHis(l, n)
          /\ n.sent = l.sent /\ n.ids = l.ids /\ n.wants = l.wants
          /\ n.to_send.what = l.to_send.what /\ n.to_send.fields = l.to_send.fields
      BY <1>8, <2>1, <2>4, <3>2, ModApplied
    <3>4. Two(c, Tail(d), w, y, n, k, both)
      BY <1>1, <1>2, <1>7, <1>9, <3>3, ModComes
    <3> QED BY <3>1, <3>4
  <2>13. /\ channel'[q][p] = Tail(d)
         /\ \A s, t \in Processes : <<s, t>> # <<q, p>> => channel'[s][t] = channel[s][t]
    BY <1>1, <1>6, <1>12 DEF takes, Now
  <2>14. ASSUME NEW z \in Processes \ {p}
         PROVE  /\ channel'[z][p] # <<>> => channel[z][p] # <<>>
                /\ Two(channel[p][z], channel'[z][p], w, my[z], lk[z], link[z][p], Mutual(p, z))
    <3>1. CASE z = q
      BY <1>1, <1>7, <2>12, <2>13, <3>1 DEF Now
    <3>2. CASE z # q
      <4>1. PICK e, f, s, t, m, j, b, n : Now(p, z, e, f, s, t, m, j, b) /\ n = lk[z]
        BY DEF Now
      <4>2. Two(e, f, s, t, m, j, b)
        BY <4>1 DEF Pairs, Relation, Now
      <4>3. Owes(m, s, n, w) /\ n.wants = m.wants
        <5>1. Owes(link[p][z], my[p], lk[z], w) /\ lk[z].wants = link[p][z].wants
          BY <2>7, <2>11, <3>2, OwedToPartners
        <5> QED BY <4>1, <5>1 DEF Now
      <4>4. Two(e, f, w, t, n, j, b)
        BY <4>2, <4>3, MineIsOwed
      <4>5. channel'[z][p] = channel[z][p]
        BY <2>13, <3>2
      <4> QED BY <4>1, <4>4, <4>5 DEF Now
    <3> QED BY <3>1, <3>2
  <2>15. \A s, t \in Processes : t # p => channel'[s][t] = channel[s][t]
    BY <2>13
  <2> QED BY <1>6, <2>10, <2>14, <2>15, MineHolds
<1> QED BY <1>13, <1>14

----------------------------------------------------------------------------
(* Connections *)

LEMMA OnlyOnePair ==
  ASSUME Pairs, NEW p \in Processes, NEW q \in Processes \ {p}, Relation(p, q)',
         \A x \in Processes : \A y \in Processes \ {x} : {x, y} # {p, q} => Untouched(x, y)
  PROVE  Pairs'
<1>1. ASSUME NEW y \in Processes \ {p} PROVE Relation(p, y)'
  <2>1. CASE y = q
    BY <2>1
  <2>2. CASE y # q
    <3>1. Untouched(p, y) /\ Relation(p, y)
      BY <2>2 DEF Pairs
    <3> QED BY <3>1, UntouchedHolds
  <2> QED BY <2>1, <2>2
<1>2. \A x \in Processes \ {p} : \A y \in Processes \ {x, p} : Untouched(x, y)
  OBVIOUS
<1> QED BY <1>1, <1>2, AllOthers

(* A connection begins with nothing held and nothing on its way. *)
LEMMA ConnectPairs ==
  ASSUME Inv, Pairs, NEW p \in Processes, NEW q \in Processes \ {p}, Connect(p, q)
  PROVE  Pairs'
<1>1. /\ my \in [Processes -> Variable] /\ order \in [Processes -> Seq(Processes)]
      /\ link \in [Processes -> [Processes -> Links]]
      /\ channel \in [Processes -> [Processes -> Seq(Messages)]]
  BY DEF Inv, Typed
<1>2. PICK lp, lq, sp, sq : /\ lp = [link[p] EXCEPT ![q] = NewPartner] /\ sp = Append(order[p], q)
                            /\ lq = [link[q] EXCEPT ![p] = NewPartner] /\ sq = Append(order[q], p)
  OBVIOUS
<1>3. /\ q \notin partners(p) /\ p \notin partners(q) /\ my' = my
      /\ order' = [order EXCEPT ![p] = sp, ![q] = sq]
      /\ link' = [link EXCEPT ![p] = lp, ![q] = lq]
      /\ channel' = [channel EXCEPT ![p][q] = <<>>, ![q][p] = <<>>]
  <2>1. order' = [order EXCEPT ![p] = sp, ![q] = sq]
    BY <1>1, <1>2 DEF Connect
  <2>2. link' = [link EXCEPT ![p] = lp, ![q] = lq]
    BY <1>1, <1>2 DEF Connect
  <2> QED BY <2>1, <2>2 DEF Connect
<1>4. ToSet(sp) = ToSet(order[p]) \cup {q} /\ ToSet(sq) = ToSet(order[q]) \cup {p}
  <2>1. order[p] \in Orders(p) /\ order[q] \in Orders(q)
    BY TypedFacts
  <2> QED BY <1>2, <1>3, <2>1, AppendedOrder DEF partners
<1>5. /\ partners(p)' = partners(p) \cup {q} /\ partners(q)' = partners(q) \cup {p}
      /\ \A x \in Processes \ {p, q} : partners(x)' = partners(x)
  BY <1>1, <1>3, <1>4 DEF partners
<1>6. /\ link'[p] = lp /\ link'[q] = lq /\ \A x \in Processes \ {p, q} : link'[x] = link[x]
      /\ lp[q] = NewPartner /\ \A y \in Processes \ {q} : lp[y] = link[p][y]
      /\ lq[p] = NewPartner /\ \A y \in Processes \ {p} : lq[y] = link[q][y]
  BY <1>1, <1>2, <1>3
<1>7. /\ channel'[p][q] = <<>> /\ channel'[q][p] = <<>>
      /\ \A x, y \in Processes : <<x, y>> \notin {<<p, q>>, <<q, p>>} => channel'[x][y] = channel[x][y]
  BY <1>1, <1>3
<1>8. ASSUME NEW x \in Processes, NEW y \in Processes \ {x}, {x, y} # {p, q}
      PROVE  Untouched(x, y)
  <2>1. <<x, y>> \notin {<<p, q>>, <<q, p>>} /\ <<y, x>> \notin {<<p, q>>, <<q, p>>}
    BY <1>8
  <2>2. link'[x][y] = link[x][y] /\ link'[y][x] = link[y][x]
    BY <1>6, <2>1
  <2>3. channel'[x][y] = channel[x][y] /\ channel'[y][x] = channel[y][x]
    BY <1>7, <2>1
  <2>4. ((y \in partners(x))' <=> y \in partners(x)) /\ ((x \in partners(y))' <=> x \in partners(y))
    BY <1>5, <2>1
  <2> QED BY <1>3, <2>2, <2>3, <2>4, SameLinkIs DEF Untouched
<1>9. Relation(p, q)'
  <2>1. PICK x, y, both : x = my'[p] /\ y = my'[q] /\ both = Mutual(p, q)'
    OBVIOUS
  <2>2. Two(<<>>, <<>>, x, y, NewPartner, NewPartner, both)
    BY BothNew
  <2> QED BY <1>6, <1>7, <2>1, <2>2 DEF Relation
<1> QED BY <1>8, <1>9, OnlyOnePair

(* A connection that is lost on one side leaves the other as it was. *)
LEMMA erasePartnerPairs ==
  ASSUME Inv, Pairs, NEW p \in Processes, NEW q \in Processes \ {p}, q \in partners(p),
         erasePartner(p, q)
  PROVE  Pairs'
<1>1. /\ order \in [Processes -> Seq(Processes)] /\ link \in [Processes -> [Processes -> Links]]
      /\ channel \in [Processes -> [Processes -> Seq(Messages)]]
  BY DEF Inv, Typed
<1>2. PICK rest : rest = RemoveAt(order[p], Min(places(order[p], {q})))
  OBVIOUS
<1>3. PICK gone : gone = [link[p] EXCEPT ![q] = NewPartner]
  OBVIOUS
<1>4. PICK c, t : /\ c = IF link[p][q].collides THEN changes[p] ELSE deleted
                  /\ t = tryDefineSomeCollidingVariable(p, my[p], gone, rest, Nobody, c)
  OBVIOUS
<1>5. PICK lk : lk = IF ~use_master_slave(p) /\ link[p][q].his # Undefined THEN t.links ELSE gone
  OBVIOUS
<1>6. /\ order' = [order EXCEPT ![p] = rest] /\ my' = my
      /\ channel' = [channel EXCEPT ![q][p] = <<>>]
      /\ link' = [link EXCEPT ![p] = lk]
  BY <1>2, <1>3, <1>4, <1>5 DEF erasePartner
<1>7. /\ ToSet(rest) = ToSet(order[p]) \ {q}
      /\ gone \in [Processes -> Links]
      /\ \A x \in Processes : gone[x] = IF x = q THEN NewPartner ELSE link[p][x]
  <2>1. Gone(p, q, gone, rest)
    BY <1>2, <1>3 DEF Gone
  <2>2. gone \in [Processes -> Links]
    BY <1>1, <1>3, NewPartnerFacts
  <2> QED BY <2>1, <2>2, GoneFacts
<1>8. \A x \in Processes : SameLink(gone[x], lk[x])
  <2>1. \A x \in Processes : SameLink(gone[x], t.links[x])
    BY <1>4, <1>7, TrySame
  <2> QED BY <1>5, <2>1, SameLinkIs
<1>9. /\ partners(p)' = partners(p) \ {q} /\ \A x \in Processes \ {p} : partners(x)' = partners(x)
  BY <1>1, <1>6, <1>7 DEF partners
<1>10. link'[p] = lk /\ \A x \in Processes \ {p} : link'[x] = link[x]
  BY <1>1, <1>6
<1>11. /\ channel'[q][p] = <<>>
       /\ \A x, y \in Processes : <<x, y>> # <<q, p>> => channel'[x][y] = channel[x][y]
  BY <1>1, <1>6
<1>12. ASSUME NEW x \in Processes, NEW y \in Processes, <<x, y>> # <<p, q>>
       PROVE  SameLink(link[x][y], link'[x][y]) /\ ((y \in partners(x))' <=> y \in partners(x))
  <2>1. CASE x = p
    BY <1>7, <1>8, <1>9, <1>10, <1>12, <2>1
  <2>2. CASE x # p
    BY <1>9, <1>10, <2>2, SameLinkIs
  <2> QED BY <2>1, <2>2
<1>13. ASSUME NEW x \in Processes, NEW y \in Processes \ {x}, {x, y} # {p, q}
       PROVE  Untouched(x, y)
  <2>1. <<x, y>> \notin {<<p, q>>, <<q, p>>} /\ <<y, x>> \notin {<<p, q>>, <<q, p>>}
    BY <1>13
  <2>2. channel'[x][y] = channel[x][y] /\ channel'[y][x] = channel[y][x]
    BY <1>11, <2>1
  <2> QED BY <1>6, <1>12, <2>1, <2>2 DEF Untouched
<1>14. Relation(p, q)'
  <2>1. PICK d, e, x, y, l, k, both : Now(p, q, d, e, x, y, l, k, both)
    BY DEF Now
  <2>2. PICK n, j : n = link'[p][q] /\ j = link'[q][p]
    OBVIOUS
  <2>3. Two(d, e, x, y, l, k, both)
    BY <2>1 DEF Pairs, Relation, Now
  <2>4. Two(d, <<>>, x, y, NewPartner, k, FALSE)
    BY <2>3, OneGone
  <2>5. SameLink(NewPartner, n) /\ SameLink(k, j)
    <3>1. SameLink(NewPartner, n)
      BY <1>7, <1>8, <1>10, <2>2
    <3>2. k = j
      BY <1>10, <2>1, <2>2 DEF Now
    <3> QED BY <3>1, <3>2, SameLinkIs
  <2>6. Two(d, <<>>, x, y, n, j, FALSE)
    BY <2>4, <2>5, TwoSame DEF SameLink
  <2>7. Mutual(p, q)' = FALSE
    BY <1>9 DEF Mutual
  <2>8. channel'[p][q] = d /\ channel'[q][p] = <<>> /\ my'[p] = x /\ my'[q] = y
    BY <1>6, <1>11, <2>1 DEF Now
  <2>9. Two(channel'[p][q], channel'[q][p], my'[p], my'[q], link'[p][q], link'[q][p], FALSE)
    BY <2>2, <2>6, <2>8
  <2>10. channel'[p][q] # <<>> => (p \in partners(q))'
    BY <1>9, <2>1, <2>8 DEF Pairs, Relation, Now
  <2>11. channel'[q][p] = <<>>
    BY <2>8
  <2> QED BY <2>7, <2>9, <2>10, <2>11 DEF Relation
<1> QED BY <1>13, <1>14, OnlyOnePair

----------------------------------------------------------------------------
(* The beginning *)

LEMMA SettledRest ==
  ASSUME Init, NEW p \in Processes, NEW q \in Processes, NEW l, l = settled(p, q)
  PROVE  /\ l.init = IF {p, q} \in plan.links THEN Handshake ELSE {}
         /\ l.his_id = IF has_from(p, q) THEN 0 ELSE -1
         /\ l.wants = (filter[q] /\ {p, q} \in plan.links)
         /\ l.told_filter = (filter[p] /\ {p, q} \in plan.links)
         /\ l.sent = IF has_from(q, p) THEN DOMAIN plan.first ELSE {}
         /\ l.ids = IF has_from(q, p) THEN update_fully(0) ELSE NoIds
         /\ l.his = IF has_from(p, q) THEN plan.first ELSE Undefined
         /\ l.his_to_send.fields = {} /\ l.to_send.what = "none"
BY DEF settled, NewPartner, Nothing, NoEvent

(* The owner of the variable and a partner who has it, or will never be told of it *)
LEMMA SettledHalf ==
  ASSUME Init, NEW p \in Processes, NEW q \in Processes, NEW x, x = my[p],
         NEW l, l = settled(p, q), NEW k, k = settled(q, p), NEW both
  PROVE  Owned(l, x) /\ Agreed(<<>>, <<>>, x, l, k, both)
<1>1. x = IF p = plan.owner THEN plan.first ELSE Undefined
  BY DEF Init
<1>2. {q, p} = {p, q} /\ filter[q] \in BOOLEAN /\ DOMAIN Undefined = {}
  BY DEF Init, Undefined
<1>3. /\ l.wants = (filter[q] /\ {p, q} \in plan.links) /\ k.told_filter = l.wants
      /\ l.sent = IF has_from(q, p) THEN DOMAIN plan.first ELSE {}
      /\ l.ids = IF has_from(q, p) THEN update_fully(0) ELSE NoIds
      /\ k.his_id = IF has_from(q, p) THEN 0 ELSE -1
      /\ k.his = IF has_from(q, p) THEN plan.first ELSE Undefined
      /\ k.his_to_send.fields = {} /\ l.to_send.what = "none"
  <2>1. /\ l.wants = (filter[q] /\ {p, q} \in plan.links)
        /\ l.sent = IF has_from(q, p) THEN DOMAIN plan.first ELSE {}
        /\ l.ids = IF has_from(q, p) THEN update_fully(0) ELSE NoIds
        /\ l.to_send.what = "none"
    BY SettledRest, ZenonT(30)
  <2>2. /\ k.told_filter = (filter[q] /\ {q, p} \in plan.links)
        /\ k.his_id = IF has_from(q, p) THEN 0 ELSE -1
        /\ k.his = IF has_from(q, p) THEN plan.first ELSE Undefined
        /\ k.his_to_send.fields = {}
    BY SettledRest, ZenonT(30)
  <2> QED BY <1>2, <2>1, <2>2
<1>4. has_from(q, p) <=> p = plan.owner /\ l.wants
  BY <1>2, <1>3 DEF has_from
<1>5. CASE ~has_from(q, p)
  <2>1. l.wants => DOMAIN x = {}
    BY <1>1, <1>2, <1>4, <1>5
  <2> QED BY <1>3, <1>5, <2>1, NewAgreed
<1>6. CASE has_from(q, p)
  <2>1. /\ l.sent = DOMAIN x /\ l.ids = update_fully(0) /\ k.his_id = 0 /\ k.his = x /\ l.wants
        /\ l.to_send.what = "none"
    BY <1>1, <1>3, <1>4, <1>6
  <2>2. /\ Sent(l.ids, l.sent) /\ get_next_id(l.ids) = 1 /\ l.ids.default = 0
        /\ \A i : get_index(l.ids, i) = 0
    BY <2>1, FullySent
  <2>3. Owned(l, x)
    BY <2>1, <2>2 DEF Owned
  <2>4. said(<<>>) = {} /\ InOrder(<<>>)
    BY DEF said, InOrder
  <2>5. Told({}, k.his, k.his_id)
    BY <2>1 DEF Told
  <2>6. Follows({}, k.his, k.his_id, l.sent, l.ids)
    BY <2>1, <2>2 DEF Follows
  <2>7. Asked(<<>>, l.sent, l.ids) /\ AskedOf(<<>>, k.his_id) /\ FilterTold(<<>>, k.told_filter, l.wants)
    BY <1>3 DEF Asked, AskedOf, FilterTold
  <2>8. Agree({}, <<>>, x, l, k)
    BY <2>1 DEF Agree, Coming, Back
  <2> QED BY <2>3, <2>4, <2>5, <2>6, <2>7, <2>8 DEF Agreed
<1> QED BY <1>5, <1>6

(* The beginning of a plan: partners who have exchanged all. *)
LEMMA InitPairs == Init => Pairs
<1> SUFFICES ASSUME Init, NEW p \in Processes, NEW q \in Processes \ {p} PROVE Relation(p, q)
  BY DEF Pairs
<1>1. PICK x, y, l, k, both : /\ x = my[p] /\ y = my[q] /\ both = Mutual(p, q)
                              /\ l = settled(p, q) /\ k = settled(q, p)
  OBVIOUS
<1>2. /\ link[p][q] = l /\ link[q][p] = k /\ channel[p][q] = <<>> /\ channel[q][p] = <<>>
  BY <1>1 DEF Init
<1>3. Owned(l, x) /\ Agreed(<<>>, <<>>, x, l, k, both)
  BY <1>1, SettledHalf
<1>4. Owned(k, y) /\ Agreed(<<>>, <<>>, y, k, l, both)
  BY <1>1, SettledHalf
<1>5. Greeted(<<>>, <<>>, l, k, both)
  <2>1. /\ l.init = IF {p, q} \in plan.links THEN Handshake ELSE {}
        /\ k.init = IF {q, p} \in plan.links THEN Handshake ELSE {}
    BY <1>1, SettledRest
  <2>2. {q, p} = {p, q}
    OBVIOUS
  <2>3. \/ l.init = {} /\ k.init = {}
        \/ l.init = Handshake /\ k.init = Handshake
    BY <2>1, <2>2
  <2> QED BY <2>3, NoneOnItsWay DEF Greeted
<1>6. Two(<<>>, <<>>, x, y, l, k, both)
  BY <1>3, <1>4, <1>5 DEF Two
<1> QED BY <1>1, <1>2, <1>6 DEF Relation

----------------------------------------------------------------------------
(* The rest *)

LEMMA NothingOfPairs ==
  ASSUME Pairs, UNCHANGED <<my, order, link, channel>>
  PROVE  Pairs'
<1>1. \A p \in Processes : \A q \in Processes \ {p} : Untouched(p, q)
  BY SameLinkIs DEF Untouched, partners
<1> QED BY <1>1, UntouchedHolds DEF Pairs

(* A user's calls. *)
LEMMA UsePairs ==
  ASSUME Inv, Pairs, NEW p \in Processes, Use(p)
  PROVE  Pairs'
<1>1. plan.callbacks \subseteq BOOLEAN
  BY VariablesAssumption DEF Inv, Typed
<1>2. ASSUME NEW n \in Sizes, NEW v \in values(n), NEW cb \in plan.callbacks, Define(p, v, cb)
      PROVE  Pairs'
  <2>1. v \in Defined /\ cb \in BOOLEAN
    BY <1>1 DEF Defined
  <2> QED BY <1>2, <2>1, DefinePairs
<1>3. ASSUME NEW cb \in plan.callbacks, Undefine(p, cb) PROVE Pairs'
  BY <1>1, <1>3, UndefinePairs
<1>4. ASSUME NEW i \in 1 .. Max(Sizes), NEW x \in Values, NEW cb \in plan.callbacks,
             ChangeMine(p, i, x, cb)
      PROVE  Pairs'
  BY <1>1, <1>4, ChangeMinePairs
<1>5. ASSUME NEW i \in 1 .. Max(Sizes), NEW x \in Values, NEW cb \in plan.callbacks,
             NEW q \in partners(p), ChangePartnerVariable(p, q, i, x, cb)
      PROVE  Pairs'
  BY <1>1, <1>5, ChangePartnerVariablePairs
<1>6. CASE SetFilters(p)
  BY <1>6, NothingOfPairs DEF SetFilters
<1>7. ASSUME NEW name \in Processes, SetMaster(p, name) PROVE Pairs'
  BY <1>7, NothingOfPairs DEF SetMaster
<1>8. CASE GetVariableChanges(p)
  BY <1>8, NothingOfPairs DEF GetVariableChanges
<1> QED BY <1>2, <1>3, <1>4, <1>5, <1>6, <1>7, <1>8 DEF Use

(* What a process and a partner do. *)
LEMMA ExchangePairs ==
  ASSUME Inv, Pairs, NEW p \in Processes, NEW q \in Processes \ {p}, Exchange(p, q)
  PROVE  Pairs'
<1>1. CASE Connect(p, q)
  BY <1>1, ConnectPairs
<1>2. CASE Lose(p, q)
  BY <1>2, erasePartnerPairs DEF Lose
<1>3. CASE Ended(p, q)
  BY <1>3, erasePartnerPairs DEF Ended
<1>4. ASSUME NEW again \in BOOLEAN, EvalSendForPartner(p, q, again) PROVE Pairs'
  BY <1>4, EvalSendForPartnerPairs
<1>5. CASE SendFilters(p, q)
  BY <1>5, SendFiltersPairs
<1>6. CASE SendHis(p, q)
  BY <1>6, SendHisPairs
<1>7. CASE SendMine(p, q)
  BY <1>7, SendMinePairs
<1>8. CASE ProcessINIT(p, q)
  BY <1>8, ProcessINITPairs
<1>9. CASE ProcessINIT_ACC(p, q)
  BY <1>9, ProcessINIT_ACCPairs
<1>10. CASE ProcessMOD(p, q)
  BY <1>10, ProcessMODPairs
<1>11. CASE ProcessSET(p, q)
  BY <1>11, ProcessSETPairs
<1>12. CASE ProcessDEF(p, q)
  BY <1>12, ProcessDEFPairs
<1>13. CASE ProcessUNDEF(p, q)
  BY <1>13, ProcessUNDEFPairs
<1>14. CASE ProcessFILT(p, q)
  BY <1>14, ProcessFILTPairs
<1> QED BY <1>1, <1>2, <1>3, <1>4, <1>5, <1>6, <1>7, <1>8, <1>9, <1>10, <1>11, <1>12, <1>13, <1>14
        DEF Exchange

(* All steps keep it. *)
LEMMA NextPairs == Inv /\ Pairs /\ [Next]_vars => Pairs'
<1> SUFFICES ASSUME Inv, Pairs, [Next]_vars PROVE Pairs'
  OBVIOUS
<1>1. ASSUME NEW p \in Processes, Use(p) PROVE Pairs'
  BY <1>1, UsePairs
<1>2. ASSUME NEW p \in Processes, NEW q \in Processes \ {p}, Exchange(p, q) PROVE Pairs'
  BY <1>2, ExchangePairs
<1>3. CASE UNCHANGED vars
  BY <1>3, NothingOfPairs DEF vars
<1> QED BY <1>1, <1>2, <1>3 DEF Next

(* So it always holds. *)
LEMMA AlwaysPairs == Spec => [](Inv /\ Pairs)
<1>1. Init => Inv /\ Pairs
  BY InitHolds, InitPairs
<1>2. Inv /\ Pairs /\ [Next]_vars => (Inv /\ Pairs)'
  BY NextHolds, NextPairs
<1> QED BY <1>1, <1>2, PTL DEF Spec

(* The next message h of a partner is for what a process holds of him and his own variable. *)
Fits(l, x, h) ==
  /\ h.what = "INIT" => ~inited(l)
  /\ h.what \notin {"INIT", "INIT-ACC"} => "received_init" \in l.init
  /\ h.what = "SET" => DOMAIN h.value \subseteq DOMAIN l.his
  /\ h.what \in {"SET", "UNDEF"} => l.his_id # -1
  /\ h.what = "MOD" /\ l.to_send.what \notin {"define", "undefine"} /\ is_safe_to_apply(l.ids, h.id) =>
       /\ DOMAIN h.value \subseteq DOMAIN x
       /\ IF l.to_send.what = "none" THEN l.sent = DOMAIN x
          ELSE DOMAIN l.to_send.value = DOMAIN x

(* What two partners hold of each other and what is on its way make it so. *)
LEMMA NextFits ==
  ASSUME NEW c, NEW d \in Seq(Messages), NEW x \in Variable, NEW y, NEW l \in Links, NEW k, NEW both,
         Two(c, d, x, y, l, k, both), d # <<>>, NEW h, h = Head(d)
  PROVE  Fits(l, x, h)
<1>1. 1 \in DOMAIN d /\ h = d[1] /\ h \in Messages /\ \A a \in DOMAIN d : a \in Nat /\ ~(a < 1)
  BY TakeFacts
<1>2. (h.what = "INIT" => ~inited(l)) /\ (h.what \notin {"INIT", "INIT-ACC"} => "received_init" \in l.init)
  BY <1>1 DEF Two, Greeted, Hand, inited
<1>3. PICK S, his, id : S = said(d) /\ his = l.his /\ id = l.his_id
  OBVIOUS
<1>4. Told(S, his, id) /\ S \in SUBSET Messages /\ id \in Int /\ his \in Variable
  BY <1>3, SaidType DEF Two, Agreed, Links
<1>5. Says(h) => h \in S /\ \A n \in S \ {h} : h.id < n.id
  <2>1. InOrder(d)
    BY DEF Two, Agreed
  <2>2. /\ said(Tail(d)) = said(d) \ SaidNow(h)
        /\ Says(h) => h \in said(d) /\ \A n \in said(Tail(d)) : h.id < n.id
    BY <2>1, TakeSaid
  <2> QED BY <1>3, <2>2 DEF SaidNow
<1>6. ASSUME h.what = "SET" PROVE DOMAIN h.value \subseteq DOMAIN l.his /\ l.his_id # -1
  <2>1. h \in S /\ \A n \in S \ {h} : h.id < n.id
    BY <1>5, <1>6 DEF Says
  <2>2. DOMAIN h.value # {} /\ DOMAIN h.value \subseteq DOMAIN his
    BY <1>4, <1>6, <2>1, SetFits
  <2>3. his # Undefined
    BY <1>4, <2>2, VariableFacts
  <2>4. id >= 0
    BY <1>4, <2>3 DEF Told
  <2> QED BY <1>3, <1>4, <2>2, <2>4
<1>7. ASSUME h.what = "UNDEF" PROVE l.his_id # -1
  <2>1. h \in S /\ \A n \in S \ {h} : h.id < n.id
    BY <1>5, <1>7 DEF Says
  <2>2. \A n \in S : n.id \in Int /\ ~(n.id < h.id)
    BY <1>4, <2>1 DEF Messages
  <2>3. id # -1
    BY <1>4, <1>7, <2>1, <2>2 DEF Told
  <2> QED BY <1>3, <2>3
<1>8. Owned(l, x) /\ Asked(d, l.sent, l.ids)
  BY DEF Two, Agreed
<1>9. ASSUME h.what = "MOD", l.to_send.what \notin {"define", "undefine"}, is_safe_to_apply(l.ids, h.id)
      PROVE  /\ DOMAIN h.value \subseteq DOMAIN x
             /\ IF l.to_send.what = "none" THEN l.sent = DOMAIN x
                ELSE DOMAIN l.to_send.value = DOMAIN x
  BY <1>1, <1>8, <1>9, ModFits
<1> QED BY <1>2, <1>6, <1>7, <1>9 DEF Fits

(* No assertion of CmCore about a partner fails, whatever both do and whenever their
   messages come: a MOD is only applied to the variable it was made from
   (is_safe_to_apply, AddMyVariableModification), a SET or an UNDEF only comes for a
   variable the partner has defined, what waits to be sent is of the type he knows
   (update_my_variable_state_after_send), and no INIT comes when the handshake is over
   (ReceivedTextData). *)
THEOREM AssertionsNeverFail == Spec => []AssertionsHold
<1>1. ASSUME Inv, Pairs, NEW p \in Processes, NEW q \in partners(p)
      PROVE  LET l == link[p][q]
                 m == next_message(p, q)
             IN  /\ l.his_to_send.fields \subseteq DOMAIN l.his
                 /\ l.to_send.what = "update" => l.sent = DOMAIN l.to_send.value
                 /\ l.to_send.what = "undefine" => l.sent # {}
                 /\ channel[q][p] # <<>> =>
                      /\ m.what = "INIT" => ~inited(l)
                      /\ m.what \notin {"INIT", "INIT-ACC"} => "received_init" \in l.init
                      /\ m.what = "SET" => DOMAIN m.value \subseteq DOMAIN l.his
                      /\ m.what \in {"SET", "UNDEF"} => l.his_id # -1
                      /\ m.what = "MOD" /\ applicable(p, q, m) =>
                           /\ DOMAIN m.value \subseteq DOMAIN my[p]
                           /\ IF l.to_send.what = "none" THEN l.sent = DOMAIN my[p]
                              ELSE DOMAIN l.to_send.value = DOMAIN my[p]
  <2>1. q \in Processes \ {p}
    BY <1>1, TypedFacts
  <2>2. PICK c \in Seq(Messages), d \in Seq(Messages), x \in Variable, y \in Variable,
             l \in Links, k \in Links, both \in BOOLEAN :
               Now(p, q, c, d, x, y, l, k, both) /\ Two(c, d, x, y, l, k, both) /\ Coherent(l, x)
    BY <1>1, <2>1, NowFacts
  <2>3. l = link[p][q] /\ d = channel[q][p] /\ x = my[p]
    BY <2>2 DEF Now
  <2>4. PICK h : h = next_message(p, q)
    OBVIOUS
  <2>5. h = Head(d)
    BY <2>3, <2>4 DEF next_message
  <2>6. /\ l.his_to_send.fields \subseteq DOMAIN l.his
        /\ l.to_send.what = "update" => l.sent = DOMAIN l.to_send.value
        /\ l.to_send.what = "undefine" => l.sent # {}
    BY <2>2 DEF Coherent, Two, Owned
  <2>7. d # <<>> => Fits(l, x, h)
    BY <2>2, <2>5, NextFits
  <2>8. applicable(p, q, h) => l.to_send.what \notin {"define", "undefine"} /\ is_safe_to_apply(l.ids, h.id)
    BY <2>3 DEF applicable
  <2> QED BY <2>3, <2>4, <2>6, <2>7, <2>8 DEF Fits
<1>2. Inv /\ Pairs => InitComesFirst
  <2> SUFFICES ASSUME Inv, Pairs, NEW p \in Processes, NEW q \in partners(p), channel[q][p] # <<>>
               PROVE  IF next_message(p, q).what = "INIT" THEN ~inited(link[p][q])
                      ELSE next_message(p, q).what # "INIT-ACC" => "received_init" \in link[p][q].init
    BY DEF InitComesFirst
  <2> QED BY <1>1
<1>3. Inv /\ Pairs /\ TypeOK => AssertionsHold
  BY <1>1, <1>2 DEF AssertionsHold
<1> QED BY <1>3, AlwaysPairs, TypesAreKept, PTL

(* Once nothing waits or is on its way between two partners, each has what the other
   has. *)
LEMMA NothingLeft ==
  ASSUME NEW x, NEW y \in Variable, NEW l \in Links, NEW k \in Links,
         Two(<<>>, <<>>, x, y, l, k, TRUE), k.to_send.what = "none", l.his_to_send.fields = {}
  PROVE  l.his = IF l.told_filter THEN y ELSE Undefined
<1>1. Owned(k, y) /\ Agreed(<<>>, <<>>, y, k, l, TRUE)
  BY DEF Two
<1>2. said(<<>>) = {}
  BY DEF said
<1>3. PICK his, id, sent, ids, wants :
        his = l.his /\ id = l.his_id /\ sent = k.sent /\ ids = k.ids /\ wants = l.told_filter
  OBVIOUS
<1>4. /\ Follows({}, his, id, sent, ids) /\ FilterTold(<<>>, wants, k.wants) /\ Agree({}, <<>>, y, k, l)
  BY <1>1, <1>2, <1>3 DEF Agreed
<1>5. his \in Variable /\ id \in Int /\ ids \in Numbered /\ Sent(ids, sent)
  BY <1>1, <1>3 DEF Links, Owned
<1>6. k.wants = wants
  BY <1>4 DEF FilterTold
<1>7. DOMAIN his = sent /\ sent = IF wants THEN DOMAIN y ELSE {}
  BY <1>1, <1>3, <1>4, <1>6 DEF Follows, Owned
<1>8. ASSUME NEW i \in sent PROVE his[i] = y[i]
  <2>1. get_index(ids, i) \in Int
    BY <1>5, SentFacts
  <2>2. get_index(ids, i) <= id
    BY <1>4, <1>5, <2>1 DEF Follows
  <2>3. Back(<<>>, i, get_index(ids, i), his[i], y[i])
    BY <1>3, <1>4, <2>2 DEF Agree
  <2> QED BY <2>3 DEF Back
<1>9. CASE wants
  <2>1. IsValue(his) /\ IsValue(y) /\ DOMAIN his = DOMAIN y /\ \A i \in DOMAIN y : his[i] = y[i]
    BY <1>5, <1>7, <1>8, <1>9, VariableFacts
  <2>2. his = y
    BY <2>1 DEF IsValue
  <2> QED BY <1>3, <1>9, <2>2
<1>10. CASE ~wants
  <2>1. his = Undefined
    BY <1>5, <1>7, <1>10, VariableFacts
  <2> QED BY <1>3, <1>10, <2>1
<1> QED BY <1>9, <1>10

(* Whatever changes of both crossed on the way, were dropped (diff_event_fields) or were
   merged, and whatever was defined, undefined or filtered in between: when two partners
   have nothing more to send, each has of the other's variable what the other has. *)
THEOREM PartnersAgree == Spec => []AgreeWhenQuiet
<1>1. ASSUME Inv, Pairs, NEW p \in Processes, NEW q \in Processes, quiet(p, q), quiet(q, p)
      PROVE  inited(link[p][q]) /\ link[p][q].his = IF filter[p] THEN my[q] ELSE Undefined
  <2>1. q \in partners(p) /\ p \in partners(q) /\ q \in Processes \ {p}
    <3>1. q \in partners(p) /\ p \in partners(q)
      BY <1>1 DEF quiet
    <3> QED BY <1>1, <3>1, TypedFacts
  <2>2. PICK c \in Seq(Messages), d \in Seq(Messages), x \in Variable, y \in Variable,
             l \in Links, k \in Links, both \in BOOLEAN :
               Now(p, q, c, d, x, y, l, k, both) /\ Two(c, d, x, y, l, k, both)
    BY <1>1, <2>1, NowFacts
  <2>3. PICK wants : wants = filter[p]
    OBVIOUS
  <2>4. /\ c = <<>> /\ d = <<>> /\ both = TRUE /\ y = my[q] /\ l = link[p][q] /\ k = link[q][p]
    BY <1>1, <2>1, <2>2 DEF quiet, Now, Mutual
  <2>5. /\ ~unanswered(l) /\ (wants_init(l) => "sent_init" \in l.init)
        /\ ~unanswered(k) /\ (wants_init(k) => "sent_init" \in k.init)
        /\ inited(l) => l.his_to_send.fields = {} /\ l.told_filter = wants
        /\ inited(k) => k.to_send.what = "none"
    BY <1>1, <2>3, <2>4 DEF quiet
  <2>6. Shake(<<>>, l, k) /\ Shake(<<>>, k, l) /\ Two(<<>>, <<>>, x, y, l, k, TRUE)
    BY <2>2, <2>4 DEF Two, Greeted
  <2>7. inited(l) /\ inited(k)
    BY <2>5, <2>6, Finished
  <2>8. l.his = IF l.told_filter THEN y ELSE Undefined
    <3>1. k.to_send.what = "none" /\ l.his_to_send.fields = {}
      BY <2>5, <2>7
    <3> QED BY <2>6, <3>1, NothingLeft
  <2> QED BY <2>3, <2>4, <2>5, <2>7, <2>8
<1>2. Inv /\ Pairs => AgreeWhenQuiet
  BY <1>1 DEF AgreeWhenQuiet
<1> QED BY <1>2, AlwaysPairs, PTL

==============================================================================
