---------------------------- MODULE MCVariables -----------------------------
(* Variables for TLC: every plan is one of the cases worth trying. *)
EXTENDS Variables, TLC

CONSTANTS a, b, c

ops(S) == [x \in {<<s[1], s[2]>> : s \in S} |-> (CHOOSE s \in S : <<s[1], s[2]>> = x)[3]]

(* a defines an array of two, b and c have asked for it *)
Star == [owner |-> a, first |-> <<0, 0>>, links |-> {{a, b}, {a, c}}, filters |-> {b, c},
         use_master_slave |-> {}, msv_always_connect |-> FALSE, callbacks |-> {TRUE},
         ops |-> <<>>]
Pair == [Star EXCEPT !.links = {{a, b}}]
Single == [Pair EXCEPT !.first = <<0>>]

(* a asks b and c, and nobody defines anything yet *)
Asking == [Star EXCEPT !.owner = Nobody, !.filters = {a}, !.first = <<0>>]

(* a asks b and c, of which b is its master *)
Mastered == [Asking EXCEPT !.owner = b, !.use_master_slave = {a}, !.msv_always_connect = TRUE]

(* Changes of the owner and of a partner, or of two partners, that cross *)
Conflicts == {
  [Pair EXCEPT !.ops = ops({<<a, "change", 2>>, <<b, "change", 2>>})],
  [Single EXCEPT !.ops = ops({<<a, "change", 1>>, <<b, "change", 2>>})],
  [Pair EXCEPT !.ops = ops({<<a, "change", 1>>, <<b, "change", 1>>, <<a, "undefine", 1>>}),
               !.callbacks = {FALSE}],
  [Star EXCEPT !.ops = ops({<<a, "change", 1>>, <<b, "change", 1>>, <<c, "change", 1>>})] }

(* A variable is undefined or gets another type while it is changed *)
Redefinitions == {
  [Single EXCEPT !.ops = ops({<<a, "define", 2>>, <<a, "undefine", 1>>, <<b, "change", 1>>})] }

FilterChanges == {
  [Single EXCEPT !.ops = ops({<<b, "filter", 2>>, <<a, "change", 1>>, <<b, "change", 1>>})],
  [Single EXCEPT !.ops = ops({<<b, "filter", 2>>, <<a, "undefine", 1>>, <<a, "define", 1>>})] }

Collisions == {
  [Asking EXCEPT !.ops = ops({<<a, "define", 1>>, <<b, "define", 1>>, <<c, "define", 1>>,
                              <<a, "undefine", 1>>, <<b, "undefine", 1>>})],
  [Single EXCEPT !.filters = {a, b}, !.callbacks = BOOLEAN,
                 !.ops = ops({<<b, "define", 1>>, <<a, "undefine", 1>>, <<b, "change", 1>>})] }

Losses == {
  [Single EXCEPT !.ops = ops({<<a, "lose", 1>>, <<b, "connect", 1>>, <<a, "change", 1>>,
                              <<b, "change", 1>>})],
  [Single EXCEPT !.ops = ops({<<a, "lose", 1>>, <<b, "connect", 1>>, <<a, "change", 1>>,
                              <<a, "retry", 1>>, <<b, "retry", 1>>})],
  [Asking EXCEPT !.owner = b,
                 !.ops = ops({<<a, "lose", 1>>, <<b, "lose", 1>>, <<c, "define", 1>>,
                              <<a, "define", 1>>})] }

Masters == {
  [Mastered EXCEPT !.ops = ops({<<c, "define", 1>>, <<a, "master", 2>>, <<b, "undefine", 1>>,
                                <<a, "change", 1>>})],
  [Mastered EXCEPT !.ops = ops({<<c, "define", 1>>, <<a, "lose", 1>>, <<b, "connect", 1>>,
                                <<c, "change", 1>>, <<a, "change", 1>>})],
  [Mastered EXCEPT !.msv_always_connect = FALSE,
                   !.ops = ops({<<c, "define", 1>>, <<a, "master", 2>>, <<a, "lose", 1>>,
                                <<c, "change", 1>>})] }

MCPlans == UNION {Conflicts, Redefinitions, FilterChanges, Collisions, Losses, Masters}
=============================================================================
