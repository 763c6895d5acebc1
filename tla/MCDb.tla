-------------------------------- MODULE MCDb --------------------------------
(* Db for TLC. *)
EXTENDS Db

Shape(commands, parts) == [commands |-> commands, parts |-> parts]

\* A query in two parts, while the service comes and goes and the connection is
\* lost and made again.
Withdrawals == [services |-> {"s"}, ids |-> {1}, queries |-> 1, shapes |-> {Shape(1, 2)}, rows |-> 0,
                changes |-> 2, losses |-> 1]

\* A row of an answer while the connection is lost and made again.
Losses == [Withdrawals EXCEPT !.shapes = {Shape(1, 1)}, !.rows = 1, !.changes = 1]

\* An answer of two commands, and one of two rows.
Commands == [Withdrawals EXCEPT !.shapes = {Shape(2, 1)}, !.rows = 0, !.changes = 1, !.losses = 0]
Rows == [Withdrawals EXCEPT !.shapes = {Shape(1, 1)}, !.rows = 2, !.changes = 1, !.losses = 0]

\* Two queries at a time.
TwoQueries == [Rows EXCEPT !.rows = 0, !.queries = 2]

\* Two services come and go.
TwoServices == [Withdrawals EXCEPT !.services = {"s", "t"}, !.ids = {1, 2}, !.queries = 0,
                                   !.changes = 4, !.losses = 0]

\* The service of a query goes, and comes again with its id, while it is answered.
Reannounced == [Losses EXCEPT !.changes = 3, !.losses = 0]

Bounds == {Withdrawals, Losses, Commands, Rows, TwoQueries, TwoServices, Reannounced}

\* Two connections one after the other to the same provider.
Again == <<"p", "p">>

=============================================================================
