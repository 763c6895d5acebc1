------------------------------ MODULE ByteFifo ------------------------------
(***************************************************************************)
(* What a round buffer promises: a sequence of bytes to which whole pieces *)
(* are appended, and which is only shortened from its front.               *)
(***************************************************************************)
EXTENDS Integers, Sequences

CONSTANT Pieces   \* what may be written at once

VARIABLE bytes

Init == bytes = << >>

Put == \E piece \in Pieces : bytes' = bytes \o piece

Take == \E n \in 0 .. Len(bytes) : bytes' = SubSeq(bytes, n + 1, Len(bytes))

Next == Put \/ Take

Spec == Init /\ [][Next]_bytes

=============================================================================
