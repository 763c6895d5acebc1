----------------------------- MODULE MCSwitches -----------------------------
(* Switches for TLC. *)
EXTENDS Switches

=============================================================================
