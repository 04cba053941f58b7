---------------------------- MODULE MCTailStream ----------------------------
(* Instances of TailStream for TLC. *)
EXTENDS TailStream

CONSTANTS s1, s2
=============================================================================
