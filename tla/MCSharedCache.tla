--------------------------- MODULE MCSharedCache ---------------------------
(* SharedCache for TLC: two goroutines, one name of a job. *)
EXTENDS SharedCache

CONSTANTS u1, u2, n1

SomeUsers == {u1, u2}
SomeNames == {n1}
=============================================================================
