----------------------------- MODULE MCTransfer -----------------------------
(* Instances of Transfer for TLC. *)
EXTENDS Transfer

TwoFiles == <<"a", "b">>
LastFile == {"b"}
AnyDirection == BOOLEAN
=============================================================================
