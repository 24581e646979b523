-------------------------- MODULE MCResponseStream --------------------------
(* An instance of ResponseStream for TLC. *)
EXTENDS ResponseStream

CONSTANTS i1, i2

TwoRequests == {i1, i2}
=============================================================================
