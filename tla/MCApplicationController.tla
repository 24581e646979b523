----------------------- MODULE MCApplicationController -----------------------
(* Instances of ApplicationController for TLC. *)
EXTENDS ApplicationController, TLC
==============================================================================
