------------------------ MODULE MCEndpointController ------------------------
(* Instances of EndpointController for TLC.                                *)
EXTENDS EndpointController
=============================================================================
