------------------------------ MODULE MCGateway ------------------------------
(* Instances of Gateway for TLC.                                           *)
EXTENDS Gateway, TLC

CONSTANTS rpm, tpm

StreamSymmetry == Permutations(Streams)

\* Windows of rpm start at 0 and at 2, those of tpm at every instant.
RequestPeriod == (rpm :> 2)
RequestLimit == (rpm :> 2)
TokenPeriod == (tpm :> 1)
TokenLimit == (tpm :> 0)
NoLimit == [q \in {} |-> 0]
PromptAndTotal == ("prompt" :> 0) @@ ("total" :> 1)

Usage(p, c, t) ==
  ("prompt" :> p) @@ ("response" :> c) @@ ("total" :> t)
SomeReports == {Usage(1, 0, 1), Usage(1, 0, 0)}
OneReport == {Usage(0, 1, 1)}
=============================================================================
