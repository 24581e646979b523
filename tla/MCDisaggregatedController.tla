---------------------- MODULE MCDisaggregatedController ----------------------
(* Instances of DisaggregatedController for TLC. *)
EXTENDS DisaggregatedController, TLC

\* One replica of everything; counts of 0; and counts that are left out.
MCWants ==
  {[c \in Workloads |-> 1],
   [c \in Workloads |-> IF c = "prefill" THEN 1 ELSE 0],
   [c \in Workloads |-> IF c = "prefill" THEN Unset ELSE 1]}

\* A spec that is not edited.
MCOneWant == {[c \in Workloads |-> 1]}

MCVarying == {"decode"}
==============================================================================
