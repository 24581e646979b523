----------------------------- MODULE MCQuotaSync -----------------------------
(* Instances of QuotaSync for TLC. *)
EXTENDS QuotaSync

CONSTANTS g1, g2, prompt, total

TwoGateways == {g1, g2}
OneType == {total}
TwoTypes == {prompt, total}
==============================================================================
