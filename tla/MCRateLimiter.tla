---------------------------- MODULE MCRateLimiter ----------------------------
(* Instances of RateLimiter for TLC.                                       *)
EXTENDS RateLimiter, TLC

CONSTANTS rpm, rpd

CallerSymmetry == Permutations(Callers)

\* The day of rpd is two minutes of rpm long.
TwoPeriods == (rpm :> 1) @@ (rpd :> 2)
OnePeriod == (rpm :> 2)
=============================================================================
