------------------------------- MODULE Windows -------------------------------
(***************************************************************************)
(* The fixed time windows of the gateway's rate limiter.  Time is counted  *)
(* in whole seconds (the limiter only ever looks at now.Unix()) from an    *)
(* instant at which a window of every rule starts, as the zero time of     *)
(* Go's time.Truncate is for the minute and day windows of the four rules. *)
(***************************************************************************)
EXTENDS Integers

\* getWindowStart: the start of the window of length period that holds t.
WindowStart(t, period) == t - (t % period)
=============================================================================
