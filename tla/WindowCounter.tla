---------------------------- MODULE WindowCounter ----------------------------
(***************************************************************************)
(* What the rate limiter promises about a set of rules: for each rule a    *)
(* counter of the current window, which takes every increment made for     *)
(* that window and loses none, and which starts at 0 in every new window.  *)
(***************************************************************************)
EXTENDS Integers, Windows

CONSTANTS Rules, Period

VARIABLES
  now,    \* the clock
  count   \* count[r]: the counter of rule r in the current window

vars == <<now, count>>

Init ==
  /\ now = 0
  /\ count = [r \in Rules |-> 0]

\* An increment, of any amount, made for the current window of rule r.
Increment(r) ==
  /\ count'[r] \in Nat /\ count'[r] > count[r]
  /\ count' = [count EXCEPT ![r] = count'[r]]
  /\ UNCHANGED now

\* The clock moves on; rules whose window ends start again from 0.
Tick ==
  /\ now' = now + 1
  /\ count' = [r \in Rules |->
       IF WindowStart(now', Period[r]) = WindowStart(now, Period[r])
         THEN count[r] ELSE 0]

Next == Tick \/ \E r \in Rules : Increment(r)

Spec == Init /\ [][Next]_vars
=============================================================================
