------------------------------ MODULE Lifecycle ------------------------------
(***************************************************************************)
(* What every controller of the operator promises about a custom resource  *)
(* and the things that it makes for it in the cluster.  Things are made    *)
(* only while the resource has the finalizer, the resource is not released *)
(* before all of them are deleted, and once it is gone nothing is made     *)
(* again.  Caches, versions, conflicts and retries do not show.            *)
(***************************************************************************)
CONSTANT Things

VARIABLES
  finalizer,  \* whether the resource has the finalizer of its controller
  deleting,   \* whether the user has deleted the resource
  gone,       \* whether it is gone from the API server
  exist       \* the things that have been made for it and exist

vars == <<finalizer, deleting, gone, exist>>

Init ==
  /\ finalizer = FALSE /\ deleting = FALSE /\ gone = FALSE
  /\ exist = {}

\* The controller takes over a resource that nobody has deleted.
Adopt ==
  /\ ~deleting
  /\ finalizer' = TRUE
  /\ UNCHANGED <<deleting, gone, exist>>

\* Something is made, perhaps by a Reconcile that does not know of a deletion yet.
Make(x) ==
  /\ finalizer
  /\ exist' = exist \cup {x}
  /\ UNCHANGED <<finalizer, deleting, gone>>

\* Something is deleted, by the controller or by someone else.
Lose(x) ==
  /\ exist' = exist \ {x}
  /\ UNCHANGED <<finalizer, deleting, gone>>

\* The user deletes the resource, which stays while it has the finalizer.
Delete ==
  /\ ~deleting
  /\ deleting' = TRUE
  /\ gone' = ~finalizer
  /\ UNCHANGED <<finalizer, exist>>

\* The controller lets the resource go.
Release ==
  /\ deleting
  /\ exist = {}
  /\ finalizer' = FALSE
  /\ gone' = TRUE
  /\ UNCHANGED <<deleting, exist>>

Next ==
  \/ Adopt \/ Delete \/ Release
  \/ \E x \in Things : Make(x) \/ Lose(x)

Spec == Init /\ [][Next]_vars
=============================================================================
