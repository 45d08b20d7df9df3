----------------------------- MODULE MCLifecycle -----------------------------
(***************************************************************************)
(* One or two replicas, of Deployments without leader election and with    *)
(* both ways of losing it.  Grace deletions, which the way of losing does  *)
(* not touch, are those of a Deployment that pauses.                       *)
(***************************************************************************)
EXTENDS Lifecycle

Exiting == [leader |-> TRUE, onLose |-> "exit", grace |-> FALSE]

Pausing == [leader |-> TRUE, onLose |-> "pause", grace |-> TRUE]

Alone == [leader |-> FALSE, onLose |-> "exit", grace |-> TRUE]

AllSettings == {Exiting, Pausing, Alone}

ElectedSettings == {Exiting, Pausing}

=============================================================================
