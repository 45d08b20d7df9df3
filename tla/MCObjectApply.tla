---------------------------- MODULE MCObjectApply ----------------------------
(* One object with two specs, others that write twice, attempts that run out. *)
EXTENDS ObjectApply

=============================================================================
