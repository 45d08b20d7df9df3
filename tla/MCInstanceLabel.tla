--------------------------- MODULE MCInstanceLabel ---------------------------
(***************************************************************************)
(* Two classes, two values; settings that are complete, incomplete and     *)
(* malformed.                                                              *)
(***************************************************************************)
EXTENDS InstanceLabel

MCSettings ==
    {[key |-> "app", value |-> "x"],
     [key |-> "app", value |-> Blank],
     [key |-> "instance", value |-> "!"]}

=============================================================================
