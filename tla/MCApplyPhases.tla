---------------------------- MODULE MCApplyPhases ----------------------------
(***************************************************************************)
(* Three configurations: a router with middleware, service and transport;  *)
(* the same with the middleware and the transport renamed; nothing.        *)
(***************************************************************************)
EXTENDS ApplyPhases

Routed(m, t) ==
    LET mid == <<"middlewares", m>>
        trn == <<"serversTransports", t>>
        svc == <<"services", "a">>
        rtr == <<"routers", "a">>
    IN  [o \in {mid, trn, svc, rtr} |->
            CASE o = rtr -> {mid, svc}
              [] o = svc -> {trn}
              [] OTHER   -> {}]

MCDesired == {Routed("a", "a"), Routed("b", "b"), [o \in {} |-> {}]}

=============================================================================
