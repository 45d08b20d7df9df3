---------------------------- MODULE HTTPTransform ----------------------------
(***************************************************************************)
(* From the HTTP section the upstream serves to the objects the phases     *)
(* apply: the sanitized section of Sanitize, then ProcessServices in the   *)
(* services phase and TransformRouterToIngressRoute in the routers phase.  *)
(*                                                                         *)
(* The body of a service holds its ServiceSpec, that of a router its rule  *)
(* ("" for none), its list of entry points and its TLS section.  A router  *)
(* refers to its service first and then to its middlewares, in order.      *)
(***************************************************************************)
EXTENDS Sanitize, ServiceConversion

CONSTANTS
    Blank,      \* an entry point of nothing but spaces
    NotString   \* an entry of a list that is not a string

ASSUME BodyAssumption ==
    \A c \in Config :
        /\ \A n \in DOMAIN c["services"] :
              LET s == c["services"][n] IN
                 /\ s.body.spec \in ServiceSpec
                 /\ s.refs # <<>> => s.body.spec.others \/ s.body.spec.lbOthers
        /\ \A n \in DOMAIN c["routers"] :
              LET r == c["routers"][n] IN
                 /\ r.body.tls \in {"none", "empty", "set"}
                 /\ \A i \in 2..Len(r.refs) : r.refs[i][1] = "middlewares"

VARIABLES
    services,     \* the TraefikServices to apply, NoSpecs before
    todoRouters,  \* routers still to transform
    transformed,  \* the IngressRoutes built so far
    refused,      \* routers that could not be transformed
    routes,       \* the IngressRoutes applied
    phase         \* of the routers: "none", "ok" or "error"

httpVars == <<vars, services, todoRouters, transformed, refused, routes, phase>>

HTTPInit ==
    /\ Init
    /\ services = NoSpecs
    /\ todoRouters = {} /\ transformed = NoSpecs /\ refused = {}
    /\ routes = NoSpecs
    /\ phase = "none"

(* The sanitized section goes to the phases, or applyConfig has failed. *)
SanitizeStep ==
    /\ Next
    /\ todoRouters' = IF result' = "ok" THEN DOMAIN sanitized'["routers"] ELSE {}
    /\ UNCHANGED <<services, transformed, refused, routes, phase>>

-----------------------------------------------------------------------------
(* reconcileServices: the specs it goes on to apply. *)
ProcessServices ==
    /\ result = "ok"
    /\ services = NoSpecs
    /\ sanitized["services"] # NoSpecs
    /\ services' = [key \in DOMAIN sanitized["services"] |->
                       processSingleService(sanitized["services"][key].body.spec)]
    /\ UNCHANGED <<vars, todoRouters, transformed, refused, routes, phase>>

-----------------------------------------------------------------------------
extractEntryPoints(list) == SelectSeq(list, LAMBDA e : e \notin {Blank, NotString})

HasService(r) == r.refs # <<>> /\ r.refs[1][1] = "services"

parseMiddlewares(r) ==
    LET before == IF HasService(r) THEN 1 ELSE 0
    IN  [i \in 1..(Len(r.refs) - before) |-> r.refs[before + i][2]]

(* A sanitized service is never the empty name: only a router without the  *)
(* key has none.                                                           *)
HasRuleAndService(r) == r.body.rule # "" /\ HasService(r)

(* The priority is copied, and left out here. *)
buildRoute(r) ==
    [match |-> r.body.rule, service |-> r.refs[1][2], middlewares |-> parseMiddlewares(r)]

AnnotateRouterEntryPointsIfPresent(eps) == IF eps = <<>> THEN "none" ELSE eps

(* An empty TLS section is dropped. *)
TransformRouterToIngressRoute(r) ==
    LET eps == extractEntryPoints(r.body.entryPoints)
    IN  [route |-> buildRoute(r), entryPoints |-> eps, tls |-> r.body.tls = "set",
         annotation |-> AnnotateRouterEntryPointsIfPresent(eps)]

(* One turn of the first loop of reconcileRouters. *)
TransformRouter(key) ==
    LET r == sanitized["routers"][key] IN
    /\ todoRouters' = todoRouters \ {key}
    /\ IF HasRuleAndService(r)
       THEN /\ transformed' = [x \in DOMAIN transformed \cup {key} |->
                                  IF x = key THEN TransformRouterToIngressRoute(r) ELSE transformed[x]]
            /\ UNCHANGED refused
       ELSE /\ refused' = refused \cup {key}
            /\ UNCHANGED transformed
    /\ UNCHANGED <<vars, services, routes, phase>>

\* Mutant: a router that cannot be transformed is only logged.
TransformErrorsLogged == FALSE

TransformErrors == refused # {}

(* Every route is to be applied, or none is; they are written one by one   *)
(* (ApplyPhases).                                                          *)
ApplyRoutes ==
    /\ result = "ok" /\ phase = "none"
    /\ todoRouters = {}
    /\ phase' = IF TransformErrors THEN "error" ELSE "ok"
    /\ routes' = IF TransformErrors THEN routes ELSE transformed
    /\ UNCHANGED <<vars, services, todoRouters, transformed, refused>>

HTTPNext ==
    \/ SanitizeStep
    \/ ProcessServices
    \/ \E key \in todoRouters : TransformRouter(key)
    \/ ApplyRoutes

HTTPSpec == HTTPInit /\ [][HTTPNext]_httpVars

-----------------------------------------------------------------------------
(***************************************************************************)
(* A load balancer becomes a Service reference only if every one of its    *)
(* servers reaches that Service, over that scheme and port, and nothing    *)
(* else in the spec is lost with it but a path after a bare name - bare    *)
(* and qualified names mixed or not.                                       *)
(***************************************************************************)
ConversionKeepsBackends ==
    \A key \in DOMAIN services :
        LET s == sanitized["services"][key].body.spec
        IN  services[key].kind = "service" /\ s.servers # <<>> =>
                /\ ~s.others /\ ~s.lbOthers
                /\ \A k \in 1..Len(s.servers) :
                      ~s.servers[k].extra /\ Reaches(s.servers[k].url, services[key].target)

(* The router whose spec stays under a name. *)
Winner(key) ==
    CHOOSE n \in Sanitizes("routers", key) : Stays("routers", n)

(* What the upstream's service n turned into is still that service: a      *)
(* Service only if it lists servers, which is none of them for a gateway.  *)
Serves(out, n) ==
    LET s == cfg["services"][n].body.spec IN
    CASE out.kind = "spec"    -> out.spec = s
      [] out.kind = "filled"  -> IsEmpty(s)
      [] out.kind = "service" -> s.listed /\ \A k \in 1..Len(s.servers) : Reaches(s.servers[k].url, out.target)

(***************************************************************************)
(* From end to end: once the routers are applied, every router of the      *)
(* upstream has its route, with its rule, with its middlewares in their    *)
(* order, and it leads to what the upstream's service means, through the   *)
(* sanitized name and the conversion of the service - also where names     *)
(* collide, unless they are names of services.  One router that cannot be  *)
(* transformed keeps back all the others.                                  *)
(***************************************************************************)
RoutesFollowRouters ==
    phase = "ok" =>
        /\ DOMAIN routes = {SanitizeResourceName(n) : n \in DOMAIN cfg["routers"]}
        /\ \A key \in DOMAIN routes :
              LET r == cfg["routers"][Winner(key)]
                  out == routes[key].route
                  service == r.refs[1][2]
                  mws == parseMiddlewares(r)
              IN  /\ out.match = r.body.rule
                  /\ out.middlewares = [i \in 1..Len(mws) |-> SanitizeResourceName(mws[i])]
                  /\ services # NoSpecs /\ Sanitizes("services", out.service) = {service} =>
                        Serves(services[out.service], service)

=============================================================================
