--------------------------- MODULE StreamReconcile ---------------------------
(***************************************************************************)
(* reconcileTCP and reconcileUDP: what StreamTransform builds is written   *)
(* to the cluster - Services, EndpointSlices, routes - and then what is    *)
(* stale is collected.  Any call may fail, which ends the phase.           *)
(*                                                                         *)
(* The cluster is seen as its managed objects: Services and slices of both *)
(* protocols, which carry the same label and annotation, and routes of the *)
(* section's own.  The ServersTransports of a TCP section are applied and  *)
(* collected before, like any kind of Reconciler; the read-only mode, in   *)
(* which no call is made, is modelled there too.                           *)
(***************************************************************************)
EXTENDS StreamTransform

CONSTANT Leftover(_)   \* the clusters a section may meet

(* The route finds its Service, on the port it names. *)
Finds(r, services) == r.service \in DOMAIN services /\ services[r.service].port = r.port

(* The port of the route is the one its Service's name ends in. *)
ReadsPort(r) == parsePort32(AfterDash(r.service)) /\ r.port = derivePortFromName(r.service)

(* Earlier rounds, of other sections and of the other protocol, left any   *)
(* Services, slices and routes, some without their Service; only the port  *)
(* of a route was always read off the name.                                *)
ASSUME LeftoverAssumption ==
    \A s \in Section : \A c \in Leftover(s) :
        /\ DOMAIN c = {"svcs", "slices", "routes"}
        /\ \A n \in DOMAIN c.routes : ReadsPort(c.routes[n])

VARIABLES
    cluster,  \* managed Services, slices and routes, by name
    start,    \* the cluster before the round, a history variable
    grace,    \* GC_GRACE_PERIOD is set
    stage,    \* an index of Stages, 0 before, above Len(Stages) at the end
    left,     \* names the stage has still to do
    failed    \* a call has failed

streamVars == <<transformVars, cluster, start, grace, stage, left, failed>>

\* Mutant: Services are collected before the routes are written.
StagesEarlyGC == <<"services", "slices", "gcServices", "routes", "gcRoutes", "gcSlices">>

(* applyProtocolArtifacts, then the three collections. *)
Stages == <<"services", "slices", "routes", "gcRoutes", "gcServices", "gcSlices">>

(* What a stage goes over: what was built, or the stale part of a listing. *)
Work(s) ==
    CASE s = "services"   -> DOMAIN svcs
      [] s = "slices"     -> DOMAIN slices
      [] s = "routes"     -> DOMAIN ingresses
      [] s = "gcRoutes"   -> DOMAIN cluster.routes \ DOMAIN ingresses
      [] s = "gcServices" -> DOMAIN cluster.svcs \ DOMAIN svcs
      [] s = "gcSlices"   -> DOMAIN cluster.slices \ DOMAIN slices

At(s) == ~failed /\ stage \in 1..Len(Stages) /\ Stages[stage] = s

StreamInit ==
    /\ TransformInit
    /\ cluster \in Leftover(section) /\ start = cluster
    /\ grace \in BOOLEAN
    /\ stage = 0 /\ left = {} /\ failed = FALSE

TransformStep == TransformNext /\ UNCHANGED <<cluster, start, grace, stage, left, failed>>

(* The transformation has succeeded, or a stage is through. *)
NextStage ==
    /\ pc = "ok" /\ ~failed
    /\ stage <= Len(Stages) /\ left = {}
    /\ stage' = stage + 1
    /\ left' = IF stage < Len(Stages) THEN Work(Stages[stage + 1]) ELSE {}
    /\ UNCHANGED <<transformVars, cluster, start, grace, failed>>

(* applyCoreService: Get, then Create or Update of everything. *)
ApplyService(n) ==
    /\ At("services")
    /\ cluster' = [cluster EXCEPT !.svcs = With(@, n, svcs[n])]

(* The API server: a name within the limit, which -eps may exceed, and     *)
(* addresses of the slice's type; an IPv4 address reads as a name.         *)
Accepts(n, slice) ==
    /\ Len(n) <= maxK8sNameLength
    /\ \A k \in 1..Len(slice.hosts) :
          Family[slice.hosts[k]] \in IF slice.type = "FQDN" THEN {"FQDN", "IPv4"} ELSE {slice.type}

(* applyEndpointSlice: an Update leaves the address type, which is         *)
(* immutable, as it was.                                                   *)
UpdatedSlice(n) ==
    IF n \in DOMAIN cluster.slices
    THEN [slices[n] EXCEPT !.type = cluster.slices[n].type]
    ELSE slices[n]

ApplySlice(n) ==
    /\ At("slices")
    /\ Accepts(n, UpdatedSlice(n))
    /\ cluster' = [cluster EXCEPT !.slices = With(@, n, UpdatedSlice(n))]

ApplyRoute(n) ==
    /\ At("routes")
    /\ cluster' = [cluster EXCEPT !.routes = With(@, n, ingresses[n])]

(* gcStaleObjects: with a grace period the route is left to the workers. *)
CollectRoute(n) ==
    /\ At("gcRoutes")
    /\ cluster' = [cluster EXCEPT !.routes = IF grace THEN @ ELSE Restrict(@, DOMAIN @ \ {n})]

(* gcStaleCoreServices and gcStaleEndpointSlices know no grace period. *)
CollectService(n) ==
    /\ At("gcServices")
    /\ cluster' = [cluster EXCEPT !.svcs = Restrict(@, DOMAIN @ \ {n})]

CollectSlice(n) ==
    /\ At("gcSlices")
    /\ cluster' = [cluster EXCEPT !.slices = Restrict(@, DOMAIN @ \ {n})]

Call(n) ==
    /\ \/ ApplyService(n) \/ ApplySlice(n) \/ ApplyRoute(n)
       \/ CollectRoute(n) \/ CollectService(n) \/ CollectSlice(n)
    /\ left' = left \ {n}
    /\ UNCHANGED <<transformVars, start, grace, stage, failed>>

(* The first call that fails, a listing included, ends the phase; so does  *)
(* a slice the API server refuses.                                         *)
CallFails ==
    /\ pc = "ok" /\ ~failed
    /\ stage \in 1..Len(Stages)
    /\ failed' = TRUE
    /\ UNCHANGED <<transformVars, cluster, start, grace, stage, left>>

StreamNext ==
    \/ TransformStep \/ NextStage \/ CallFails
    \/ \E n \in left : Call(n)

StreamSpec == StreamInit /\ [][StreamNext]_streamVars

-----------------------------------------------------------------------------
(* A TCP router may name a service the section does not define. *)
FallsBack(n) ==
    /\ n \in DOMAIN ingresses
    /\ cluster.routes[n] = ingresses[n]
    /\ section.routers[ingresses[n].of].service \notin DOMAIN section.services

(* A route of an earlier round that this one has not touched, and that did *)
(* not find its Service before it either.                                  *)
DangledBefore(n) ==
    /\ n \in DOMAIN start.routes /\ cluster.routes[n] = start.routes[n]
    /\ ~Finds(start.routes[n], start.svcs)

(***************************************************************************)
(* reconcileTCP and reconcileUDP: a round makes no route of its protocol   *)
(* dangle - while the section is being written, wherever a call fails, and *)
(* while what is stale is collected - and once it has succeeded no route   *)
(* that earlier rounds left dangling is there any more.  Routes that fall  *)
(* back to a service the section does not define are the exception.        *)
(* Provided routes are collected at once, because Services and slices      *)
(* always are, and no hash reads as a port.                                *)
(***************************************************************************)
RoutesNeverDangle ==
    ~grace =>
        \/ \A n \in DOMAIN cluster.routes :
              \/ FallsBack(n) \/ Finds(cluster.routes[n], cluster.svcs)
              \/ DangledBefore(n) /\ stage <= Len(Stages)
        \/ SomeHashIsPort

=============================================================================
