--------------------------- MODULE StreamTransform ---------------------------
(***************************************************************************)
(* TransformTCP and TransformUDP: the Services, EndpointSlices and         *)
(* IngressRoutes of one section of TCP or UDP services and routers.        *)
(*                                                                         *)
(* The port of a service becomes the end of its Kubernetes name, and       *)
(* routes read it back from there.  Numerals are written in base           *)
(* Len(Digit); of an address only its family matters.                      *)
(***************************************************************************)
EXTENDS ResourceName

CONSTANTS
    Digit,    \* the digits in order, a sequence of alphanumeric characters
    MaxPort,  \* the largest port, 65535
    Family,   \* of each host: "IPv4", "IPv6" or "FQDN"
    Section   \* the sections to transform

Digits == {Digit[d] : d \in 1..Len(Digit)}
DigitValue(c) == (CHOOSE d \in 1..Len(Digit) : Digit[d] = c) - 1

(* What the digits of a text read so far stand for. *)
Read(s) ==
    LET n[i \in 0..Len(s)] ==
            IF i = 0 THEN 0 ELSE n[i - 1] * Len(Digit) + DigitValue(s[i])
    IN  n

Number(s) == Read(s)[Len(s)]

(* %d *)
Numeral(p) ==
    CHOOSE s \in UNION {[1..n -> Digits] : n \in 1..p} :
        Number(s) = p /\ DigitValue(s[1]) # 0

(* %s-%d *)
PortedName(d, p) == d \o <<"-">> \o Numeral(p)

ASSUME StreamAssumption ==
    /\ Digit \in Seq(AlphaNum) /\ Len(Digit) > 1
    /\ \A i, j \in 1..Len(Digit) : i # j => Digit[i] # Digit[j]
    /\ MaxPort \in Nat \ {0}
    /\ \A s \in Section :
          /\ s.proto \in {"TCP", "UDP"}
          /\ \A d \in DOMAIN s.services :
                /\ d \in Seq(Chars)
                /\ s.services[d].servers \in Seq([host : DOMAIN Family, port : Nat])
                /\ \A k \in 1..Len(s.services[d].servers) :
                      LET p == s.services[d].servers[k].port
                      IN  p \in 1..MaxPort => IsHash(shortHash(PortedName(d, p)))

VARIABLES
    section,    \* the section
    pc,         \* "index", "artifacts", "routes", "ok" or "error"
    pending,    \* services or routers still to do
    svcs, slices, ingresses   \* what has been built, by name

transformVars == <<section, pc, pending, svcs, slices, ingresses>>

None == [n \in {} |-> {}]
With(f, n, x) == [m \in DOMAIN f \cup {n} |-> IF m = n THEN x ELSE f[m]]

TransformInit ==
    /\ section \in Section
    /\ pc = "index" /\ pending = {}
    /\ svcs = None /\ slices = None /\ ingresses = None

-----------------------------------------------------------------------------
(* parsePort32 on a text *)
parsePort32(s) ==
    /\ s # <<>> /\ \A k \in 1..Len(s) : s[k] \in Digits
    /\ Number(s) \in 1..MaxPort

\* Mutant: the first server decides on the port.
setOrValidatePortFirst(servers) == servers[1].port \in 1..MaxPort

(* All servers agree on one valid port; 0 stands for an address without. *)
setOrValidatePort(servers) ==
    \A k \in 1..Len(servers) : servers[k].port \in 1..MaxPort /\ servers[k].port = servers[1].port

(* extractLBAddressesPort succeeds: some servers, and one port. *)
Extracts(service) == service.servers # <<>> /\ setOrValidatePort(service.servers)

PortOf(d) == section.services[d].servers[1].port
HostsOf(d) == [k \in DOMAIN section.services[d].servers |-> section.services[d].servers[k].host]

(* buildTCPServiceIndex, buildUDPServiceIndex *)
BuildIndex ==
    /\ pc = "index"
    /\ \A d \in DOMAIN section.services : Extracts(section.services[d])
    /\ pc' = "artifacts" /\ pending' = DOMAIN section.services
    /\ UNCHANGED <<section, svcs, slices, ingresses>>

-----------------------------------------------------------------------------
IsIP(h) == Family[h] # "FQDN"

(* Two families before any name, going from left to right. *)
MixedFamilies(hosts) ==
    \E j \in 1..Len(hosts) :
        /\ \A k \in 1..j : IsIP(hosts[k])
        /\ Family[hosts[j]] # Family[hosts[1]]

\* Mutant: the first host decides.
chooseAddressTypeFirst(hosts) == Family[hosts[1]]

chooseAddressType(hosts) ==
    IF \E k \in 1..Len(hosts) : ~IsIP(hosts[k]) THEN "FQDN" ELSE Family[hosts[1]]

KubeName(d) == SanitizeResourceName(PortedName(d, PortOf(d)))

(* The slice beside a Service has a name of its own, and no label that links it to the Service. *)
SliceName(n) == n \o <<"-", "e", "p", "s">>

HeadlessService(d) == [port |-> PortOf(d)]

EndpointSlice(d) ==
    [port |-> PortOf(d), hosts |-> HostsOf(d), type |-> chooseAddressType(HostsOf(d))]

(* One turn of the loop over the sorted names; a later one of a name wins when applied. *)
BuildArtifacts(d) ==
    /\ pc = "artifacts"
    /\ d \in pending /\ \A e \in pending \ {d} : Before(d, e)
    /\ ~MixedFamilies(HostsOf(d))
    /\ svcs' = With(svcs, KubeName(d), HeadlessService(d))
    /\ slices' = With(slices, SliceName(KubeName(d)), EndpointSlice(d))
    /\ pending' = pending \ {d}
    /\ UNCHANGED <<section, pc, ingresses>>

StartRoutes ==
    /\ pc = "artifacts" /\ pending = {}
    /\ pc' = "routes" /\ pending' = DOMAIN section.routers
    /\ UNCHANGED <<section, svcs, slices, ingresses>>

-----------------------------------------------------------------------------
(* Only a TCP router may name a service that is not defined. *)
MayFallBack == section.proto = "TCP"

ServiceName(r) ==
    IF r.service \in DOMAIN section.services THEN KubeName(r.service) ELSE SanitizeResourceName(r.service)

(* derivePortFromName: what follows the last dash. *)
AfterDash(s) ==
    LET dashes == {k \in 2..(Len(s) - 1) : s[k] = "-"}
    IN  IF dashes = {} THEN <<>> ELSE SubSeq(s, Max(dashes) + 1, Len(s))

derivePortFromName(s) == Number(AfterDash(s))

Routable(r) ==
    /\ r.service # <<>> /\ (section.proto = "TCP" => r.rule)
    /\ r.service \in DOMAIN section.services \/ MayFallBack
    /\ parsePort32(AfterDash(ServiceName(r)))

(* serversTransport of a TCP service, <<>> if there is none. *)
TransportOf(r) ==
    IF section.proto = "TCP" /\ r.service \in DOMAIN section.services /\ section.services[r.service].transport # <<>>
    THEN SanitizeResourceName(section.services[r.service].transport) ELSE <<>>

Route(n) ==
    LET r == section.routers[n]
    IN  [service |-> ServiceName(r), port |-> derivePortFromName(ServiceName(r)),
         transport |-> TransportOf(r), of |-> n]

(* One turn of the loop over the routers, which is in no order. *)
BuildRoute(n) ==
    /\ pc = "routes"
    /\ n \in pending
    /\ Routable(section.routers[n])
    /\ ingresses' = With(ingresses, SanitizeResourceName(n), Route(n))
    /\ pending' = pending \ {n}
    /\ UNCHANGED <<section, pc, svcs, slices>>

(* Any error ends the transformation, and with it the round. *)
TransformFail ==
    /\ \/ pc = "index" /\ \E d \in DOMAIN section.services : ~Extracts(section.services[d])
       \/ pc = "artifacts" /\ \E d \in pending : MixedFamilies(HostsOf(d)) /\ \A e \in pending \ {d} : Before(d, e)
       \/ pc = "routes" /\ \E n \in pending : ~Routable(section.routers[n])
    /\ pc' = "error"
    /\ UNCHANGED <<section, pending, svcs, slices, ingresses>>

TransformReturn ==
    /\ pc = "routes" /\ pending = {}
    /\ pc' = "ok"
    /\ UNCHANGED <<section, pending, svcs, slices, ingresses>>

TransformNext ==
    \/ BuildIndex \/ StartRoutes \/ TransformFail \/ TransformReturn
    \/ \E d \in pending : BuildArtifacts(d) \/ BuildRoute(d)

TransformSpec == TransformInit /\ [][TransformNext]_transformVars

-----------------------------------------------------------------------------
(* A name that is cut ends in its hash, and ten hex digits may read as a port. *)
HashReadsAsPort(d) ==
    LET name == PortedName(d, PortOf(d))
    IN  /\ Extracts(section.services[d])
        /\ parsePort32(shortHash(name))
        /\ Len(WordsJoined(name)) > maxK8sNameLength

SomeHashIsPort == \E d \in DOMAIN section.services : HashReadsAsPort(d)

(***************************************************************************)
(* A route to a service of the section, and every UDP route, names a       *)
(* Service that is built, with the port of that Service, of the slice      *)
(* built beside it and of every server upstream - although the port went   *)
(* through the sanitized name.  It may fail only where a name is cut and   *)
(* its hash reads as a port.  That Kubernetes would take the slice for the *)
(* Service's is not claimed: nothing links the two.                        *)
(***************************************************************************)
RoutesNameServices ==
    pc = "ok" =>
        \/ \A n \in DOMAIN ingresses :
              LET d == section.routers[ingresses[n].of].service
                  s == ingresses[n].service IN
              d \in DOMAIN section.services \/ section.proto = "UDP" =>
                  /\ d \in DOMAIN section.services
                  /\ s \in DOMAIN svcs /\ svcs[s].port = ingresses[n].port
                  /\ SliceName(s) \in DOMAIN slices /\ slices[SliceName(s)].port = ingresses[n].port
                  /\ \A k \in 1..Len(section.services[d].servers) :
                        section.services[d].servers[k].port = ingresses[n].port
        \/ SomeHashIsPort

(***************************************************************************)
(* An EndpointSlice of one IP family holds addresses of that family only,  *)
(* as Kubernetes demands, in whatever order hosts and names come.          *)
(***************************************************************************)
SlicesAreUniform ==
    \A n \in DOMAIN slices : slices[n].type # "FQDN" =>
        \A k \in 1..Len(slices[n].hosts) : Family[slices[n].hosts[k]] = slices[n].type

=============================================================================
