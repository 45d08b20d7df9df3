-------------------------- MODULE ServiceConversion --------------------------
(***************************************************************************)
(* processSingleService: what becomes of the spec of one TraefikService.   *)
(* A load balancer whose servers all name one Kubernetes Service becomes a *)
(* weighted reference to it, an empty load balancer goes to the gateway    *)
(* Service, an empty spec to the load balancer of the environment.         *)
(*                                                                         *)
(* A host is the sequence of its dot-separated parts.  A port of 0 stands  *)
(* for none.  Of path and query only their presence matters.  IPv6 hosts   *)
(* are left out: qualified like a bare name they no longer parse.          *)
(***************************************************************************)
EXTENDS Naturals, Sequences

CONSTANTS
    Part,       \* parts of host names, "svc" and "" among them
    Port,       \* ports
    Namespace,  \* NAMESPACE, a part
    Gateway,    \* GATEWAY_SERVICE_NAME, or ""
    GatewayPort,
    LBURL,      \* the URL the environment gives, or NoURL
    NoURL       \* a server without a URL, or one that does not parse

URL == [scheme : {"http", "https", "tcp"}, host : Seq(Part) \ {<<>>}, port : Port, path : BOOLEAN]
Server == [url : URL \cup {NoURL}, extra : BOOLEAN]   \* extra: keys besides url

(* listed: the load balancer has the key servers.  others, lbOthers: keys  *)
(* besides loadBalancer, and besides servers in it.                        *)
ServiceSpec ==
    {s \in [loadBalancer : BOOLEAN, listed : BOOLEAN, others : BOOLEAN, lbOthers : BOOLEAN, servers : Seq(Server)] :
        (s.servers # <<>> => s.listed) /\ (s.lbOthers \/ s.listed => s.loadBalancer)}

Target == [name : Part, namespace : Part, port : Port, scheme : {"http", "https"}]

ASSUME ConversionAssumption ==
    /\ Namespace \in Part \ {"", "svc"}
    /\ Gateway \in Part
    /\ LBURL \in URL \cup {NoURL}
    /\ {0, 80, 443} \subseteq Port /\ GatewayPort \in Port

(* The results: the spec, a weighted Service, or a filled load balancer. *)
Unchanged(s) == [kind |-> "spec", spec |-> s]
Weighted(t) == [kind |-> "service", target |-> t]
Filled(u) == [kind |-> "filled", url |-> u]

(* An empty object has neither load balancer nor other keys. *)
IsEmpty(s) == ~s.loadBalancer /\ ~s.others

-----------------------------------------------------------------------------
(* extractLBServers: a load balancer that is nothing but its servers. *)
extractLBServers(s) ==
    s.loadBalancer /\ ~s.others /\ ~s.lbOthers /\ s.servers # <<>>

derivePort(u) == IF u.port > 0 THEN u.port ELSE IF u.scheme = "https" THEN 443 ELSE 80

(* The host contains .svc. or ends in .svc *)
validateParsedServiceURL(u) ==
    /\ u.scheme \in {"http", "https"}
    /\ ~u.path
    /\ \E k \in 2..Len(u.host) : u.host[k] = "svc"

IsServiceURL(u) ==
    /\ u # NoURL
    /\ validateParsedServiceURL(u)
    /\ Len(u.host) >= 3
    /\ u.host[1] # "" /\ u.host[2] # ""
    /\ u.host[3] = "svc"

parseKubeServiceURL(u) ==
    [name |-> u.host[1], namespace |-> u.host[2], port |-> derivePort(u), scheme |-> u.scheme]

\* Mutant: services are compared by name and namespace.
equalsByName(t, o) == t.name = o.name /\ t.namespace = o.namespace

equals(t, o) == t = o

(* parseUniformServiceTargets *)
Uniform(list) ==
    /\ \A k \in 1..Len(list) : ~list[k].extra /\ IsServiceURL(list[k].url)
    /\ \A k \in 2..Len(list) :
          equals(parseKubeServiceURL(list[1].url), parseKubeServiceURL(list[k].url))

(* Hosts that are not bare names: rewriteShortNameHosts passes over them. *)
Qualified(u) == u.host = <<"">> \/ Len(u.host) > 1

(* rewriteShortNameHosts gives up on a server without URL ...              *)
Rewrites(list) ==
    /\ \A k \in 1..Len(list) : list[k].url # NoURL
    /\ \E k \in 1..Len(list) : ~Qualified(list[k].url)

(* ... and qualifies bare names; path and query go.                        *)
rewriteShortNameHosts(list) ==
    [k \in 1..Len(list) |->
        LET u == list[k].url IN
        IF Qualified(u) THEN list[k]
        ELSE [list[k] EXCEPT !.url =
                 [u EXCEPT !.host = <<u.host[1], Namespace, "svc">>, !.path = FALSE]]]

(* The servers as they are, or once bare names have been qualified. *)
Converts(s) ==
    /\ extractLBServers(s)
    /\ \/ Uniform(s.servers)
       \/ Rewrites(s.servers) /\ Uniform(rewriteShortNameHosts(s.servers))

convertLoadBalancerToK8sService(s) ==
    Weighted(parseKubeServiceURL(
        IF Uniform(s.servers) THEN s.servers[1].url ELSE rewriteShortNameHosts(s.servers)[1].url))

isEmptyLoadBalancer(s) ==
    s.loadBalancer /\ ~s.others /\ ~s.lbOthers /\ s.listed /\ s.servers = <<>>

rewriteAsGatewayService ==
    Weighted([name |-> Gateway, namespace |-> Namespace, port |-> GatewayPort, scheme |-> "http"])

(* A spec that is not converted is returned as it came, not as rewritten. *)
processNonEmptyService(s) ==
    CASE Converts(s)                              -> convertLoadBalancerToK8sService(s)
      [] isEmptyLoadBalancer(s) /\ Gateway # ""   -> rewriteAsGatewayService
      [] OTHER                                    -> Unchanged(s)

processEmptyService(s) ==
    IF LBURL # NoURL /\ LBURL.host # <<"">> /\ LBURL.scheme \in {"http", "https"}
    THEN Filled(LBURL) ELSE Unchanged(s)

processSingleService(s) ==
    IF IsEmpty(s) THEN processEmptyService(s) ELSE processNonEmptyService(s)

(***************************************************************************)
(* What a server's host means inside the cluster: a bare name is a Service *)
(* of the controller's namespace.                                          *)
(***************************************************************************)
Reaches(u, t) ==
    /\ u # NoURL
    /\ u.scheme = t.scheme
    /\ derivePort(u) = t.port
    /\ \/ Len(u.host) = 1 /\ u.host[1] = t.name /\ t.namespace = Namespace
       \/ /\ Len(u.host) >= 3
          /\ u.host[1] = t.name /\ u.host[2] = t.namespace /\ u.host[3] = "svc"

=============================================================================
