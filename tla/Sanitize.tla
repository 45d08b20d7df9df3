------------------------------ MODULE Sanitize ------------------------------
(***************************************************************************)
(* SanitizeTraefikConfig: every object of the HTTP section gets its        *)
(* Kubernetes name and every reference follows.                            *)
(*                                                                         *)
(* A section is a function from upstream names to specs.  A spec is a body *)
(* that passes through, the references to other objects in the places the  *)
(* code looks at, in order, and whether it parses as a JSON object.        *)
(***************************************************************************)
EXTENDS ResourceName

CONSTANT Config   \* the configurations the endpoint may serve

Order == <<"middlewares", "services", "serversTransports", "routers">>
Kind == {Order[i] : i \in 1..Len(Order)}

(***************************************************************************)
(* Where the code looks for references: chain.middlewares of a middleware; *)
(* weighted, mirroring and failover services and                           *)
(* loadBalancer.serversTransport of a service; service and middlewares of  *)
(* a router.                                                               *)
(***************************************************************************)
RefersTo(k) ==
    CASE k = "middlewares"       -> {"middlewares"}
      [] k = "services"          -> {"services", "serversTransports"}
      [] k = "serversTransports" -> {}
      [] k = "routers"           -> {"services", "middlewares"}

(* References live where the code looks for them; hashes are hex digits. *)
ASSUME ConfigAssumption ==
    \A c \in Config :
        /\ DOMAIN c = Kind
        /\ \A k \in Kind : \A n \in DOMAIN c[k] :
              /\ n \in Seq(Chars) /\ IsHash(shortHash(n))
              /\ c[k][n].refs \in Seq(RefersTo(k) \X Seq(Chars))
              /\ \A i \in 1..Len(c[k][n].refs) : IsHash(shortHash(c[k][n].refs[i][2]))

VARIABLES
    cfg,        \* the parsed configuration
    sanitized,  \* the configuration being built
    at,         \* the section being populated, an index of Order
    todo,       \* its names still to do
    result      \* "none", then "ok" or "error"

vars == <<cfg, sanitized, at, todo, result>>

NoSpecs == [n \in {} |-> {}]
Nothing == [k \in Kind |-> NoSpecs]

\* Mutant: specs that do not parse are passed over.
NamesParsed(k) == {n \in DOMAIN cfg[k] : cfg[k][n].good}

(* The loop of a section goes over all its names. *)
Names(k) == DOMAIN cfg[k]

Init ==
    /\ cfg \in Config
    /\ sanitized = Nothing
    /\ at = 1
    /\ todo = Names(Order[1])
    /\ result = "none"

-----------------------------------------------------------------------------
\* Mutant: the section is ranged over as the map it is.
NextKeyUnsorted(n) == n \in todo

(* sortKeys *)
NextKey(n) == n \in todo /\ \A m \in todo \ {n} : Before(n, m)

(* buildNameMappings *)
Mappings(c) == [k \in Kind |-> [n \in DOMAIN c[k] |-> SanitizeResourceName(n)]]

sanitizeReference(name, mapping) ==
    IF name \in DOMAIN mapping THEN mapping[name] ELSE SanitizeResourceName(name)

\* Mutant: the references of a spec are left as they are.
RewrittenNot(spec, mappings) == [body |-> spec.body, refs |-> spec.refs]

(* sanitizeRouterRaw, sanitizeMiddlewareRaw and sanitizeServiceRaw. *)
Rewritten(spec, mappings) ==
    [body |-> spec.body,
     refs |-> [i \in 1..Len(spec.refs) |->
                  LET r == spec.refs[i] IN <<r[1], sanitizeReference(r[2], mappings[r[1]])>>]]

(* Transports pass through unread; any other spec must be a JSON object. *)
Parses(k, n) == k = "serversTransports" \/ cfg[k][n].good

(* One turn of the loop of populateSanitized<kind>. *)
Populate(n) ==
    LET k == Order[at]
        key == SanitizeResourceName(n)
    IN  /\ result = "none"
        /\ NextKey(n)
        /\ Parses(k, n)
        /\ todo' = todo \ {n}
        /\ sanitized' =
              [sanitized EXCEPT ![k] =
                  [x \in DOMAIN @ \cup {key} |->
                      IF x = key THEN Rewritten(cfg[k][n], Mappings(cfg)) ELSE @[x]]]
        /\ UNCHANGED <<cfg, at, result>>

(* A spec that does not parse fails the whole configuration. *)
Fail(n) ==
    /\ result = "none"
    /\ NextKey(n)
    /\ ~Parses(Order[at], n)
    /\ sanitized' = Nothing
    /\ todo' = {}
    /\ result' = "error"
    /\ UNCHANGED <<cfg, at>>

NextSection ==
    /\ result = "none"
    /\ todo = {}
    /\ at < Len(Order)
    /\ at' = at + 1
    /\ todo' = Names(Order[at + 1])
    /\ UNCHANGED <<cfg, sanitized, result>>

Return ==
    /\ result = "none"
    /\ todo = {}
    /\ at = Len(Order)
    /\ result' = "ok"
    /\ UNCHANGED <<cfg, sanitized, at, todo>>

Next ==
    \/ \E n \in todo : Populate(n) \/ Fail(n)
    \/ NextSection
    \/ Return

Spec == Init /\ [][Next]_vars

-----------------------------------------------------------------------------
Sanitizes(k, key) == {n \in DOMAIN cfg[k] : SanitizeResourceName(n) = key}

(* n is the last in byte order of the names that share its Kubernetes name. *)
Stays(k, n) ==
    \A m \in Sanitizes(k, SanitizeResourceName(n)) \ {n} : Before(m, n)

(***************************************************************************)
(* Every object the upstream defines has its Kubernetes name in the        *)
(* result, or the whole configuration is refused: an object is never       *)
(* missing, which the collection of stale objects would take for removed.  *)
(***************************************************************************)
NothingVanishes ==
    result = "ok" =>
        \A k \in Kind :
            DOMAIN sanitized[k] = {SanitizeResourceName(n) : n \in DOMAIN cfg[k]}

(***************************************************************************)
(* Two names may share their Kubernetes name.  Which object stays is       *)
(* decided by the names alone, never by the order of a map: the last one   *)
(* in byte order.  Otherwise the object would change back and forth from   *)
(* round to round with an unchanged upstream.                              *)
(***************************************************************************)
LastNameWins ==
    result = "ok" =>
        \A k \in Kind : \A key \in DOMAIN sanitized[k] :
            \E n \in Sanitizes(k, key) :
                Stays(k, n) /\ sanitized[k][key].body = cfg[k][n].body

(***************************************************************************)
(* A reference to an object the upstream defines reaches it: the spec that *)
(* stays under a name refers to a name in the result, and where no other   *)
(* object shares that name, to the body it meant.                          *)
(***************************************************************************)
ReferencesFollow ==
    result = "ok" =>
        \A k \in Kind : \A n \in DOMAIN cfg[k] : Stays(k, n) =>
            \A i \in 1..Len(cfg[k][n].refs) :
                LET r == cfg[k][n].refs[i]
                    key == sanitized[k][SanitizeResourceName(n)].refs[i][2]
                IN  r[2] \in DOMAIN cfg[r[1]] =>
                        /\ key \in DOMAIN sanitized[r[1]]
                        /\ Sanitizes(r[1], key) = {r[2]} =>
                             sanitized[r[1]][key].body = cfg[r[1]][r[2]].body

(***************************************************************************)
(* Whatever the upstream names, Kubernetes accepts the names in the result *)
(* and those it refers to, also of objects defined elsewhere: at the       *)
(* limit, when the cut falls on a dash, when nothing is left of a name.    *)
(***************************************************************************)
NamesAreValid ==
    \A k \in Kind : \A key \in DOMAIN sanitized[k] :
        /\ IsResourceName(key)
        /\ \A i \in 1..Len(sanitized[k][key].refs) : IsResourceName(sanitized[k][key].refs[i][2])

(***************************************************************************)
(* A name whose words fit becomes exactly its words joined by dashes; a    *)
(* longer one keeps a beginning of them, up to the limit, before the hash. *)
(***************************************************************************)
NamesKeepWords ==
    result = "ok" =>
        \A k \in Kind : \A n \in DOMAIN cfg[k] :
            LET words == WordsJoined(n)
                Starts(key) ==
                    \E i \in 1..Len(words) :
                        key = SubSeq(words, 1, i) \o <<"-">> \o shortHash(n)
            IN  \E key \in DOMAIN sanitized[k] :
                    CASE words = <<>>                   -> key = <<"x", "-">> \o shortHash(n)
                      [] Len(words) > maxK8sNameLength  ->
                            Starts(key) /\ Len(key) >= maxK8sNameLength - 1
                      [] OTHER                          -> key = words

=============================================================================
