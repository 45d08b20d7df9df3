--------------------------- MODULE MCHTTPTransform ---------------------------
(***************************************************************************)
(* Four families of configurations.  Single: one middleware of every short *)
(* name (a dot behaves like a dash there); the limit on names is low       *)
(* enough for the cut to fall everywhere.                                  *)
(* Several: names that collide (a.a, a-a, A-a), one that is too long and   *)
(* one with nothing to keep, in several choices of what each section       *)
(* defines, what it refers to and which spec does not parse.  Balanced:    *)
(* one router to one service with up to two servers, with bare and         *)
(* qualified names, hosts of another namespace, external hosts and hosts   *)
(* that merely look like a Service.  Routed: two routers with and without  *)
(* rule and service, over entry points and TLS sections.                   *)
(***************************************************************************)
EXTENDS HTTPTransform

CONSTANT MaxLength   \* bound on the names tried one by one

MCChar == <<"-", ".", "A", "a", "x">>
MCLower == [c \in Chars |-> IF c = "A" THEN "a" ELSE c]
MCHash(s) ==
    [i \in 1..nameHashLength |-> IF Len(s) % (i + 1) = 0 THEN "a" ELSE "x"]

Dotted == <<"a", ".", "a">>
Dashed == <<"a", "-", "a">>
Upper  == <<"A", "-", "a">>
Long   == <<"a", ".", "a", "a", "x", "a">>
Dot    == <<".">>

Shape(lb, oth, lbOth, list) ==
    [loadBalancer |-> lb, listed |-> lb, others |-> oth, lbOthers |-> lbOth, servers |-> list]

(* A body carries the name it came with, so that bodies can be told apart. *)
Body(k, n) ==
    CASE k = "services" -> [from |-> n, spec |-> Shape(TRUE, TRUE, TRUE, <<>>)]
      [] k = "routers"  -> [from |-> n, rule |-> "r", entryPoints |-> <<"web">>, tls |-> "none"]
      [] OTHER          -> [from |-> n]

Section(k, names, refs, bad) ==
    [n \in names |-> [body |-> Body(k, n), refs |-> refs, good |-> n # bad]]

Single ==
    {[k \in Kind |-> IF k = "middlewares" THEN Section(k, {n}, <<<<k, n>>>>, Dot) ELSE NoSpecs] :
        n \in UNION {[1..len -> Chars \ {"."}] : len \in 0..MaxLength}}

Several ==
    {[k \in Kind |->
        CASE k = "middlewares"       -> Section(k, ms, <<<<k, Dotted>>>>, bad[1])
          [] k = "services"          -> Section(k, ss, <<<<k, Long>>, <<"serversTransports", ref>>>>, bad[2])
          [] k = "serversTransports" -> Section(k, ts, <<>>, bad[1])
          [] k = "routers"           ->
                Section(k, {Dotted, Long},
                    <<<<"services", ref>>, <<"middlewares", ref>>, <<"middlewares", Long>>>>, bad[3])] :
        ms \in SUBSET {Dotted, Dashed, Upper},
        ss \in SUBSET {Dotted, Long},
        ts \in SUBSET {Dot, Dashed},
        ref \in {Dotted, Dashed, Long, Dot},
        bad \in {<<Dot, Dot, Dot>>, <<Upper, Dot, Dot>>, <<Dot, Long, Dot>>, <<Dot, Dot, Dotted>>}}

Host == {<<"a">>, <<"b">>, <<"">>, <<"a", "ns", "svc">>, <<"a", "ns", "svc", "local">>,
         <<"a", "other", "svc">>, <<"a", "b">>, <<"", "ns", "svc">>, <<"a", "b", "ns", "svc">>}

MCURL == [scheme : {"http", "https", "tcp"}, host : Host, port : {0, 80, 443}, path : BOOLEAN]

MCServer ==
    [url : MCURL, extra : {FALSE}]
    \cup [url : {NoURL}, extra : {FALSE}]
    \cup [url : {u \in MCURL : u.host = <<"a">>}, extra : {TRUE}]

(* Of two servers the second is plain, over http or https and without a   *)
(* path, and the first is plain or a bare name with whatever goes with it. *)
Plain == {s \in MCServer : s.url = NoURL \/ (~s.url.path /\ s.url.scheme # "tcp")}
First == Plain \cup {s \in MCServer : s.url # NoURL /\ s.url.host = <<"a">>}

Specs ==
    {Shape(TRUE, FALSE, FALSE, list) :
        list \in {<<>>} \cup {<<s>> : s \in MCServer} \cup {<<s, t>> : s \in First, t \in Plain}}
    \cup {[Shape(TRUE, FALSE, FALSE, <<>>) EXCEPT !.listed = FALSE]}
    \cup {Shape(TRUE, o, ~o, <<s>>) : o \in BOOLEAN, s \in Plain}
    \cup {Shape(FALSE, o, FALSE, <<>>) : o \in BOOLEAN}

Balanced ==
    {[k \in Kind |->
        CASE k = "services" -> (Long :> [body |-> [from |-> Long, spec |-> s], refs |-> <<>>, good |-> TRUE])
          [] k = "routers"  -> Section(k, {Dotted}, <<<<"services", Long>>>>, Dot)
          [] OTHER          -> NoSpecs] : s \in Specs}

MCRouter ==
    [rule : {"", "q"},
     refs : {<<>>, <<<<"services", <<>>>>>>, <<<<"services", Dotted>>, <<"middlewares", Upper>>>>},
     entryPoints : {<<>>, <<Blank, "web", NotString, "tls">>},
     tls : {"empty", "set"}]

Router(n, r) ==
    [body |-> [from |-> n, rule |-> r.rule, entryPoints |-> r.entryPoints, tls |-> r.tls],
     refs |-> r.refs, good |-> TRUE]

Routed ==
    {[k \in Kind |->
        CASE k = "services" -> Section(k, {Dotted}, <<>>, Dot)
          [] k = "routers"  -> (Dotted :> Router(Dotted, r) @@ other :> Router(other, s))
          [] OTHER          -> NoSpecs] :
        r \in MCRouter, s \in MCRouter, other \in {Dashed, Long}}

MCConfig == Single \cup Several \cup Balanced \cup Routed

MCLBURL == [scheme |-> "http", host |-> <<"a", "b">>, port |-> 80, path |-> FALSE]

=============================================================================
