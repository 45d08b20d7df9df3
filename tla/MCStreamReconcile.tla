-------------------------- MODULE MCStreamReconcile --------------------------
(***************************************************************************)
(* Names that collide, that end like a port and that are too long, with a  *)
(* hash that reads as a port and with one that does not; servers           *)
(* that agree and disagree on port and family; numerals in base 2.  The    *)
(* simpler sections also meet what earlier rounds may have left: routes to *)
(* Services that go, stay, change their port or are not there, slices of   *)
(* any family.                                                             *)
(***************************************************************************)
EXTENDS StreamReconcile

MCChar == <<"-", ".", "0", "1", "a", "x">>
MCLower == [c \in Chars |-> c]
MCHash(s) ==
    IF Len(s) = 12 THEN <<"1", "1">>
    ELSE [i \in 1..nameHashLength |-> IF Len(s) % (i + 1) = 0 THEN "a" ELSE "x"]
MCDigit == <<"0", "1">>
MCFamily == [h \in {"four", "six", "name"} |->
                CASE h = "four" -> "IPv4" [] h = "six" -> "IPv6" [] h = "name" -> "FQDN"]

Dotted == <<"a", ".", "x">>
Dashed == <<"a", "-", "x">>
Ported == <<"a", "-", "1">>
Near   == <<"a", "a", "a", "a", "x">>   \* short enough for a Service, not for its slice
Long   == <<"a", "a", "a", "a", "a", "a", "a", "a", "x">>
Longer == <<"a", "a", "a", "a", "a", "a", "a", "a", "a", "x">>   \* its hash reads as a port

Hosts == {"four", "six", "name"}

Servers ==
    {<<>>}
    \cup {<<[host |-> h, port |-> p]>> : h \in Hosts, p \in {0, 1, 3, 4}}
    \cup {<<[host |-> h, port |-> 1], [host |-> g, port |-> p]>> : h, g \in Hosts, p \in {0, 1, 2}}
    \cup {<<[host |-> h, port |-> 3], [host |-> g, port |-> 3], [host |-> i, port |-> p]>> :
              h, g, i \in Hosts, p \in {1, 3}}

MCSection ==
    {[proto |-> proto,
      services |-> [d \in ds |-> [servers |-> IF d = Dotted THEN srv ELSE <<[host |-> "six", port |-> 1]>>,
                                  transport |-> t]],
      routers |-> [n \in rs |-> [rule |-> rule, service |-> IF n = Dotted THEN s ELSE Dotted]]] :
        proto \in {"TCP", "UDP"},
        ds \in {{}, {Dotted}, {Dotted, Dashed}, {Dotted, Ported}, {Dotted, Near}, {Dotted, Long}, {Dotted, Longer}},
        srv \in Servers, t \in {<<>>, Dotted},
        rs \in {{Dotted}, {Dotted, Dashed}}, rule \in BOOLEAN,
        s \in {<<>>, Dotted, Dashed, Ported, Near, Long, Longer}}

Route1 == <<"a", "-", "x">>
Route2 == <<"x">>
Svc(n) == CASE n = "same"  -> <<"a", "-", "x", "-", "1">>
            [] n = "port"  -> <<"a", "-", "x", "-", "1", "1">>
            [] n = "stale" -> <<"x", "-", "1">>
PortAt(s) == IF s = Svc("port") THEN 3 ELSE 1

Left(type, ns, to) ==
    [svcs   |-> [s \in {Svc(n) : n \in ns} |-> [port |-> PortAt(s)]],
     slices |-> [s \in {SliceName(Svc(n)) : n \in ns} |->
                    [port |-> PortAt(SubSeq(s, 1, Len(s) - 4)), type |-> type,
                     hosts |-> <<CHOOSE h \in DOMAIN Family : Family[h] = type>>]],
     routes |-> [r \in DOMAIN to |->
                    [service |-> Svc(to[r]), port |-> PortAt(Svc(to[r])), transport |-> <<>>, of |-> r]]]

Lefts ==
    {Left(type, ns, to) : type \in {"IPv6", "FQDN"}, ns \in SUBSET {"same", "port", "stale"},
                          to \in [{Route1, Route2} -> {"same", "port", "stale"}]}

Empty == [svcs |-> None, slices |-> None, routes |-> None]

MCLeftover(s) ==
    {Empty} \cup
    IF /\ \A d \in DOMAIN s.services :
             /\ Len(s.services[d].servers) = 1 /\ Extracts(s.services[d])
             /\ s.services[d].transport = <<>>
       /\ \A n \in DOMAIN s.routers : s.routers[n].rule /\ s.routers[n].service \notin {Near, Long}
       /\ {Near, Longer} \cap DOMAIN s.services = {}
    THEN Lefts ELSE {}

=============================================================================
