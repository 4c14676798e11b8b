---------------------------- MODULE MCAuthority -----------------------------
(***************************************************************************)
(* Addresses of five nibbles with two values each, written "0" and "a": a  *)
(* digit that is also a letter is what makes prefixes ambiguous.  Digits   *)
(* are grouped by two.  The networks nest, and the patterns collide in the *)
(* ways two patterns can: a trailing dot, a dashed group of one, a literal *)
(* that looks like a digit, an apex below another, no apex at all; one     *)
(* begins with an asterisk.                                                *)
(***************************************************************************)
EXTENDS Authority

TwoDigits == <<"0", "a">>

\* The address with the given nibbles, most significant first.
A(n4, n3, n2, n1, n0) ==
    [p \in 0 .. 4 |-> CASE p = 4 -> n4 [] p = 3 -> n3 [] p = 2 -> n2
                        [] p = 1 -> n1 [] p = 0 -> n0]

Net(addr, mask) == [addr |-> {addr}, mask |-> {mask}]

GoodNets == {Net(A(1, 0, 0, 0, 0), 4),      \* a0000/4
             Net(A(1, 0, 0, 0, 0), 12),     \* nested in it
             Net(A(1, 0, 1, 0, 0), 12),     \* its sibling
             Net(A(0, 1, 0, 0, 0), 8)}      \* apart

BadNets == {Net(A(0, 0, 0, 0, 0), 0),       \* the whole of ip6.arpa
            Net(A(1, 0, 0, 0, 0), 20),      \* a single address
            Net(A(1, 0, 0, 0, 0), 24),      \* out of range
            Net(A(1, 0, 0, 0, 0), 6),       \* not nibble aligned
            Net(A(1, 0, 0, 0, 1), 4),       \* host bits set
            [addr |-> {}, mask |-> {4}],    \* no address
            [addr |-> {A(1, 0, 0, 0, 0)}, mask |-> {}]}

Pattern(segments, dot) == {[segments |-> segments, dot |-> dot]}

GoodPatterns == {
    Pattern(<<<<"h", Placeholder>>, <<"ex">>>>, FALSE),
    Pattern(<<<<"h", Placeholder>>, <<"ex">>>>, TRUE),
    Pattern(<<<<"h", PlaceholderDashed>>, <<"ex">>>>, FALSE),
    Pattern(<<<<"h", "a", Placeholder>>, <<"ex">>>>, FALSE),
    Pattern(<<<<Placeholder, "x">>, <<"sub">>, <<"ex">>>>, FALSE),
    Pattern(<<<<"v">>, <<PlaceholderDashed>>, <<"org">>>>, FALSE),
    Pattern(<<Star, <<Placeholder>>, <<"ex">>>>, FALSE),
    Pattern(<<<<Placeholder>>>>, FALSE)}

BadPatterns == {
    {},
    Pattern(<<<<"h">>, <<"ex">>>>, FALSE),
    Pattern(<<<<Placeholder>>, <<PlaceholderDashed>>>>, FALSE),
    Pattern(<<<<>>, <<Placeholder>>>>, FALSE),
    Pattern(<<<<"h", "h", "h", "h", "h", Placeholder>>, <<"ex">>>>, FALSE),
    Pattern(<<<<"h", "h", "h", "h">>, <<"h", "h", "h">>, <<"h", "h", "h">>, <<Placeholder>>>>, FALSE)}

RawZone(net, pattern, upstream) ==
    [network |-> net, resolves_to |-> pattern, upstream |-> upstream]

GoodZones == {RawZone(n, p, "absent") : n \in GoodNets, p \in GoodPatterns}

BadZones == {RawZone(n, p, "absent") :
                 n \in BadNets, p \in {Pattern(<<<<Placeholder>>, <<"ex">>>>, FALSE)}}
            \cup {RawZone(Net(A(1, 0, 0, 0, 0), 4), p, "address") : p \in BadPatterns}
            \cup {RawZone(Net(A(1, 0, 0, 0, 0), 4), p, "invalid") : p \in GoodPatterns}

Raw(zones, primary, hostmaster, ns, word) ==
    [zones |-> zones, primary |-> primary, hostmaster |-> hostmaster,
     nameservers |-> ns, out_of_zone |-> word]

\* Files with one zone, with each combination of the global directives.
Singles == {Raw(<<z>>, p, h, ns, w) :
              z \in {y \in GoodZones : y.network = Net(A(1, 0, 0, 0, 0), 4)},
              p \in BOOLEAN, h \in BOOLEAN, ns \in BOOLEAN,
              w \in {"refused", "nxdomain", "other"}}

\* Files with two zones, in either order.
Pairs == {Raw(<<y, z>>, TRUE, TRUE, TRUE, "refused") : y, z \in GoodZones}

\* Files with a mistake.
Broken == {Raw(<<z>>, TRUE, TRUE, TRUE, "refused") : z \in BadZones}

\* Files with an upstream: for one zone, or for one of two that nest.
Upstreams ==
    LET Outer(u) == RawZone(Net(A(1, 0, 0, 0, 0), 4),
                            Pattern(<<<<"h", Placeholder>>, <<"ex">>>>, FALSE), u)
        Inner(u) == RawZone(Net(A(1, 0, 1, 0, 0), 12),
                            Pattern(<<<<"v">>, <<PlaceholderDashed>>, <<"org">>>>, FALSE), u)
    IN  {Raw(zs, TRUE, TRUE, FALSE, "refused") :
           zs \in {<<Outer("address")>>, <<Outer("address"), Inner("absent")>>,
                   <<Inner("address"), Outer("absent")>>}}

Files == Singles \cup Pairs \cup Broken \cup Upstreams \cup {Raw(<<>>, FALSE, FALSE, FALSE, "refused")}

\* One ordinary zone, with and without name servers.
OneZone == {Raw(<<RawZone(Net(A(1, 0, 0, 0, 0), 4),
                          Pattern(<<<<"h", Placeholder>>, <<"ex">>>>, FALSE), "absent")>>,
                TRUE, TRUE, ns, "refused") : ns \in BOOLEAN}

Strings(S, n) == UNION {[1 .. k -> S] : k \in 0 .. n}

Labels == Strings({"0", "a", "-"}, 5) \cup {<<"0", "a", "-", "0", "a", "-">>, <<"z">>}

Names == {<<>>, <<Arpa>>, <<<<"ex">>>>, <<<<"com">>>>, <<<<"h", "0", "0">>, <<"com">>>>,
          <<<<"0", "0">>>> \o <<Ip6, Arpa>>}

\* What an upstream may say when asked for a name: the record that is meant, one
\* with a TTL out of bounds, and one that differs in each of the other respects.
ForeignRecord(n) ==
    LET good == [owner |-> Append(n, UPSTREAM_LABEL), class |-> "IN", type |-> "PTR",
                 ttl |-> 2, target |-> {"t1"}]
    IN  {good,
         [good EXCEPT !.ttl = 0, !.target = {"t2"}],
         [good EXCEPT !.ttl = 9, !.target = {"t3"}],
         [good EXCEPT !.owner = n, !.target = {"t4"}],
         [good EXCEPT !.owner = <<Www>> \o good.owner, !.target = {"t5"}],
         [good EXCEPT !.class = "CH", !.target = {"t6"}],
         [good EXCEPT !.type = "CNAME", !.target = {"t7"}],
         [good EXCEPT !.target = {}]}

ForeignAnswers(n) == UNION {[1 .. k -> ForeignRecord(n)] : k \in 0 .. 3}
=============================================================================
