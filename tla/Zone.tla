-------------------------------- MODULE Zone --------------------------------
(***************************************************************************)
(* From the zones an operator writes to the zones the server matches:      *)
(* src/config/compile.rs (networks, templates, duplicates, order), the     *)
(* template of src/config/mod.rs, and the lookups of src/zone/lookup.rs    *)
(* and src/zone/synth.rs.                                                  *)
(***************************************************************************)
EXTENDS Nibble, FiniteSets

CONSTANTS
    MAX_LABEL,  \* octets of a label (63)
    MAX_NAME    \* octets of a name on the wire (255)

ASSUME LimitsAssumption == MAX_LABEL \in Nat /\ MAX_NAME \in Nat

Placeholder       == "%DIGITS%"
PlaceholderDashed == "%DIGITS-DASHED%"

ADDR_BITS == 4 * ADDR_NIBBLES

\* The first of a set of indices, as an Option: what `find` over a Vec returns.
FirstOf(S) == {i \in S : \A j \in S : i <= j}

\* The i-th of a set of indices, and the members of a Vec at such a set: what
\* `filter` leaves of it.
Nth(S, i) == CHOOSE j \in S : 1 + Cardinality({k \in S : k < j}) = i

Filter(vec, S) == [i \in 1 .. Cardinality(S) |-> vec[Nth(S, i)]]

The(option) == CHOOSE x \in option : TRUE

(***************************************************************************)
(* Names.                                                                  *)
(***************************************************************************)

\* Name::zone_of: apex is name or one of its ancestors; the root of all.
ZoneOf(apex, name) ==
    /\ Len(apex) <= Len(name)
    /\ SubSeq(name, Len(name) - Len(apex) + 1, Len(name)) = apex

\* Name::num_labels does not count an asterisk in front.
Star == <<"*">>

num_labels(name) == IF name # <<>> /\ name[1] = Star THEN Len(name) - 1 ELSE Len(name)

\* Octets of a name: a length octet and the text of each label, and the root.
WireLength(name) ==
    Cardinality(UNION {{i} \X (0 .. Len(name[i])) : i \in 1 .. Len(name)}) + 1

\* Name::from_labels succeeds.
Representable(name) ==
    /\ \A i \in 1 .. Len(name) : Len(name[i]) \in 1 .. MAX_LABEL
    /\ WireLength(name) <= MAX_NAME

(***************************************************************************)
(* FwdTemplate: a sequence of FwdLabels of which exactly one has digits.   *)
(***************************************************************************)
Literal(text) == [digits |-> FALSE, pre |-> text, post |-> <<>>, dashed |-> FALSE]

Digits(pre, post, dashed) ==
    [digits |-> TRUE, pre |-> pre, post |-> post, dashed |-> dashed]

\* Everything to the right of the digits label.
parent(fwd) ==
    LET tail == SubSeq(fwd.labels, fwd.digits_at + 1, Len(fwd.labels))
    IN  [i \in 1 .. Len(tail) |-> tail[i].pre]

\* The text of the digits in a label.
Written(l, digits) == IF l.dashed THEN dash_group(digits) ELSE digits

render(fwd, digits) ==
    [i \in 1 .. Len(fwd.labels) |->
        LET l == fwd.labels[i]
        IN  IF l.digits THEN l.pre \o Written(l, digits) \o l.post ELSE l.pre]

(***************************************************************************)
(* compile_network.  A raw network is what the text before and after the   *)
(* slash parse to, {} when they do not (or there is no slash).             *)
(***************************************************************************)
RawNetworks == [addr : SUBSET Address, mask : SUBSET Nat]

\* Mutant: a network of no bits is accepted.
NetworkOKAnyMask(net) ==
    /\ net.addr # {}
    /\ net.mask # {}
    /\ LET addr == The(net.addr)
           mask == The(net.mask)
       IN  /\ mask <= ADDR_BITS
           /\ mask % 4 = 0
           /\ addr = Masked(addr, mask)

NetworkOK(net) ==
    /\ net.addr # {}
    /\ net.mask # {}
    /\ LET addr == The(net.addr)
           mask == The(net.mask)
       IN  /\ mask <= ADDR_BITS
           /\ mask % 4 = 0
           /\ mask # 0
           /\ mask # ADDR_BITS
           /\ addr = Masked(addr, mask)

(***************************************************************************)
(* compile_template.  A raw pattern is its segments between dots, in which *)
(* a placeholder is one symbol, and whether it ends in a dot.              *)
(***************************************************************************)
RawPatterns == [segments : DnsName, dot : BOOLEAN]

IsPlaceholder(s) == s \in {Placeholder, PlaceholderDashed}

\* Where the placeholders are, as pairs of a segment and a place in it.
Hits(pattern) ==
    UNION {{<<i, j>> : j \in {k \in 1 .. Len(pattern.segments[i]) :
                                IsPlaceholder(pattern.segments[i][k])}}
             : i \in 1 .. Len(pattern.segments)}

compile_template(pattern) ==
    LET hit == The(Hits(pattern))
        Label(i) ==
            LET s == pattern.segments[i]
            IN  IF i = hit[1]
                  THEN Digits(SubSeq(s, 1, hit[2] - 1), SubSeq(s, hit[2] + 1, Len(s)),
                              s[hit[2]] = PlaceholderDashed)
                  ELSE Literal(s)
    IN  [labels |-> [i \in 1 .. Len(pattern.segments) |-> Label(i)],
         digits_at |-> hit[1]]

\* Mutant: the widest rendering is not tried when the file is loaded.
TemplateOKUnrendered(pattern, host_nibbles) ==
    /\ Cardinality(Hits(pattern)) = 1
    /\ \A i \in 1 .. Len(pattern.segments) : pattern.segments[i] # <<>>
    /\ LET fwd == compile_template(pattern)
       IN  fwd.labels[fwd.digits_at].dashed => host_nibbles % GROUP = 0

\* The digits of a host part of which every nibble is the largest.
Widest(host_nibbles) == [i \in 1 .. host_nibbles |-> HEX_LOWER[Len(HEX_LOWER)]]

TemplateOK(pattern, host_nibbles) ==
    /\ Cardinality(Hits(pattern)) = 1
    /\ \A i \in 1 .. Len(pattern.segments) : pattern.segments[i] # <<>>
    /\ LET fwd == compile_template(pattern)
       IN  /\ fwd.labels[fwd.digits_at].dashed => host_nibbles % GROUP = 0
           /\ Representable(render(fwd, Widest(host_nibbles)))

(***************************************************************************)
(* compile_zone and compile.  A raw zone is a network, at most one pattern *)
(* and an upstream value: absent, an address, or text that is not one.     *)
(***************************************************************************)
RawZones == [network : RawNetworks, resolves_to : SUBSET RawPatterns,
             upstream : {"absent", "address", "invalid"}]

HostNibbles(mask) == (ADDR_BITS - mask) \div 4

ZoneOK(raw) ==
    /\ NetworkOK(raw.network)
    /\ raw.resolves_to # {}
    /\ TemplateOK(The(raw.resolves_to), HostNibbles(The(raw.network.mask)))
    /\ raw.upstream # "invalid"

compile_zone(raw) ==
    LET prefix == The(raw.network.addr)
        mask == The(raw.network.mask)
        fwd == compile_template(The(raw.resolves_to))
    IN  [prefix |-> prefix,
         mask |-> mask,
         host_nibbles |-> HostNibbles(mask),
         ptr_zone |-> netmask_to_ptr_name(prefix, mask),
         fwd |-> fwd,
         fwd_parent |-> parent(fwd),
         upstream |-> raw.upstream = "address"]

\* seen_networks: no two zones with the same network.
NoDuplicateNetwork(raws) ==
    \A i, j \in 1 .. Len(raws) : raws[i].network = raws[j].network => i = j

\* seen_patterns: no two zones with the same text of a pattern.
NoDuplicatePattern(raws) ==
    \A i, j \in 1 .. Len(raws) : raws[i].resolves_to = raws[j].resolves_to => i = j

\* Any error, of whichever zone, makes Config::parse fail as a whole.
ZonesOK(raws) ==
    /\ \A i \in 1 .. Len(raws) : ZoneOK(raws[i])
    /\ NoDuplicateNetwork(raws)
    /\ NoDuplicatePattern(raws)

\* Before(i, j): a stable sort by descending mask puts i in front of j.
Before(zs, i, j) == zs[i].mask > zs[j].mask \/ (zs[i].mask = zs[j].mask /\ i < j)

\* Mutant: zones stay in the order of the file.
KeepFileOrder(zs) == zs

SortByMask(zs) ==
    LET Rank(i) == 1 + Cardinality({j \in 1 .. Len(zs) : Before(zs, j, i)})
    IN  [r \in 1 .. Len(zs) |-> zs[CHOOSE i \in 1 .. Len(zs) : Rank(i) = r]]

compile_zones(raws) == SortByMask([i \in 1 .. Len(raws) |-> compile_zone(raws[i])])

(***************************************************************************)
(* lookup.rs and synth.rs.  A zone found is given by its index.            *)
(***************************************************************************)
Contains(zone, addr) == Masked(addr, zone.mask) = zone.prefix

zone_for_addr(zones, addr) ==
    FirstOf({i \in 1 .. Len(zones) : Contains(zones[i], addr)})

\* strip_prefix_ci and strip_suffix_ci around the digits of a label, as an
\* Option: the prefix is stripped first, the suffix from what is left.
StripAround(label, pre, post) ==
    LET n == Len(label) - Len(pre) - Len(post)
    IN  IF /\ n >= 0
           /\ SubSeq(label, 1, Len(pre)) = pre
           /\ SubSeq(label, Len(label) - Len(post) + 1, Len(label)) = post
          THEN {SubSeq(label, Len(pre) + 1, Len(pre) + n)}
          ELSE {}

\* The host part that a label carries, for the template's digits label.
LabelHost(l, label, host_nibbles) ==
    LET middle == StripAround(label, l.pre, l.post)
        digits == IF l.dashed
                    THEN UNION {undash_group(m, host_nibbles) : m \in middle}
                    ELSE middle
    IN  UNION {digits_to_host(d, host_nibbles) : d \in digits}

\* Mutant: the labels after the digits are not compared.
MatchDigitsOnly(zone, qname) ==
    LET labels == zone.fwd.labels
        at == zone.fwd.digits_at
    IN  IF num_labels(qname) = Len(labels)
          THEN {Or(zone.prefix, host) :
                  host \in LabelHost(labels[at], qname[at], zone.host_nibbles)}
          ELSE {}

\* As many labels as the template has, compared one by one until it ends: the
\* address the name denotes, as an Option.
match_zone_forward(zone, qname) ==
    LET labels == zone.fwd.labels
        at == zone.fwd.digits_at
    IN  IF /\ num_labels(qname) = Len(labels)
           /\ \A i \in 1 .. Len(labels) : i # at => qname[i] = labels[i].pre
          THEN {Or(zone.prefix, host) :
                  host \in LabelHost(labels[at], qname[at], zone.host_nibbles)}
          ELSE {}

\* A template in front of which num_labels and the number of labels differ.
Starred(zone) == zone.fwd.digits_at # 1 /\ zone.fwd.labels[1].pre = Star

match_forward(zones, qname) ==
    FirstOf({i \in 1 .. Len(zones) : match_zone_forward(zones[i], qname) # {}})

zone_containing(zones, qname) ==
    FirstOf({i \in 1 .. Len(zones) : \/ ZoneOf(zones[i].ptr_zone, qname)
                                     \/ ZoneOf(zones[i].fwd_parent, qname)})

\* forward_name, as an Option: {} if the name could not be rendered.
forward_name(zone, addr) ==
    LET name == render(zone.fwd, host_digits(addr, zone.host_nibbles))
    IN  IF Representable(name) THEN {name} ELSE {}
=============================================================================
