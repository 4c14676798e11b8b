----------------------------- MODULE Authority ------------------------------
(***************************************************************************)
(* What the server answers with a given configuration: Config::parse,      *)
(* zone::resolve, and Handler::decide with its authority section; and the  *)
(* configuration itself, which startup loads and SIGHUP replaces.          *)
(***************************************************************************)
EXTENDS Relay

CONSTANTS
    RawConfigs,     \* configuration files the operator may write
    DigitLabels,    \* labels tried in the place of a template's digits label
    OtherNames,     \* names to query besides those of the zones themselves
    Foreign(_)      \* answers an upstream may give for a name: sequences of records

\* A file: its zones, which of the global directives it has, and the word of
\* out-of-zone.
RawFiles == [zones : Seq(RawZones), primary : BOOLEAN, hostmaster : BOOLEAN,
             nameservers : BOOLEAN, out_of_zone : STRING]

ASSUME FilesAssumption == RawConfigs \subseteq RawFiles

VARIABLE config         \* the published configuration (ArcSwap<Zones>)

(***************************************************************************)
(* Config::parse and compile_globals.                                      *)
(***************************************************************************)
ParseOK(raw) ==
    /\ ZonesOK(raw.zones)
    /\ raw.primary = raw.hostmaster
    /\ raw.out_of_zone \in {"refused", "nxdomain"}

Parse(raw) ==
    [zones |-> compile_zones(raw.zones),
     soa |-> raw.primary,
     nameservers |-> raw.nameservers,
     out_of_zone |-> raw.out_of_zone]

Apexes(c) == UNION {{z.ptr_zone, z.fwd_parent} : z \in {c.zones[i] : i \in 1 .. Len(c.zones)}}

(***************************************************************************)
(* zone::resolve.                                                          *)
(***************************************************************************)
reverse_has_type(qtype) == qtype \in {"PTR", "ANY"}
forward_has_type(qtype) == qtype \in {"AAAA", "ANY"}

\* match_ptr: the zone and address of a full reverse name, as an Option.
match_ptr(zones, qname) ==
    UNION {{[zone |-> i, addr |-> a] : i \in zone_for_addr(zones, a)}
             : a \in ptr_name_to_addr(qname)}

Ptr(owner, target) == [type |-> "PTR", owner |-> owner, target |-> target]
Aaaa(owner, addr)  == [type |-> "AAAA", owner |-> owner, addr |-> addr]

\* A record, if there is one, as a Vec.
VecOf(option, qname, Rec(_, _)) == IF option = {} THEN <<>> ELSE <<Rec(qname, The(option))>>

resolve(c, qname, qtype) ==
    LET reverse == IF reverse_has_type(qtype) THEN match_ptr(c.zones, qname) ELSE {}
        forward == match_forward(c.zones, qname)
        inside  == zone_containing(c.zones, qname)
    IN  CASE reverse # {} ->
               LET m == The(reverse)
               IN  [outcome |-> "Answer", zone |-> m.zone,
                    records |-> VecOf(forward_name(c.zones[m.zone], m.addr), qname, Ptr)]
          [] reverse = {} /\ forward # {} ->
               LET i == The(forward)
               IN  [outcome |-> "Answer", zone |-> i,
                    records |-> IF forward_has_type(qtype)
                                  THEN VecOf(match_zone_forward(c.zones[i], qname), qname, Aaaa)
                                  ELSE <<>>]
          [] reverse = {} /\ forward = {} /\ inside # {} ->
               [outcome |-> "NoName", zone |-> The(inside), records |-> <<>>]
          [] OTHER ->
               [outcome |-> "NoZone", zone |-> 0, records |-> <<>>]

(***************************************************************************)
(* Handler::decide.  `foreign` is what an upstream, where one is asked,    *)
(* answers; <<>> also stands for every lookup that fails or is skipped.    *)
(***************************************************************************)
Soa(apex) == [type |-> "SOA", owner |-> apex]
Ns(apex)  == [type |-> "NS", owner |-> apex]

Reply(code, authoritative, answers, authority) ==
    [code |-> code, authoritative |-> authoritative,
     answers |-> answers, authority |-> authority,
     kind |-> IF answers = <<>> THEN "Negative" ELSE "Answer"]

refused == Reply("Refused", FALSE, <<>>, <<>>)

If(cond, vec) == IF cond THEN vec ELSE <<>>

\* Mutant: the forward apex, also for a reverse name.
ApexAlwaysForward(zone, qname) == zone.fwd_parent

\* The first zone with an apex above qname, its reverse one before its
\* forward one.
ApexOf(zone, qname) == IF ZoneOf(zone.ptr_zone, qname) THEN zone.ptr_zone
                                                        ELSE zone.fwd_parent

negative_authority(c, qname) ==
    LET inside == zone_containing(c.zones, qname)
    IN  If(c.soa /\ inside # {}, <<Soa(ApexOf(c.zones[The(inside)], qname))>>)

\* SOA and NS of an apex.
ApexReply(c, q) ==
    Reply("NoError", TRUE,
          If(q.type \in {"SOA", "ANY"} /\ c.soa, <<Soa(q.name)>>)
            \o If(q.type \in {"NS", "ANY"} /\ c.nameservers, <<Ns(q.name)>>),
          <<>>)

\* Only a PTR that a zone of ours matched is ever asked of an upstream.
Consults(c, q, r) ==
    r.records # <<>> /\ q.type = "PTR" /\ c.zones[r.zone].upstream

\* Mutant: what comes back is served, records or not.
AnswerReplyAlways(c, q, r, foreign) ==
    LET answers == IF Consults(c, q, r) THEN lookup_ptr(q.name, foreign) ELSE r.records
    IN  Reply("NoError", TRUE, answers,
              If(answers = <<>>, negative_authority(c, q.name)))

\* Records that come back replace the synthesized one.
AnswerReply(c, q, r, foreign) ==
    LET relayed == IF Consults(c, q, r) THEN lookup_ptr(q.name, foreign) ELSE <<>>
        answers == IF relayed # <<>> THEN relayed ELSE r.records
    IN  Reply("NoError", TRUE, answers,
              If(answers = <<>>, negative_authority(c, q.name)))

NoNameReply(c, q, r) ==
    Reply("NXDomain", TRUE, <<>>,
          If(c.soa, <<Soa(ApexOf(c.zones[r.zone], q.name))>>))

NoZoneReply(c) == IF c.out_of_zone = "refused" THEN refused
                                               ELSE Reply("NXDomain", FALSE, <<>>, <<>>)

Decide(c, q, foreign) ==
    LET r == resolve(c, q.name, q.type)
    IN  CASE q.class \notin {"IN", "ANY"} \/ q.type \in {"AXFR", "IXFR"} -> refused
          [] OTHER ->
               IF q.type \in {"SOA", "NS", "ANY"} /\ q.name \in Apexes(c)
                 THEN ApexReply(c, q)
                 ELSE CASE r.outcome = "Answer" -> AnswerReply(c, q, r, foreign)
                        [] r.outcome = "NoName" -> NoNameReply(c, q, r)
                        [] r.outcome = "NoZone" -> NoZoneReply(c)

(***************************************************************************)
(* The published configuration.                                            *)
(***************************************************************************)

\* The process only starts with a configuration that parses.
Init == \E raw \in RawConfigs : ParseOK(raw) /\ config = Parse(raw)

\* SIGHUP: the file is read again; if it parses it replaces the configuration.
Reload(raw) == ParseOK(raw) /\ config' = Parse(raw)

\* SIGHUP with a file that does not parse: the previous configuration stays.
ReloadFails(raw) == ~ ParseOK(raw) /\ UNCHANGED config

Next == \E raw \in RawConfigs : Reload(raw) \/ ReloadFails(raw)

Spec == Init /\ [][Next]_config

-----------------------------------------------------------------------------
(* The queries the properties range over.                                  *)

ZonesOf(c) == {c.zones[i] : i \in 1 .. Len(c.zones)}

FullName(addr) == netmask_to_ptr_name(addr, ADDR_BITS)

\* An answer of an upstream is a vector of records, with a u32 for a TTL and at
\* most one target each.
ASSUME ForeignAssumption ==
    \A a \in Address : \A foreign \in Foreign(FullName(a)) :
        /\ Len(foreign) \in Nat
        /\ \A i \in 1 .. Len(foreign) :
             foreign[i].ttl \in Nat /\ \A t, u \in foreign[i].target : t = u

Www == <<"www">>

ASSUME NamesAssumption ==
    DigitLabels \subseteq DnsLabel /\ OtherNames \subseteq DnsName /\ Www \in DnsLabel

\* Every reverse name, full or partial.
ReverseNames == {netmask_to_ptr_name(a, 4 * n) : a \in Address, n \in 0 .. ADDR_NIBBLES}

QNames(c) ==
    ReverseNames \cup OtherNames \cup Apexes(c)
      \cup {<<Www>> \o apex : apex \in Apexes(c)}
      \cup UNION {forward_name(z, a) : z \in ZonesOf(c), a \in Address}

QTypes == {"A", "AAAA", "PTR", "ANY", "SOA", "NS"}

Query(name, type) == [name |-> name, type |-> type, class |-> "IN"]

\* No template begins with an asterisk, which match_zone_forward miscounts.
Unstarred(c) == \A z \in ZonesOf(c) : ~ Starred(z)

-----------------------------------------------------------------------------
(* What holds of every configuration that is accepted.                     *)

\* What the rest of the code takes for granted of a compiled zone.
TypeOK ==
    \A z \in ZonesOf(config) :
        /\ z.prefix \in Address
        /\ z.mask \in {4 * n : n \in 1 .. ADDR_NIBBLES - 1}
        /\ z.host_nibbles \in 1 .. ADDR_NIBBLES - 1
        /\ z.fwd.digits_at \in 1 .. Len(z.fwd.labels)
        /\ \A i \in 1 .. Len(z.fwd.labels) : z.fwd.labels[i].digits <=> i = z.fwd.digits_at

\* The reverse zone, a name, and the network, a bit mask, say the same: an
\* address lies in the network exactly when its reverse name lies below the
\* zone's ip6.arpa origin, and the name parses back to the address.
ReverseFaithful ==
    \A a \in Address :
        /\ ptr_name_to_addr(FullName(a)) = {a}
        /\ \A z \in ZonesOf(config) : ZoneOf(z.ptr_zone, FullName(a)) <=> Contains(z, a)

\* Every address of a zone has a forward name: the check of the widest
\* rendering at load time really covers every later rendering.  Matching that
\* name against the zone's template gives back this address, unless the
\* template begins with an asterisk.
AddressNamed ==
    \A z \in ZonesOf(config) : \A a \in Address :
        Contains(z, a) =>
            \E n \in forward_name(z, a) : Starred(z) \/ match_zone_forward(z, n) = {a}

\* The name that a template would give if its digits were the text.
NameWith(fwd, text) ==
    LET l == fwd.labels[fwd.digits_at]
    IN  [render(fwd, <<>>) EXCEPT ![fwd.digits_at] = l.pre \o text \o l.post]

\* A name, and names with a label more, a label less or another label.
Near(name) ==
    {name, Append(name, Www), <<Www>> \o name, <<Star>> \o name, SubSeq(name, 2, Len(name))}
      \cup {[name EXCEPT ![i] = Www] : i \in 1 .. Len(name)}

\* Matching is exact: a name that a template (without an asterisk in front)
\* accepts is the very name that the zone gives to the address it is taken for,
\* so no two names of a zone share an address and no near miss (digits too
\* many, a dash astray, a label added, left out or changed) is answered.
ForwardExact ==
    \A z \in ZonesOf(config) : ~ Starred(z) =>
        \A text \in DigitLabels : \A name \in Near(NameWith(z.fwd, text)) :
            \A a \in match_zone_forward(z, name) :
                Contains(z, a) /\ forward_name(z, a) = {name}

\* The first hit of the linear scan is the most specific network of all that
\* contain the address, whatever the order of the file.
LongestPrefix ==
    \A a \in Address :
        LET inside == {z \in ZonesOf(config) : Contains(z, a)}
            found == {config.zones[i] : i \in zone_for_addr(config.zones, a)}
        IN  /\ (found = {}) <=> (inside = {})
            /\ \A f \in found : f \in inside /\ \A z \in inside : z.mask <= f.mask

\* End to end, over two queries, zones that share a parent or nest included:
\* the name that a PTR query returns has exactly one AAAA record, and that is
\* the address asked for unless a zone in front, which is no less specific,
\* takes the very same name for an address of its own.
PtrThenAaaa ==
    \A a \in Address : \A i \in zone_for_addr(config.zones, a) :
        LET ptr == Decide(config, Query(FullName(a), "PTR"), <<>>).answers
            name == ptr[1].target
            aaaa == Decide(config, Query(name, "AAAA"), <<>>).answers
        IN  /\ Len(ptr) = 1
            /\ ~ Starred(config.zones[i]) =>
                 /\ Len(aaaa) = 1
                 /\ \/ aaaa[1] = Aaaa(name, a)
                    \/ \E j \in 1 .. i - 1 :
                         /\ config.zones[j].mask >= config.zones[i].mask
                         /\ aaaa[1].addr \in match_zone_forward(config.zones[j], name)

\* Types and classes that decide does not serve, wherever the name is.
Transfer == {"AXFR", "IXFR"}
ForeignClass == "CH"

\* A query that is served at all, neither a transfer nor of a foreign class, is
\* answered with the authoritative bit exactly when its name lies below one of
\* our apexes: the apex replies and the branches of resolve agree with
\* zone_containing, although most of them do not consult it.  All else is
\* refused, or denied without authority, and carries no record.
AuthoritativeInside ==
  Unstarred(config) =>
    \A n \in QNames(config), t \in QTypes \cup Transfer, k \in {"IN", "ANY", ForeignClass} :
        LET r == Decide(config, [name |-> n, type |-> t, class |-> k], <<>>)
            served == t \notin Transfer /\ k # ForeignClass
        IN  /\ r.authoritative <=> served /\ zone_containing(config.zones, n) # {}
            /\ ~ r.authoritative => r.answers = <<>> /\ r.authority = <<>>
            /\ ~ served => r.code = "Refused"

\* With primary and hostmaster set, a negative answer from inside our zones
\* (other than at an apex) has exactly one SOA, of an apex above the name.
NegativeCacheable ==
    config.soa /\ Unstarred(config) =>
      \A n \in QNames(config) \ Apexes(config), t \in QTypes :
        LET r == Decide(config, Query(n, t), <<>>)
        IN  r.authoritative /\ r.answers = <<>> =>
              /\ Len(r.authority) = 1
              /\ r.authority[1].owner \in Apexes(config)
              /\ ZoneOf(r.authority[1].owner, n)

\* No lookup is made without one.
HasUpstream(c) == \E z \in ZonesOf(c) : z.upstream

\* An upstream speaks for nothing but the addresses of the zones that name it:
\* whatever it answers, only a PTR query for one of these (by the longest
\* prefix) is answered differently, and then nothing but the records differ -
\* code, flag, authority and the kind the limiter charges stay.
UpstreamConfined ==
  HasUpstream(config) =>
    \A n \in QNames(config), t \in QTypes :
        LET own == Decide(config, Query(n, t), <<>>)
        IN  \A foreign \in Foreign(n) :
              LET r == Decide(config, Query(n, t), foreign)
              IN  r # own =>
                    /\ [r EXCEPT !.answers = own.answers] = own
                    /\ t = "PTR"
                    /\ \E a \in ptr_name_to_addr(n) : \E i \in zone_for_addr(config.zones, a) :
                         config.zones[i].upstream

\* A relayed record is one we would vouch for: a PTR of the name the client
\* asked, with a TTL in bounds, and a target that the upstream gave for exactly
\* that address; and however long the answer, no more than the cap of them.
RelayedVouched ==
  HasUpstream(config) =>
    \A a \in Address :
        LET n == FullName(a)
            own == Decide(config, Query(n, "PTR"), <<>>).answers
        IN  \A foreign \in Foreign(n) :
              LET answers == Decide(config, Query(n, "PTR"), foreign).answers
              IN  answers # own =>
                    /\ Len(answers) \in 1 .. MAX_RELAYED_RECORDS
                    /\ \A i \in 1 .. Len(answers) :
                         /\ answers[i].type = "PTR" /\ answers[i].owner = n
                         /\ answers[i].ttl \in MIN_RELAY_TTL .. MAX_RELAY_TTL
                         /\ \E j \in 1 .. Len(foreign) :
                              /\ foreign[j].target = {answers[i].target}
                              /\ foreign[j].class = "IN" /\ foreign[j].type = "PTR"
                              /\ foreign[j].owner = Append(n, UPSTREAM_LABEL)

-----------------------------------------------------------------------------
(* What comments, tests and docs say, and some accepted configuration does *)
(* not do.                                                                 *)

\* src/zone/mod.rs on NoName: the name "denotes nothing at all", so an
\* NXDOMAIN for one type means that no other type has records either.
NxdomainMeansNothing ==
    \A n \in QNames(config), t, u \in QTypes :
        Decide(config, Query(n, t), <<>>).code = "NXDomain"
          => Decide(config, Query(n, u), <<>>).answers = <<>>

\* src/config/compile.rs: "a repeated network or forward pattern is always a
\* mistake, and would silently shadow the later zone" - so in a configuration
\* that is accepted no zone's names are matched by another zone with the same
\* template.
NotShadowed ==
    \A i \in 1 .. Len(config.zones) : \A a \in Address :
        Contains(config.zones[i], a) =>
            \A n \in forward_name(config.zones[i], a) :
                \A j \in match_forward(config.zones, n) :
                    config.zones[j].fwd = config.zones[i].fwd => j = i

\* tests/config_parse.rs: "No compiled zone may ever be able to match the
\* whole reverse namespace."
ReverseNotClaimed ==
    \A z \in ZonesOf(config) : ~ \A a \in Address :
        ZoneOf(z.ptr_zone, FullName(a)) \/ ZoneOf(z.fwd_parent, FullName(a))
=============================================================================
