-------------------------- MODULE AuthorityProofs ---------------------------
(***************************************************************************)
(* Theorems about the answers of the server, for every set of files an     *)
(* operator may write, addresses of any length, any number of zones, and   *)
(* whatever an upstream answers.                                           *)
(*                                                                         *)
(* The invariants say what holds of every configuration that is accepted.  *)
(* They all follow from Sound: the published zones are compiled ones (see  *)
(* Compiled in module ZoneProofs), longer masks first.  It holds whenever  *)
(* a file parses, and a reload publishes nothing else.                     *)
(***************************************************************************)
EXTENDS Authority, ZoneProofs

USE NibblesAssumption

Sound(c) ==
    /\ Len(c.zones) \in Nat
    /\ \A i \in 1 .. Len(c.zones) : Compiled(c.zones[i])
    /\ \A i \in 1 .. Len(c.zones) : \A j \in 1 .. Len(c.zones) :
         i <= j => c.zones[j].mask <= c.zones[i].mask
    /\ c.soa \in BOOLEAN

\* A file that parses gives a sound configuration.
LEMMA ParseSound ==
    ASSUME NEW raw \in RawConfigs, ParseOK(raw)
    PROVE  Sound(Parse(raw))
<1>1. raw \in RawFiles
  BY FilesAssumption
<1>2. raw.zones \in Seq(RawZones) /\ raw.primary \in BOOLEAN
  BY <1>1 DEF RawFiles
<1>3. ZonesOK(raw.zones)
  BY DEF ParseOK
<1>4. Parse(raw).zones = compile_zones(raw.zones) /\ Parse(raw).soa = raw.primary
  BY DEF Parse
<1> QED
  BY <1>2, <1>3, <1>4, ZonesCompiled DEF Sound

\* The published configuration is sound, at startup and after every reload.
THEOREM AlwaysSound == Spec => []Sound(config)
<1>1. Init => Sound(config)
  BY ParseSound DEF Init
<1>2. Sound(config) /\ [Next]_config => Sound(config)'
  <2> SUFFICES ASSUME Sound(config), [Next]_config PROVE Sound(config')
    OBVIOUS
  <2>1. CASE Next
    <3> PICK raw \in RawConfigs : Reload(raw) \/ ReloadFails(raw)
      BY <2>1 DEF Next
    <3>1. CASE Reload(raw)
      BY <3>1, ParseSound DEF Reload
    <3>2. CASE ReloadFails(raw)
      BY <3>2 DEF ReloadFails
    <3> QED
      BY <3>1, <3>2
  <2>2. CASE UNCHANGED config
    BY <2>2
  <2> QED
    BY <2>1, <2>2
<1> QED
  BY <1>1, <1>2, PTL DEF Spec

-----------------------------------------------------------------------------
(* What compiled zones look like.                                          *)

\* The zones of a configuration, by their index.
LEMMA ZonesByIndex ==
    ASSUME NEW c, Sound(c)
    PROVE  /\ \A z \in ZonesOf(c) : Compiled(z)
           /\ \A i \in 1 .. Len(c.zones) : c.zones[i] \in ZonesOf(c)
           /\ \A z \in ZonesOf(c) : \E i \in 1 .. Len(c.zones) : z = c.zones[i]
BY DEF Sound, ZonesOf

\* The type invariant: masks are whole nibbles, never none nor all of them,
\* and each template has its digits in one label.
THEOREM ZoneTypes == Spec => []TypeOK
<1>1. ASSUME NEW z, Compiled(z)
      PROVE  /\ z.prefix \in Address
             /\ z.mask \in {4 * n : n \in 1 .. ADDR_NIBBLES - 1}
             /\ z.host_nibbles \in 1 .. ADDR_NIBBLES - 1
             /\ z.fwd.digits_at \in 1 .. Len(z.fwd.labels)
             /\ \A i \in 1 .. Len(z.fwd.labels) : z.fwd.labels[i].digits <=> i = z.fwd.digits_at
  <2> PICK n \in 1 .. ADDR_NIBBLES - 1 : z.mask = 4 * n /\ z.host_nibbles = ADDR_NIBBLES - n
    BY <1>1 DEF Compiled
  <2>1. z.host_nibbles \in 1 .. ADDR_NIBBLES - 1
    OBVIOUS
  <2>2. z.prefix \in Address /\ Template(z.fwd, z.host_nibbles)
    BY <1>1 DEF Compiled
  <2> QED
    BY <2>1, <2>2 DEF Template
<1>2. Sound(config) => TypeOK
  BY <1>1, ZonesByIndex DEF TypeOK
<1> QED
  BY <1>2, AlwaysSound, PTL

\* The name of an address has all its nibbles.
LEMMA FullNameIs ==
    ASSUME NEW a \in Address
    PROVE  /\ FullName(a) = netmask_to_ptr_name(a, 4 * ADDR_NIBBLES)
           /\ FullName(a) \in DnsName
           /\ ptr_name_to_addr(FullName(a)) = {a}
<1>1. FullName(a) = netmask_to_ptr_name(a, 4 * ADDR_NIBBLES)
  BY DEF FullName, ADDR_BITS
<1> QED
  BY <1>1, FullNameType, PtrRoundTrip

\* Reverse names and bit masks agree.
THEOREM ReverseTheorem == Spec => []ReverseFaithful
<1>1. Sound(config) => ReverseFaithful
  <2> SUFFICES ASSUME Sound(config), NEW a \in Address
               PROVE  /\ ptr_name_to_addr(FullName(a)) = {a}
                      /\ \A z \in ZonesOf(config) :
                           ZoneOf(z.ptr_zone, FullName(a)) <=> Contains(z, a)
    BY DEF ReverseFaithful
  <2> QED
    BY FullNameIs, ReverseOrigin, ZonesByIndex
<1> QED
  BY <1>1, AlwaysSound, PTL

\* Every address of a zone has a name that denotes it.
THEOREM NamedTheorem == Spec => []AddressNamed
<1>1. Sound(config) => AddressNamed
  <2> SUFFICES ASSUME Sound(config), NEW z \in ZonesOf(config), NEW a \in Address, Contains(z, a)
               PROVE  \E n \in forward_name(z, a) : Starred(z) \/ match_zone_forward(z, n) = {a}
    BY DEF AddressNamed
  <2>1. Compiled(z)
    BY ZonesByIndex
  <2> QED
    BY <2>1, ForwardRoundTrip
<1> QED
  BY <1>1, AlwaysSound, PTL

\* A template's name with another label in the place of the digits.
LEMMA ReplacedLabel ==
    ASSUME NEW fwd, NEW h, Template(fwd, h), NEW text \in DnsLabel
    PROVE  [render(fwd, <<>>) EXCEPT ![fwd.digits_at] = text] \in DnsName
<1> DEFINE n == Len(fwd.labels)
           at == fwd.digits_at
           named == render(fwd, <<>>)
           name == [named EXCEPT ![at] = text]
           Text(i) == IF i = at THEN text ELSE fwd.labels[i].pre
<1>1. /\ n \in Nat /\ at \in 1 .. n
      /\ \A i \in 1 .. n : fwd.labels[i].digits <=> i = at
  BY LenProperties DEF Template
<1>2. \A i \in 1 .. n : fwd.labels[i].pre \in DnsLabel
  <2>1. \A i \in 1 .. n : fwd.labels[i] \in FwdLabels
    BY ElementOfSeq DEF Template
  <2> HIDE DEF n
  <2> QED
    BY <2>1 DEF FwdLabels
<1>3. DOMAIN named = 1 .. n /\ \A i \in 1 .. n : i # at => named[i] = fwd.labels[i].pre
  BY <1>1 DEF render
<1> HIDE DEF n, at
<1>4. name = [i \in 1 .. n |-> IF i = at THEN text ELSE named[i]]
  BY <1>3 DEF render, n
<1> HIDE DEF name, named
<1>5. name = [i \in 1 .. n |-> Text(i)]
  BY <1>3, <1>4
<1>6. \A i \in 1 .. n : Text(i) \in DnsLabel
  BY <1>2
<1> HIDE DEF Text
<1>7. name \in DnsName
  BY <1>1, <1>5, <1>6, IsASeq DEF DnsName
<1> QED
  BY <1>7 DEF name, named, at

\* The names near a name are names.
LEMMA NearNames == ASSUME NEW name \in DnsName PROVE Near(name) \subseteq DnsName
<1>1. Www \in DnsLabel /\ Star \in DnsLabel
  <2>1. "*" \in STRING
    BY TextAssumption
  <2> QED
    BY <2>1, NamesAssumption, Singleton DEF Star, DnsLabel
<1>2. Append(name, Www) \in DnsName
  BY <1>1, AppendProperties DEF DnsName
<1>3. <<Www>> \o name \in DnsName /\ <<Star>> \o name \in DnsName
  <2>1. \A label \in DnsLabel : <<label>> \in DnsName
    BY Singleton DEF DnsName
  <2>2. \A x \in DnsName : \A y \in DnsName : x \o y \in DnsName
    BY ConcatAt DEF DnsName
  <2> QED
    BY <1>1, <2>1, <2>2
<1>4. SubSeq(name, 2, Len(name)) \in DnsName
  <2>1. Len(name) \in Nat /\ \A k \in 1 .. Len(name) : name[k] \in DnsLabel
    BY LenProperties, ElementOfSeq DEF DnsName
  <2>2. 2 \in Int /\ Len(name) \in Int /\ \A k \in 2 .. Len(name) : name[k] \in DnsLabel
    BY <2>1
  <2> QED
    BY <2>2, SubSeqProperties DEF DnsName
<1>5. \A i \in 1 .. Len(name) : [name EXCEPT ![i] = Www] \in DnsName
  BY <1>1, ExceptSeq DEF DnsName
<1> QED
  BY <1>2, <1>3, <1>4, <1>5 DEF Near

\* Matching forward names is exact.
THEOREM ExactTheorem == Spec => []ForwardExact
<1>1. Sound(config) => ForwardExact
  <2> SUFFICES ASSUME Sound(config), NEW z \in ZonesOf(config), ~ Starred(z),
                      NEW digits \in DigitLabels, NEW name \in Near(NameWith(z.fwd, digits))
               PROVE  \A a \in match_zone_forward(z, name) :
                        Contains(z, a) /\ forward_name(z, a) = {name}
    BY DEF ForwardExact
  <2> DEFINE l == z.fwd.labels[z.fwd.digits_at]
             text == l.pre \o digits \o l.post
  <2>1. Compiled(z) /\ Template(z.fwd, z.host_nibbles)
    BY ZonesByIndex DEF Compiled
  <2>2. l \in FwdLabels
    BY <2>1, ElementOfSeq DEF Template
  <2>3. text \in DnsLabel
    <3>1. \A x \in DnsLabel : \A y \in DnsLabel : \A w \in DnsLabel : x \o y \o w \in DnsLabel
      BY AroundAt DEF DnsLabel
    <3>2. l.pre \in DnsLabel /\ l.post \in DnsLabel /\ digits \in DnsLabel
      BY <2>2, NamesAssumption DEF FwdLabels
    <3> QED
      BY <3>1, <3>2
  <2>4. NameWith(z.fwd, digits) = [render(z.fwd, <<>>) EXCEPT ![z.fwd.digits_at] = text]
    BY DEF NameWith
  <2> HIDE DEF text
  <2>5. NameWith(z.fwd, digits) \in DnsName
    BY <2>1, <2>3, <2>4, ReplacedLabel
  <2>6. name \in DnsName
    BY <2>5, NearNames
  <2> QED
    BY <2>1, <2>6, ForwardMatchExact
<1> QED
  BY <1>1, AlwaysSound, PTL

\* The zone that is found for an address: the first of those that contain it.
LEMMA ZoneForAddr ==
    ASSUME NEW c, Sound(c), NEW a \in Address
    PROVE  \/ /\ zone_for_addr(c.zones, a) = {}
              /\ \A i \in 1 .. Len(c.zones) : ~ Contains(c.zones[i], a)
           \/ \E i \in 1 .. Len(c.zones) :
                /\ zone_for_addr(c.zones, a) = {i}
                /\ Contains(c.zones[i], a)
                /\ \A j \in 1 .. Len(c.zones) : Contains(c.zones[j], a) => i <= j
<1> DEFINE S == {i \in 1 .. Len(c.zones) : Contains(c.zones[i], a)}
<1>1. S \in SUBSET Nat /\ zone_for_addr(c.zones, a) = FirstOf(S)
  BY DEF Sound, zone_for_addr
<1>2. CASE S = {}
  BY <1>1, <1>2, FirstOfNone
<1>3. CASE S # {}
  BY <1>1, <1>3, FirstOfSome
<1> QED
  BY <1>2, <1>3

\* The first hit is the longest prefix.
THEOREM PrefixTheorem == Spec => []LongestPrefix
<1>1. Sound(config) => LongestPrefix
  <2> SUFFICES ASSUME Sound(config), NEW a \in Address
               PROVE  LET inside == {z \in ZonesOf(config) : Contains(z, a)}
                          found == {config.zones[i] : i \in zone_for_addr(config.zones, a)}
                      IN  /\ (found = {}) <=> (inside = {})
                          /\ \A f \in found : f \in inside /\ \A z \in inside : z.mask <= f.mask
    BY DEF LongestPrefix
  <2> DEFINE inside == {z \in ZonesOf(config) : Contains(z, a)}
             found == {config.zones[i] : i \in zone_for_addr(config.zones, a)}
  <2>1. CASE /\ zone_for_addr(config.zones, a) = {}
             /\ \A i \in 1 .. Len(config.zones) : ~ Contains(config.zones[i], a)
    <3>1. inside = {}
      BY <2>1, ZonesByIndex
    <3> QED
      BY <2>1, <3>1
  <2>2. ASSUME NEW i \in 1 .. Len(config.zones),
               zone_for_addr(config.zones, a) = {i},
               Contains(config.zones[i], a),
               \A j \in 1 .. Len(config.zones) : Contains(config.zones[j], a) => i <= j
        PROVE  /\ (found = {}) <=> (inside = {})
               /\ \A f \in found : f \in inside /\ \A z \in inside : z.mask <= f.mask
    <3>1. found = {config.zones[i]}
      BY <2>2
    <3>2. config.zones[i] \in inside
      BY <2>2, ZonesByIndex
    <3>3. ASSUME NEW z \in inside PROVE z.mask <= config.zones[i].mask
      <4>1. PICK j \in 1 .. Len(config.zones) : z = config.zones[j]
        BY ZonesByIndex
      <4>2. i <= j
        BY <2>2, <4>1
      <4> QED
        BY <4>1, <4>2 DEF Sound
    <3> HIDE DEF inside, found
    <3> QED
      BY <3>1, <3>2, <3>3
  <2> QED
    BY <2>1, <2>2, ZoneForAddr
<1> QED
  BY <1>1, AlwaysSound, PTL

-----------------------------------------------------------------------------
(* Lookups.                                                                *)

Within(z, qname) == ZoneOf(z.ptr_zone, qname) \/ ZoneOf(z.fwd_parent, qname)

\* Both apexes of a zone are names.
LEMMA ApexTypes ==
    ASSUME NEW z, Compiled(z)
    PROVE  z.ptr_zone \in DnsName /\ z.fwd_parent \in DnsName
<1>1. PICK n \in 1 .. ADDR_NIBBLES - 1 : z.mask = 4 * n
  BY DEF Compiled
<1>2. n \in 0 .. ADDR_NIBBLES /\ z.prefix \in Address
      /\ z.ptr_zone = netmask_to_ptr_name(z.prefix, 4 * n)
  BY <1>1 DEF Compiled
<1>3. z.ptr_zone \in DnsName
  BY <1>2, PtrNameType
<1>4. z.fwd_parent \in DnsName
  BY ParentType DEF Compiled
<1> QED
  BY <1>3, <1>4

LEMMA ApexOfConfig ==
    ASSUME NEW c, Sound(c)
    PROVE  /\ \A apex \in Apexes(c) : \E i \in 1 .. Len(c.zones) :
                apex = c.zones[i].ptr_zone \/ apex = c.zones[i].fwd_parent
           /\ \A i \in 1 .. Len(c.zones) :
                c.zones[i].ptr_zone \in Apexes(c) /\ c.zones[i].fwd_parent \in Apexes(c)
           /\ Apexes(c) \subseteq DnsName
<1>1. \A i \in 1 .. Len(c.zones) :
        c.zones[i].ptr_zone \in DnsName /\ c.zones[i].fwd_parent \in DnsName
  BY ApexTypes DEF Sound
<1>2. \A apex \in Apexes(c) : \E i \in 1 .. Len(c.zones) :
        apex = c.zones[i].ptr_zone \/ apex = c.zones[i].fwd_parent
  BY DEF Apexes
<1>3. \A i \in 1 .. Len(c.zones) :
        c.zones[i].ptr_zone \in Apexes(c) /\ c.zones[i].fwd_parent \in Apexes(c)
  BY DEF Apexes
<1> QED
  BY <1>1, <1>2, <1>3

\* The zone that is found for a name: the first of those with an apex above it.
LEMMA ZoneContaining ==
    ASSUME NEW c, Sound(c), NEW qname
    PROVE  \/ /\ zone_containing(c.zones, qname) = {}
              /\ \A i \in 1 .. Len(c.zones) : ~ Within(c.zones[i], qname)
           \/ \E i \in 1 .. Len(c.zones) :
                zone_containing(c.zones, qname) = {i} /\ Within(c.zones[i], qname)
<1> DEFINE S == {i \in 1 .. Len(c.zones) : Within(c.zones[i], qname)}
<1>1. S \in SUBSET Nat /\ zone_containing(c.zones, qname) = FirstOf(S)
  BY DEF Sound, zone_containing, Within
<1>2. CASE S = {}
  BY <1>1, <1>2, FirstOfNone
<1>3. CASE S # {}
  BY <1>1, <1>3, FirstOfSome
<1> QED
  BY <1>2, <1>3

\* The zone that a forward name is matched in: the first that matches it.
LEMMA MatchForward ==
    ASSUME NEW c, Sound(c), NEW qname
    PROVE  \/ /\ match_forward(c.zones, qname) = {}
              /\ \A i \in 1 .. Len(c.zones) : match_zone_forward(c.zones[i], qname) = {}
           \/ \E i \in 1 .. Len(c.zones) :
                /\ match_forward(c.zones, qname) = {i}
                /\ match_zone_forward(c.zones[i], qname) # {}
                /\ \A j \in 1 .. Len(c.zones) : match_zone_forward(c.zones[j], qname) # {} => i <= j
<1> DEFINE S == {i \in 1 .. Len(c.zones) : match_zone_forward(c.zones[i], qname) # {}}
<1>1. S \in SUBSET Nat /\ match_forward(c.zones, qname) = FirstOf(S)
  BY DEF Sound, match_forward
<1>2. CASE S = {}
  BY <1>1, <1>2, FirstOfNone
<1>3. CASE S # {}
  <2>1. PICK i \in S : FirstOf(S) = {i} /\ \A j \in S : i <= j
    BY <1>1, <1>3, FirstOfSome
  <2> QED
    BY <1>1, <2>1
<1> QED
  BY <1>2, <1>3

\* The zone and the address of a reverse name.
LEMMA MatchPtr ==
    ASSUME NEW c, Sound(c), NEW qname \in DnsName
    PROVE  \/ match_ptr(c.zones, qname) = {}
           \/ \E a \in Address : \E i \in 1 .. Len(c.zones) :
                /\ match_ptr(c.zones, qname) = {[zone |-> i, addr |-> a]}
                /\ qname = FullName(a)
                /\ zone_for_addr(c.zones, a) = {i}
                /\ Contains(c.zones[i], a)
<1>1. SUFFICES ASSUME match_ptr(c.zones, qname) # {}
               PROVE  \E a \in Address : \E i \in 1 .. Len(c.zones) :
                        /\ match_ptr(c.zones, qname) = {[zone |-> i, addr |-> a]}
                        /\ qname = FullName(a)
                        /\ zone_for_addr(c.zones, a) = {i}
                        /\ Contains(c.zones[i], a)
  OBVIOUS
<1>2. PICK a \in ptr_name_to_addr(qname) : zone_for_addr(c.zones, a) # {}
  BY <1>1 DEF match_ptr
<1>3. a \in Address /\ qname = FullName(a)
  BY PtrExact DEF FullName, ADDR_BITS
<1>4. ptr_name_to_addr(qname) = {a}
  BY <1>3, FullNameIs
<1>5. PICK i \in 1 .. Len(c.zones) : zone_for_addr(c.zones, a) = {i} /\ Contains(c.zones[i], a)
  BY <1>2, <1>3, ZoneForAddr
<1>6. match_ptr(c.zones, qname) = {[zone |-> i, addr |-> a]}
  BY <1>4, <1>5 DEF match_ptr
<1> QED
  BY <1>3, <1>5, <1>6

-----------------------------------------------------------------------------
(* zone::resolve.                                                          *)

\* The name that a zone gives to an address.
NameIn(z, a) == The(forward_name(z, a))

\* A full reverse name asked for with a type it has.
Found(i, n, target) == [outcome |-> "Answer", zone |-> i, records |-> <<Ptr(n, target)>>]

LEMMA ResolveReverse ==
    ASSUME NEW c, Sound(c), NEW a \in Address, NEW i \in 1 .. Len(c.zones), NEW t,
           reverse_has_type(t), match_ptr(c.zones, FullName(a)) = {[zone |-> i, addr |-> a]},
           Contains(c.zones[i], a)
    PROVE  /\ NameIn(c.zones[i], a) \in DnsName
           /\ ~ Starred(c.zones[i])
                => match_zone_forward(c.zones[i], NameIn(c.zones[i], a)) = {a}
           /\ resolve(c, FullName(a), t) = Found(i, FullName(a), NameIn(c.zones[i], a))
<1>1. Compiled(c.zones[i])
  BY DEF Sound
<1>2. PICK target \in DnsName :
        /\ forward_name(c.zones[i], a) = {target}
        /\ ~ Starred(c.zones[i]) => match_zone_forward(c.zones[i], target) = {a}
  BY <1>1, ForwardRoundTrip
<1> DEFINE m == [zone |-> i, addr |-> a]
<1>3. The({m}) = m /\ m.zone = i /\ m.addr = a /\ The({target}) = target
  BY TheOnly
<1>4. VecOf(forward_name(c.zones[i], a), FullName(a), Ptr) = <<Ptr(FullName(a), target)>>
  BY <1>2, <1>3 DEF VecOf
<1>5. resolve(c, FullName(a), t)
        = [outcome |-> "Answer", zone |-> i,
           records |-> VecOf(forward_name(c.zones[i], a), FullName(a), Ptr)]
  BY <1>3 DEF resolve
<1>6. NameIn(c.zones[i], a) = target
  BY <1>2, <1>3 DEF NameIn
<1> QED
  BY <1>2, <1>4, <1>5, <1>6 DEF Found

\* Any other question: no reverse name, or one asked for with another type.
NotReverse(c, qname, t) == reverse_has_type(t) => match_ptr(c.zones, qname) = {}

\* A forward name.
LEMMA ResolveForward ==
    ASSUME NEW c, NEW qname, NEW t, NotReverse(c, qname, t), NEW i,
           match_forward(c.zones, qname) = {i}
    PROVE  resolve(c, qname, t)
             = [outcome |-> "Answer", zone |-> i,
                records |-> IF forward_has_type(t)
                              THEN VecOf(match_zone_forward(c.zones[i], qname), qname, Aaaa)
                              ELSE <<>>]
<1>1. The({i}) = i
  BY TheOnly
<1> QED
  BY <1>1 DEF resolve, NotReverse

\* Another name of ours.
LEMMA ResolveNoName ==
    ASSUME NEW c, NEW qname, NEW t, NotReverse(c, qname, t),
           match_forward(c.zones, qname) = {}, NEW i, zone_containing(c.zones, qname) = {i}
    PROVE  resolve(c, qname, t) = [outcome |-> "NoName", zone |-> i, records |-> <<>>]
<1>1. The({i}) = i
  BY TheOnly
<1> QED
  BY <1>1 DEF resolve, NotReverse

\* A name of somebody else.
LEMMA ResolveNoZone ==
    ASSUME NEW c, NEW qname, NEW t, NotReverse(c, qname, t),
           match_forward(c.zones, qname) = {}, zone_containing(c.zones, qname) = {}
    PROVE  resolve(c, qname, t) = [outcome |-> "NoZone", zone |-> 0, records |-> <<>>]
BY DEF resolve, NotReverse

-----------------------------------------------------------------------------
(* Handler::decide.                                                        *)

\* The questions that decide serves at all.
Serves(q) == q.class \in {"IN", "ANY"} /\ q.type \notin {"AXFR", "IXFR"}

\* The branches of decide.
LEMMA DecideBranches ==
    ASSUME NEW c, NEW q, NEW foreign
    PROVE  LET r == resolve(c, q.name, q.type)
               apex == q.type \in {"SOA", "NS", "ANY"} /\ q.name \in Apexes(c)
               d == Decide(c, q, foreign)
           IN  /\ ~ Serves(q) => d = refused
               /\ Serves(q) =>
                    /\ apex => d = ApexReply(c, q)
                    /\ ~ apex /\ r.outcome = "Answer" => d = AnswerReply(c, q, r, foreign)
                    /\ ~ apex /\ r.outcome = "NoName" => d = NoNameReply(c, q, r)
                    /\ ~ apex /\ r.outcome = "NoZone" => d = NoZoneReply(c)
<1>1. CASE ~ Serves(q)
  <2>1. q.class \notin {"IN", "ANY"} \/ q.type \in {"AXFR", "IXFR"}
    BY <1>1 DEF Serves
  <2> QED
    BY <1>1, <2>1 DEF Decide
<1>2. CASE Serves(q)
  <2>1. ~ (q.class \notin {"IN", "ANY"} \/ q.type \in {"AXFR", "IXFR"})
    BY <1>2 DEF Serves
  <2> QED
    BY <1>2, <2>1 DEF Decide
<1> QED
  BY <1>1, <1>2

\* The same for a question of class IN and an ordinary type.
LEMMA DecideIs ==
    ASSUME NEW c, NEW n, NEW t \in QTypes, NEW foreign
    PROVE  LET q == Query(n, t)
               r == resolve(c, n, t)
               apex == t \in {"SOA", "NS", "ANY"} /\ n \in Apexes(c)
           IN  /\ q.name = n /\ q.type = t
               /\ apex => Decide(c, q, foreign) = ApexReply(c, q)
               /\ ~ apex /\ r.outcome = "Answer" => Decide(c, q, foreign) = AnswerReply(c, q, r, foreign)
               /\ ~ apex /\ r.outcome = "NoName" => Decide(c, q, foreign) = NoNameReply(c, q, r)
               /\ ~ apex /\ r.outcome = "NoZone" => Decide(c, q, foreign) = NoZoneReply(c)
<1> DEFINE q == Query(n, t)
<1>1. q.name = n /\ q.type = t /\ q.class = "IN"
  BY DEF Query
<1> HIDE DEF q
<1>2. Serves(q)
  BY <1>1 DEF QTypes, Serves
<1> QED
  BY <1>1, <1>2, DecideBranches DEF q

\* What is served for a name that resolves.
Served(c, q, r, foreign) ==
    LET relayed == IF Consults(c, q, r) THEN lookup_ptr(q.name, foreign) ELSE <<>>
    IN  IF relayed # <<>> THEN relayed ELSE r.records

AnswerOf(c, n, answers) ==
    Reply("NoError", TRUE, answers, If(answers = <<>>, negative_authority(c, n)))

LEMMA AnswerFields ==
    ASSUME NEW c, NEW n, NEW x
    PROVE  AnswerOf(c, n, x).answers = x /\ AnswerOf(c, n, x).code = "NoError"
BY DEF AnswerOf, Reply, If

LEMMA AnswerNegative ==
    ASSUME NEW c, NEW n
    PROVE  AnswerOf(c, n, <<>>).authority = negative_authority(c, n)
BY DEF AnswerOf, Reply, If

LEMMA AnswerAuthoritative ==
    ASSUME NEW c, NEW n, NEW x
    PROVE  AnswerOf(c, n, x).authoritative = TRUE
BY DEF AnswerOf, Reply, If

\* Two answers with records differ in nothing else.
LEMMA AnswersAlike ==
    ASSUME NEW c, NEW n, NEW x, NEW y, x # <<>>, y # <<>>
    PROVE  [AnswerOf(c, n, x) EXCEPT !.answers = y] = AnswerOf(c, n, y)
<1> DEFINE Full(v) == [code |-> "NoError", authoritative |-> TRUE, answers |-> v,
                       authority |-> <<>>, kind |-> "Answer"]
<1>1. AnswerOf(c, n, x) = Full(x)
  BY DEF AnswerOf, Reply, If
<1>2. AnswerOf(c, n, y) = Full(y)
  BY DEF AnswerOf, Reply, If
<1>3. ASSUME NEW a, NEW b, NEW d, NEW e
      PROVE  [[code |-> a, authoritative |-> b, answers |-> x, authority |-> d, kind |-> e]
                EXCEPT !.answers = y]
               = [code |-> a, authoritative |-> b, answers |-> y, authority |-> d, kind |-> e]
  OBVIOUS
<1>4. [Full(x) EXCEPT !.answers = y] = Full(y)
  BY <1>3, Zenon
<1> HIDE DEF Full
<1> QED
  BY <1>1, <1>2, <1>4

LEMMA AnswerIs ==
    ASSUME NEW c, NEW q, NEW r, NEW foreign
    PROVE  AnswerReply(c, q, r, foreign) = AnswerOf(c, q.name, Served(c, q, r, foreign))
BY DEF AnswerReply, Served, AnswerOf

\* Which replies are authoritative.
LEMMA ReplyAuthoritative ==
    ASSUME NEW c, NEW q, NEW r, NEW foreign
    PROVE  /\ ApexReply(c, q).authoritative = TRUE
           /\ AnswerReply(c, q, r, foreign).authoritative = TRUE
           /\ NoNameReply(c, q, r).authoritative = TRUE
           /\ NoZoneReply(c).authoritative = FALSE
<1>1. ApexReply(c, q).authoritative = TRUE
  <2> DEFINE x == If(q.type \in {"SOA", "ANY"} /\ c.soa, <<Soa(q.name)>>)
                    \o If(q.type \in {"NS", "ANY"} /\ c.nameservers, <<Ns(q.name)>>)
  <2>1. ApexReply(c, q) = Reply("NoError", TRUE, x, <<>>)
    BY DEF ApexReply
  <2>2. Reply("NoError", TRUE, x, <<>>).authoritative = TRUE
    BY DEF Reply
  <2> QED
    BY <2>1, <2>2
<1>2. AnswerReply(c, q, r, foreign).authoritative = TRUE
  BY AnswerAuthoritative, AnswerIs
<1>3. NoNameReply(c, q, r).authoritative = TRUE
  <2> DEFINE y == If(c.soa, <<Soa(ApexOf(c.zones[r.zone], q.name))>>)
  <2>1. NoNameReply(c, q, r) = Reply("NXDomain", TRUE, <<>>, y)
    BY DEF NoNameReply
  <2>2. Reply("NXDomain", TRUE, <<>>, y).authoritative = TRUE
    BY DEF Reply
  <2> QED
    BY <2>1, <2>2
<1>4. NoZoneReply(c).authoritative = FALSE
  <2>1. \/ NoZoneReply(c) = Reply("Refused", FALSE, <<>>, <<>>)
        \/ NoZoneReply(c) = Reply("NXDomain", FALSE, <<>>, <<>>)
    BY DEF NoZoneReply, refused
  <2>2. /\ Reply("Refused", FALSE, <<>>, <<>>).authoritative = FALSE
        /\ Reply("NXDomain", FALSE, <<>>, <<>>).authoritative = FALSE
    BY DEF Reply
  <2> QED
    BY <2>1, <2>2
<1> QED
  BY <1>1, <1>2, <1>3, <1>4

\* A reply without authority carries no record.
Bare(d) == ~ d.authoritative /\ d.answers = <<>> /\ d.authority = <<>>

LEMMA BareReplies ==
    ASSUME NEW c
    PROVE  Bare(refused) /\ refused.code = "Refused" /\ Bare(NoZoneReply(c))
<1>1. ASSUME NEW code
      PROVE  Bare(Reply(code, FALSE, <<>>, <<>>)) /\ Reply(code, FALSE, <<>>, <<>>).code = code
  BY DEF Bare, Reply
<1>2. refused = Reply("Refused", FALSE, <<>>, <<>>)
  BY DEF refused
<1>3. NoZoneReply(c) = refused \/ NoZoneReply(c) = Reply("NXDomain", FALSE, <<>>, <<>>)
  BY DEF NoZoneReply
<1> QED
  BY <1>1, <1>2, <1>3

\* What resolve says, and what zone_containing says, of the same name.
LEMMA ResolveContained ==
    ASSUME NEW c, Sound(c), Unstarred(c), NEW n \in DnsName, NEW t
    PROVE  LET r == resolve(c, n, t)
               inside == zone_containing(c.zones, n)
           IN  \/ r.outcome = "Answer" /\ inside # {}
               \/ r.outcome = "NoName" /\ inside = {r.zone}
               \/ r.outcome = "NoZone" /\ inside = {}
<1>1. CASE ~ NotReverse(c, n, t)
  <2>1. reverse_has_type(t) /\ match_ptr(c.zones, n) # {}
    BY <1>1 DEF NotReverse
  <2>2. PICK a \in Address : \E i \in 1 .. Len(c.zones) :
                /\ match_ptr(c.zones, n) = {[zone |-> i, addr |-> a]}
                /\ n = FullName(a)
                /\ Contains(c.zones[i], a)
    BY <2>1, MatchPtr
  <2>3. PICK i \in 1 .. Len(c.zones) :
                /\ match_ptr(c.zones, n) = {[zone |-> i, addr |-> a]}
                /\ n = FullName(a)
                /\ Contains(c.zones[i], a)
    BY <2>2
  <2>4. resolve(c, n, t).outcome = "Answer"
    <3>1. resolve(c, FullName(a), t) = Found(i, FullName(a), NameIn(c.zones[i], a))
      BY <2>1, <2>3, ResolveReverse
    <3> QED
      BY <2>3, <3>1 DEF Found
  <2>5. Within(c.zones[i], n)
    BY <2>3, FullNameIs, ReverseOrigin DEF Sound, Within
  <2>6. zone_containing(c.zones, n) # {}
    BY <2>5, ZoneContaining
  <2> QED
    BY <2>4, <2>6
<1>2. CASE NotReverse(c, n, t) /\ match_forward(c.zones, n) # {}
  <2>1. PICK i \in 1 .. Len(c.zones) : /\ match_forward(c.zones, n) = {i}
                                       /\ match_zone_forward(c.zones[i], n) # {}
    BY <1>2, MatchForward
  <2>2. resolve(c, n, t).outcome = "Answer"
    BY <1>2, <2>1, ResolveForward
  <2>3. Within(c.zones[i], n)
    BY <2>1, ZonesByIndex, MatchBelowParent DEF Unstarred, Within
  <2>4. zone_containing(c.zones, n) # {}
    BY <2>3, ZoneContaining
  <2> QED
    BY <2>2, <2>4
<1>3. CASE /\ NotReverse(c, n, t) /\ match_forward(c.zones, n) = {}
           /\ zone_containing(c.zones, n) # {}
  <2>1. PICK i \in 1 .. Len(c.zones) : zone_containing(c.zones, n) = {i}
    BY <1>3, ZoneContaining
  <2>2. resolve(c, n, t) = [outcome |-> "NoName", zone |-> i, records |-> <<>>]
    BY <1>3, <2>1, ResolveNoName
  <2> QED
    BY <2>1, <2>2
<1>4. CASE /\ NotReverse(c, n, t) /\ match_forward(c.zones, n) = {}
           /\ zone_containing(c.zones, n) = {}
  <2>1. resolve(c, n, t) = [outcome |-> "NoZone", zone |-> 0, records |-> <<>>]
    BY <1>4, ResolveNoZone
  <2> QED
    BY <1>4, <2>1
<1> QED
  BY <1>1, <1>2, <1>3, <1>4

\* Every name that is asked for is a name.
LEMMA QNamesType == ASSUME NEW c, Sound(c) PROVE QNames(c) \subseteq DnsName
<1>1. ASSUME NEW n \in ReverseNames PROVE n \in DnsName
  <2>1. PICK a \in Address, k \in 0 .. ADDR_NIBBLES : n = netmask_to_ptr_name(a, 4 * k)
    BY <1>1 DEF ReverseNames
  <2> QED
    BY <2>1, PtrNameType
<1>2. OtherNames \subseteq DnsName
  BY NamesAssumption
<1>3. Apexes(c) \subseteq DnsName
  BY ApexOfConfig
<1>4. ASSUME NEW z \in ZonesOf(c), NEW a \in Address, NEW n \in forward_name(z, a)
      PROVE  n \in DnsName
  <2>1. Compiled(z)
    BY ZonesByIndex
  <2>2. PICK h \in 1 .. ADDR_NIBBLES : h = z.host_nibbles
    BY <2>1 DEF Compiled
  <2>3. Template(z.fwd, h) /\ h \in 0 .. ADDR_NIBBLES /\ h \in Nat \ {0}
    BY <2>1, <2>2 DEF Compiled
  <2>4. host_digits(a, h) \in DnsLabel /\ Len(host_digits(a, h)) = h
    BY <2>3, HostDigitsType
  <2>5. n = render(z.fwd, host_digits(a, h))
    BY <2>2 DEF forward_name
  <2> QED
    BY <2>3, <2>4, <2>5, RenderType
<1>5. \A apex \in Apexes(c) : <<Www>> \o apex \in DnsName
  <2>1. <<Www>> \in DnsName
    BY NamesAssumption, Singleton DEF DnsName
  <2>2. \A x \in DnsName : \A y \in DnsName : x \o y \in DnsName
    BY ConcatAt DEF DnsName
  <2> QED
    BY <1>3, <2>1, <2>2
<1>6. ASSUME NEW n \in UNION {forward_name(z, a) : z \in ZonesOf(c), a \in Address}
      PROVE  n \in DnsName
  <2>1. PICK z \in ZonesOf(c), a \in Address : n \in forward_name(z, a)
    BY <1>6
  <2> QED
    BY <1>4, <2>1
<1>7. ASSUME NEW n \in {<<Www>> \o apex : apex \in Apexes(c)} PROVE n \in DnsName
  BY <1>5, <1>7
<1> DEFINE Forward == UNION {forward_name(z, a) : z \in ZonesOf(c), a \in Address}
           Below1 == {<<Www>> \o apex : apex \in Apexes(c)}
<1>8. QNames(c) = ReverseNames \cup OtherNames \cup Apexes(c) \cup Below1 \cup Forward
  BY DEF QNames
<1>9. Forward \subseteq DnsName /\ Below1 \subseteq DnsName /\ ReverseNames \subseteq DnsName
  BY <1>1, <1>6, <1>7
<1> HIDE DEF Forward, Below1
<1> QED
  BY <1>2, <1>3, <1>8, <1>9

\* An apex is a name inside.
LEMMA ApexInside ==
    ASSUME NEW c, Sound(c), NEW n \in Apexes(c)
    PROVE  zone_containing(c.zones, n) # {}
<1>1. n \in DnsName
  BY ApexOfConfig
<1>2. PICK i \in 1 .. Len(c.zones) : n = c.zones[i].ptr_zone \/ n = c.zones[i].fwd_parent
  BY ApexOfConfig
<1>3. Within(c.zones[i], n)
  BY <1>1, <1>2, ZoneOfSelf DEF Within
<1> QED
  BY <1>3, ZoneContaining

\* The authoritative bit is set exactly on what is served from inside our zones.
THEOREM AuthoritativeTheorem == Spec => []AuthoritativeInside
<1>1. Sound(config) => AuthoritativeInside
  <2> SUFFICES ASSUME Sound(config), Unstarred(config), NEW n \in QNames(config),
                      NEW t \in QTypes \cup Transfer, NEW k \in {"IN", "ANY", ForeignClass}
               PROVE  LET r == Decide(config, [name |-> n, type |-> t, class |-> k], <<>>)
                          served == t \notin Transfer /\ k # ForeignClass
                      IN  /\ r.authoritative <=> served /\ zone_containing(config.zones, n) # {}
                          /\ ~ r.authoritative => r.answers = <<>> /\ r.authority = <<>>
                          /\ ~ served => r.code = "Refused"
    BY DEF AuthoritativeInside
  <2> DEFINE q == [name |-> n, type |-> t, class |-> k]
             r == resolve(config, n, t)
             d == Decide(config, q, <<>>)
             inside == zone_containing(config.zones, n)
             served == t \notin Transfer /\ k # ForeignClass
             apex == t \in {"SOA", "NS", "ANY"} /\ n \in Apexes(config)
  <2>1. n \in DnsName
    BY QNamesType
  <2>2. \/ r.outcome = "Answer" /\ inside # {}
        \/ r.outcome = "NoName" /\ inside = {r.zone}
        \/ r.outcome = "NoZone" /\ inside = {}
    BY <2>1, ResolveContained
  <2>3. q.name = n /\ q.type = t /\ q.class = k
    OBVIOUS
  <2>4. served <=> Serves(q)
    BY <2>3 DEF Serves, Transfer, ForeignClass
  <2> HIDE DEF q
  <2>5. ~ served => d = refused
    BY <2>4, DecideBranches
  <2>6. served =>
          /\ apex => d = ApexReply(config, q)
          /\ ~ apex /\ r.outcome = "Answer" => d = AnswerReply(config, q, r, <<>>)
          /\ ~ apex /\ r.outcome = "NoName" => d = NoNameReply(config, q, r)
          /\ ~ apex /\ r.outcome = "NoZone" => d = NoZoneReply(config)
    BY <2>3, <2>4, DecideBranches
  <2>7. /\ ApexReply(config, q).authoritative = TRUE
        /\ AnswerReply(config, q, r, <<>>).authoritative = TRUE
        /\ NoNameReply(config, q, r).authoritative = TRUE
    BY ReplyAuthoritative
  <2>8. apex => inside # {}
    BY ApexInside
  <2>9. Bare(refused) /\ refused.code = "Refused" /\ Bare(NoZoneReply(config))
    BY BareReplies
  <2> HIDE DEF r, d, inside, served, apex
  <2>10. CASE ~ served
    <3>1. Bare(d) /\ d.code = "Refused"
      BY <2>5, <2>9, <2>10
    <3> QED
      BY <2>10, <3>1 DEF Bare, d, q, inside, served
  <2>11. CASE served /\ inside # {}
    <3>1. d.authoritative
      BY <2>2, <2>6, <2>7, <2>11
    <3> QED
      BY <2>11, <3>1 DEF d, q, inside, served
  <2>12. CASE served /\ inside = {}
    <3>1. Bare(d)
      BY <2>2, <2>6, <2>8, <2>9, <2>12
    <3> QED
      BY <2>12, <3>1 DEF Bare, d, q, inside, served
  <2> QED
    BY <2>10, <2>11, <2>12
<1> QED
  BY <1>1, AlwaysSound, PTL

-----------------------------------------------------------------------------
(* Negative answers.                                                       *)

\* The apex that a negative answer names.
LEMMA ApexAbove ==
    ASSUME NEW c, Sound(c), NEW n, NEW i \in 1 .. Len(c.zones), Within(c.zones[i], n)
    PROVE  /\ ApexOf(c.zones[i], n) \in Apexes(c)
           /\ ZoneOf(ApexOf(c.zones[i], n), n)
<1>1. c.zones[i].ptr_zone \in Apexes(c) /\ c.zones[i].fwd_parent \in Apexes(c)
  BY ApexOfConfig
<1> QED
  BY <1>1 DEF ApexOf, Within

\* A question that resolves.
LEMMA DecideAnswer ==
    ASSUME NEW c, NEW n, NEW t \in QTypes, NEW foreign,
           ~ (t \in {"SOA", "NS", "ANY"} /\ n \in Apexes(c)),
           resolve(c, n, t).outcome = "Answer"
    PROVE  LET q == Query(n, t)
           IN  /\ q.name = n /\ q.type = t
               /\ Decide(c, q, foreign) = AnswerOf(c, n, Served(c, q, resolve(c, n, t), foreign))
<1> DEFINE q == Query(n, t)
           r == resolve(c, n, t)
<1>1. q.name = n /\ q.type = t /\ Decide(c, q, foreign) = AnswerReply(c, q, r, foreign)
  BY DecideIs
<1>2. AnswerReply(c, q, r, foreign) = AnswerOf(c, q.name, Served(c, q, r, foreign))
  BY AnswerIs
<1> HIDE DEF q, r
<1>3. Decide(c, q, foreign) = AnswerOf(c, n, Served(c, q, r, foreign))
  BY <1>1, <1>2
<1> QED
  BY <1>1, <1>3 DEF q, r

\* A vector of one SOA.
LEMMA OneSoa ==
    ASSUME NEW apex
    PROVE  Len(<<Soa(apex)>>) = 1 /\ <<Soa(apex)>>[1].owner = apex
BY DEF Soa

\* A negative answer from inside our zones can be cached.
THEOREM NegativeTheorem == Spec => []NegativeCacheable
<1>1. Sound(config) => NegativeCacheable
  <2> SUFFICES ASSUME Sound(config), config.soa, Unstarred(config),
                      NEW n \in QNames(config) \ Apexes(config), NEW t \in QTypes,
                      Decide(config, Query(n, t), <<>>).authoritative,
                      Decide(config, Query(n, t), <<>>).answers = <<>>
               PROVE  LET r == Decide(config, Query(n, t), <<>>)
                      IN  /\ Len(r.authority) = 1
                          /\ r.authority[1].owner \in Apexes(config)
                          /\ ZoneOf(r.authority[1].owner, n)
    BY DEF NegativeCacheable
  <2>0. PICK none : none = <<>>
    OBVIOUS
  <2> DEFINE q == Query(n, t)
             r == resolve(config, n, t)
             d == Decide(config, q, none)
             inside == zone_containing(config.zones, n)
  <2>1. n \in DnsName
    BY QNamesType
  <2>2. \/ r.outcome = "Answer" /\ inside # {}
        \/ r.outcome = "NoName" /\ inside = {r.zone}
        \/ r.outcome = "NoZone" /\ inside = {}
    BY <2>1, ResolveContained
  <2>3. r.outcome # "NoZone"
    <3>1. r.outcome = "NoZone" => d = NoZoneReply(config)
      BY DecideIs
    <3>2. NoZoneReply(config).authoritative = FALSE
      BY ReplyAuthoritative
    <3> QED
      BY <2>0, <3>1, <3>2
  <2>4. PICK i \in 1 .. Len(config.zones) : inside = {i} /\ Within(config.zones[i], n)
    BY <2>2, <2>3, ZoneContaining
  <2> DEFINE apex == ApexOf(config.zones[i], n)
  <2>5. apex \in Apexes(config) /\ ZoneOf(apex, n)
    BY <2>4, ApexAbove
  <2>6. d.authority = <<Soa(apex)>>
    <3>1. CASE r.outcome = "Answer"
      <4> PICK answers : answers = Served(config, q, r, none)
        OBVIOUS
      <4>0. ~ (t \in {"SOA", "NS", "ANY"} /\ n \in Apexes(config))
        OBVIOUS
      <4>1. d = AnswerOf(config, n, answers)
        BY <3>1, <4>0, DecideAnswer
      <4>2. answers = <<>>
        BY <2>0, <4>1, AnswerFields
      <4>3. d.authority = negative_authority(config, n)
        BY <4>1, <4>2, AnswerNegative
      <4>4. negative_authority(config, n) = <<Soa(apex)>>
        <5>1. The(inside) = i
          BY <2>4, TheOnly
        <5> QED
          BY <2>4, <5>1 DEF negative_authority, If
      <4> QED
        BY <4>3, <4>4
    <3>2. CASE r.outcome = "NoName"
      <4>1. d = NoNameReply(config, q, r) /\ q.name = n
        BY <3>2, DecideIs
      <4>2. r.zone = i
        BY <2>2, <2>4, <3>2
      <4>3. NoNameReply(config, q, r) = Reply("NXDomain", TRUE, <<>>, <<Soa(apex)>>)
        <5> HIDE DEF q, r
        <5> QED
          BY <4>1, <4>2 DEF NoNameReply, If
      <4>4. Reply("NXDomain", TRUE, <<>>, <<Soa(apex)>>).authority = <<Soa(apex)>>
        BY DEF Reply
      <4> QED
        BY <4>1, <4>3, <4>4
    <3> QED
      BY <2>2, <2>3, <3>1, <3>2
  <2>7. Len(d.authority) = 1 /\ d.authority[1].owner = apex
    <3> HIDE DEF d, apex
    <3> QED
      BY <2>6, OneSoa
  <2> QED
    BY <2>0, <2>5, <2>7
<1> QED
  BY <1>1, AlwaysSound, PTL

-----------------------------------------------------------------------------
(* What an upstream's answer becomes.                                      *)

\* The survivors are members of the answer.
LEMMA NthSurvivor ==
    ASSUME NEW up, NEW answers, Len(answers) \in Nat,
           NEW i \in 1 .. Cardinality(Survivors(up, answers))
    PROVE  Nth(Survivors(up, answers), i) \in Survivors(up, answers)
<1> DEFINE S == Survivors(up, answers)
<1>1. S \subseteq 1 .. Len(answers)
  BY DEF Survivors
<1>2. IsFiniteSet(1 .. Len(answers))
  BY FS_Interval
<1>3. IsFiniteSet(S) /\ S \subseteq Nat
  BY <1>1, <1>2, FS_Subset
<1> QED
  BY <1>3, NthMember

\* Clamped between bounds in order.
LEMMA ClampBounds ==
    ASSUME NEW ttl \in Nat
    PROVE  Clamp(ttl) \in MIN_RELAY_TTL .. MAX_RELAY_TTL
BY RelayAssumption DEF Clamp

\* Every record that passes the filter is a survivor, rebuilt, and there are
\* at most so many.
LEMMA Filtered ==
    ASSUME NEW qname, NEW up, NEW answers, Len(answers) \in Nat
    PROVE  LET out == filter_upstream(qname, up, answers)
           IN  /\ Len(out) \in 0 .. MAX_RELAYED_RECORDS
               /\ Survivors(up, answers) = {} => out = <<>>
               /\ Len(out) = 0 => out = <<>>
               /\ \A i \in 1 .. Len(out) : \E j \in 1 .. Len(answers) :
                    Keeps(up, answers[j]) /\ out[i] = Rebuilt(qname, answers[j])
<1> DEFINE kept == Survivors(up, answers)
           total == Cardinality(kept)
           n == IF total < MAX_RELAYED_RECORDS THEN total ELSE MAX_RELAYED_RECORDS
           out == filter_upstream(qname, up, answers)
           At(i) == Rebuilt(qname, answers[Nth(kept, i)])
<1>1. total \in Nat /\ (kept = {} => total = 0)
  <2>1. IsFiniteSet(1 .. Len(answers))
    BY FS_Interval
  <2>2. kept \subseteq 1 .. Len(answers)
    BY DEF Survivors
  <2>3. IsFiniteSet(kept)
    BY <2>1, <2>2, FS_Subset
  <2> QED
    BY <2>3, FS_CardinalityType, FS_EmptySet
<1>2. out = [i \in 1 .. n |-> At(i)]
  BY DEF filter_upstream
<1>3. ASSUME NEW i \in 1 .. n
      PROVE  \E j \in 1 .. Len(answers) : Keeps(up, answers[j]) /\ At(i) = Rebuilt(qname, answers[j])
  <2>1. i \in 1 .. total
    BY <1>1, RelayAssumption
  <2>2. Nth(kept, i) \in kept
    BY <2>1, NthSurvivor
  <2> QED
    BY <2>2 DEF Survivors
<1> HIDE DEF kept, total, At
<1>4. n \in 0 .. MAX_RELAYED_RECORDS /\ (kept = {} => n = 0)
  BY <1>1, RelayAssumption
<1> HIDE DEF n, out
<1>5. Len(out) = n /\ \A i \in 1 .. n : out[i] = At(i)
  BY <1>2, <1>4
<1>6. n = 0 => out = <<>>
  BY <1>2
<1> QED
  BY <1>3, <1>4, <1>5, <1>6 DEF out, kept

\* An upstream without answers adds nothing.
LEMMA NothingRelayed ==
    ASSUME NEW qname, NEW none, none = <<>>
    PROVE  lookup_ptr(qname, none) = <<>>
<1>1. Len(none) = 0
  OBVIOUS
<1>2. \A up : Survivors(up, none) = {}
  BY <1>1 DEF Survivors
<1>3. \A up : filter_upstream(qname, up, none) = <<>>
  BY <1>1, <1>2, Filtered
<1> QED
  BY <1>3 DEF lookup_ptr

-----------------------------------------------------------------------------
(* Two queries in a row.                                                   *)

\* A PTR question for an address of ours.
LEMMA PtrResolves ==
    ASSUME NEW c, Sound(c), NEW a \in Address, NEW i \in 1 .. Len(c.zones),
           zone_for_addr(c.zones, a) = {i}, NEW t, t = "PTR"
    PROVE  /\ NameIn(c.zones[i], a) \in DnsName
           /\ ~ Starred(c.zones[i])
                => match_zone_forward(c.zones[i], NameIn(c.zones[i], a)) = {a}
           /\ resolve(c, FullName(a), t) = Found(i, FullName(a), NameIn(c.zones[i], a))
<1>1. Contains(c.zones[i], a)
  BY ZoneForAddr
<1>2. match_ptr(c.zones, FullName(a)) = {[zone |-> i, addr |-> a]}
  <2>1. ptr_name_to_addr(FullName(a)) = {a}
    BY FullNameIs
  <2> QED
    BY <1>1, <2>1 DEF match_ptr
<1>3. reverse_has_type(t)
  BY DEF reverse_has_type
<1>4. /\ NameIn(c.zones[i], a) \in DnsName
      /\ ~ Starred(c.zones[i])
           => match_zone_forward(c.zones[i], NameIn(c.zones[i], a)) = {a}
      /\ resolve(c, FullName(a), t) = Found(i, FullName(a), NameIn(c.zones[i], a))
  BY <1>1, <1>2, <1>3, ResolveReverse
<1> QED
  BY <1>4

\* A name is matched in its own zone, or in one in front with no shorter a mask.
LEMMA MatchedBefore ==
    ASSUME NEW c, Sound(c), NEW target,
           NEW i \in 1 .. Len(c.zones), match_zone_forward(c.zones[i], target) # {}
    PROVE  \E j \in 1 .. Len(c.zones) :
             /\ match_forward(c.zones, target) = {j}
             /\ match_zone_forward(c.zones[j], target) # {}
             /\ j = i \/ (j \in 1 .. i - 1 /\ c.zones[j].mask >= c.zones[i].mask)
<1>1. PICK j \in 1 .. Len(c.zones) : /\ match_forward(c.zones, target) = {j}
                                     /\ match_zone_forward(c.zones[j], target) # {}
                                     /\ j <= i
  BY MatchForward
<1>2. Compiled(c.zones[i]) /\ Compiled(c.zones[j]) /\ c.zones[i].mask <= c.zones[j].mask
  BY <1>1 DEF Sound
<1>3. c.zones[i].mask \in Nat /\ c.zones[j].mask \in Nat
  <2>1. ASSUME NEW z, Compiled(z) PROVE z.mask \in Nat
    <3>1. PICK n \in 1 .. ADDR_NIBBLES - 1 : z.mask = 4 * n
      BY <2>1 DEF Compiled
    <3> QED
      BY <3>1
  <2> QED
    BY <1>2, <2>1
<1>4. c.zones[j].mask >= c.zones[i].mask
  BY <1>2, <1>3
<1>5. j = i \/ j \in 1 .. i - 1
  BY <1>1
<1> QED
  BY <1>1, <1>4, <1>5

\* Without an upstream's records, what is served is what was synthesized.
LEMMA ServedOwn ==
    ASSUME NEW c, NEW q, NEW r, NEW none, none = <<>>
    PROVE  Served(c, q, r, none) = r.records
<1>1. lookup_ptr(q.name, none) = <<>>
  BY NothingRelayed
<1> QED
  BY <1>1 DEF Served

\* What PTR says, AAAA undoes, or a zone in front takes for an address of its own.
THEOREM TwoQueriesTheorem == Spec => []PtrThenAaaa
<1>1. Sound(config) => PtrThenAaaa
  <2> SUFFICES ASSUME Sound(config), NEW a \in Address, NEW i \in zone_for_addr(config.zones, a)
               PROVE  LET ptr == Decide(config, Query(FullName(a), "PTR"), <<>>).answers
                          name == ptr[1].target
                          aaaa == Decide(config, Query(name, "AAAA"), <<>>).answers
                      IN  /\ Len(ptr) = 1
                          /\ ~ Starred(config.zones[i]) =>
                               /\ Len(aaaa) = 1
                               /\ \/ aaaa[1] = Aaaa(name, a)
                                  \/ \E j \in 1 .. i - 1 :
                                       /\ config.zones[j].mask >= config.zones[i].mask
                                       /\ aaaa[1].addr \in match_zone_forward(config.zones[j], name)
    BY DEF PtrThenAaaa
  <2>1. PICK none, t, u : none = <<>> /\ t = "PTR" /\ u = "AAAA"
    OBVIOUS
  <2>2. i \in 1 .. Len(config.zones) /\ zone_for_addr(config.zones, a) = {i}
    BY ZoneForAddr
  <2> DEFINE target == NameIn(config.zones[i], a)
  <2>3. /\ ~ Starred(config.zones[i]) => match_zone_forward(config.zones[i], target) = {a}
        /\ resolve(config, FullName(a), t) = Found(i, FullName(a), target)
    BY <2>1, <2>2, PtrResolves
  <2> HIDE DEF target
  <2> DEFINE ptr == Decide(config, Query(FullName(a), t), none).answers
             aaaa == Decide(config, Query(target, u), none).answers
  <2>4. t \in QTypes /\ u \in QTypes
        /\ t \notin {"SOA", "NS", "ANY"} /\ u \notin {"SOA", "NS", "ANY"}
    BY <2>1 DEF QTypes
  <2>5. ptr = <<Ptr(FullName(a), target)>>
    <3> DEFINE q == Query(FullName(a), t)
               r == resolve(config, FullName(a), t)
               d == Decide(config, q, none)
    <3>1. r.outcome = "Answer" /\ r.records = <<Ptr(FullName(a), target)>>
      BY <2>3 DEF Found
    <3>2. d = AnswerOf(config, FullName(a), Served(config, q, r, none))
      BY <2>4, <3>1, DecideAnswer
    <3>3. Served(config, q, r, none) = r.records
      BY <2>1, ServedOwn
    <3>4. ptr = d.answers
      OBVIOUS
    <3> HIDE DEF q, r, d, ptr
    <3> QED
      BY <3>1, <3>2, <3>3, <3>4, AnswerFields
  <2>6. ptr[1].target = target /\ Len(ptr) = 1
    <3> HIDE DEF ptr
    <3> QED
      BY <2>5 DEF Ptr
  <2>7. ASSUME ~ Starred(config.zones[i])
        PROVE  /\ Len(aaaa) = 1
               /\ \/ aaaa[1] = Aaaa(target, a)
                  \/ \E j \in 1 .. i - 1 :
                       /\ config.zones[j].mask >= config.zones[i].mask
                       /\ aaaa[1].addr \in match_zone_forward(config.zones[j], target)
    <3> DEFINE q == Query(target, u)
               r == resolve(config, target, u)
               d == Decide(config, q, none)
    <3>1. match_zone_forward(config.zones[i], target) = {a}
      BY <2>3, <2>7
    <3>2. PICK j \in 1 .. Len(config.zones) :
             /\ match_forward(config.zones, target) = {j}
             /\ match_zone_forward(config.zones[j], target) # {}
             /\ j = i \/ (j \in 1 .. i - 1 /\ config.zones[j].mask >= config.zones[i].mask)
      BY <2>2, <3>1, MatchedBefore
    <3> DEFINE matched == match_zone_forward(config.zones[j], target)
               b == The(matched)
    <3>3. NotReverse(config, target, u) /\ forward_has_type(u)
      BY <2>1 DEF NotReverse, reverse_has_type, forward_has_type
    <3>4. b \in matched
      BY <3>2, TheMember
    <3>5. VecOf(matched, target, Aaaa) = <<Aaaa(target, b)>>
      BY <3>2 DEF VecOf
    <3>6. r = [outcome |-> "Answer", zone |-> j,
               records |-> IF forward_has_type(u) THEN VecOf(matched, target, Aaaa) ELSE <<>>]
      BY <3>2, <3>3, ResolveForward
    <3> HIDE DEF matched, b
    <3>7. r.outcome = "Answer" /\ r.records = <<Aaaa(target, b)>>
      BY <3>3, <3>5, <3>6
    <3>8. d = AnswerOf(config, target, Served(config, q, r, none))
      BY <2>4, <3>7, DecideAnswer
    <3>9. Served(config, q, r, none) = r.records
      BY <2>1, ServedOwn
    <3>10. aaaa = d.answers
      OBVIOUS
    <3> HIDE DEF q, r, d, aaaa
    <3>11. aaaa = <<Aaaa(target, b)>>
      BY <3>7, <3>8, <3>9, <3>10, AnswerFields
    <3>12. Len(aaaa) = 1 /\ aaaa[1] = Aaaa(target, b) /\ aaaa[1].addr = b
      BY <3>11 DEF Aaaa
    <3>13. j = i => b = a
      BY <3>1, <3>4 DEF matched
    <3> QED
      BY <3>2, <3>4, <3>12, <3>13 DEF matched
  <2>8. aaaa = Decide(config, Query(ptr[1].target, u), none).answers
    BY <2>6
  <2> HIDE DEF ptr, aaaa
  <2> QED
    BY <2>1, <2>6, <2>7, <2>8 DEF ptr
<1> QED
  BY <1>1, AlwaysSound, PTL

-----------------------------------------------------------------------------
(* What an upstream has a say in.                                          *)

\* An upstream is asked about addresses only, and about those of the zone that
\* names it.
LEMMA Consulted ==
    ASSUME NEW c, Sound(c), NEW n \in DnsName, NEW t \in QTypes,
           Consults(c, Query(n, t), resolve(c, n, t))
    PROVE  /\ t = "PTR"
           /\ \E a \in ptr_name_to_addr(n) : \E i \in zone_for_addr(c.zones, a) :
                c.zones[i].upstream
<1> DEFINE r == resolve(c, n, t)
<1>1. t = "PTR" /\ r.records # <<>> /\ c.zones[r.zone].upstream
  BY DEF Consults, Query
<1>2. ~ forward_has_type(t)
  BY <1>1 DEF forward_has_type
<1>3. ~ NotReverse(c, n, t)
  <2> SUFFICES ASSUME NotReverse(c, n, t) PROVE FALSE
    OBVIOUS
  <2>1. CASE match_forward(c.zones, n) # {}
    <3>1. PICK i \in 1 .. Len(c.zones) : match_forward(c.zones, n) = {i}
      BY <2>1, MatchForward
    <3>2. r = [outcome |-> "Answer", zone |-> i,
               records |-> IF forward_has_type(t)
                             THEN VecOf(match_zone_forward(c.zones[i], n), n, Aaaa)
                             ELSE <<>>]
      BY <3>1, ResolveForward
    <3>3. r.records = <<>>
      BY <1>2, <3>2
    <3> QED
      BY <1>1, <3>3
  <2>2. CASE match_forward(c.zones, n) = {} /\ zone_containing(c.zones, n) # {}
    <3>1. PICK i \in 1 .. Len(c.zones) : zone_containing(c.zones, n) = {i}
      BY <2>2, ZoneContaining
    <3>2. r = [outcome |-> "NoName", zone |-> i, records |-> <<>>]
      BY <2>2, <3>1, ResolveNoName
    <3> QED
      BY <1>1, <3>2
  <2>3. CASE match_forward(c.zones, n) = {} /\ zone_containing(c.zones, n) = {}
    <3>1. r = [outcome |-> "NoZone", zone |-> 0, records |-> <<>>]
      BY <2>3, ResolveNoZone
    <3> QED
      BY <1>1, <3>1
  <2> QED
    BY <2>1, <2>2, <2>3
<1>4. reverse_has_type(t) /\ match_ptr(c.zones, n) # {}
  BY <1>3 DEF NotReverse
<1>5. PICK a \in Address : \E i \in 1 .. Len(c.zones) :
                /\ match_ptr(c.zones, n) = {[zone |-> i, addr |-> a]}
                /\ n = FullName(a)
                /\ zone_for_addr(c.zones, a) = {i}
                /\ Contains(c.zones[i], a)
  BY <1>4, MatchPtr
<1>6. PICK i \in 1 .. Len(c.zones) :
                /\ match_ptr(c.zones, n) = {[zone |-> i, addr |-> a]}
                /\ n = FullName(a)
                /\ zone_for_addr(c.zones, a) = {i}
                /\ Contains(c.zones[i], a)
  BY <1>5
<1>7. r = Found(i, FullName(a), NameIn(c.zones[i], a))
  BY <1>4, <1>6, ResolveReverse
<1>8. r.zone = i
  BY <1>7 DEF Found
<1>9. ptr_name_to_addr(n) = {a}
  BY <1>6, FullNameIs
<1> QED
  BY <1>1, <1>6, <1>8, <1>9

\* A reply that an upstream changes: its records in the place of ours.
LEMMA Relayed ==
    ASSUME NEW c, NEW n, NEW t \in QTypes, NEW foreign, NEW none, none = <<>>,
           Decide(c, Query(n, t), foreign) # Decide(c, Query(n, t), none)
    PROVE  LET q == Query(n, t)
               r == resolve(c, n, t)
           IN  /\ Consults(c, q, r)
               /\ r.records # <<>>
               /\ lookup_ptr(n, foreign) # <<>>
               /\ Decide(c, q, foreign) = AnswerOf(c, n, lookup_ptr(n, foreign))
               /\ Decide(c, q, none) = AnswerOf(c, n, r.records)
<1> DEFINE q == Query(n, t)
           r == resolve(c, n, t)
           d == Decide(c, q, foreign)
           own == Decide(c, q, none)
           apex == t \in {"SOA", "NS", "ANY"} /\ n \in Apexes(c)
<1>1. q.name = n
  BY DEF Query
<1>2. ~ apex /\ r.outcome = "Answer"
  <2>1. /\ apex => d = ApexReply(c, q)
        /\ apex => own = ApexReply(c, q)
        /\ ~ apex /\ r.outcome = "NoName" => d = NoNameReply(c, q, r)
        /\ ~ apex /\ r.outcome = "NoName" => own = NoNameReply(c, q, r)
        /\ ~ apex /\ r.outcome = "NoZone" => d = NoZoneReply(c)
        /\ ~ apex /\ r.outcome = "NoZone" => own = NoZoneReply(c)
    BY DecideIs
  <2>2. r.outcome \in {"Answer", "NoName", "NoZone"}
    BY DEF resolve
  <2> HIDE DEF q, r, apex
  <2> QED
    BY <2>1, <2>2 DEF q
<1>3. /\ d = AnswerOf(c, n, Served(c, q, r, foreign))
      /\ own = AnswerOf(c, n, Served(c, q, r, none))
  BY <1>2, DecideAnswer
<1>4. Served(c, q, r, none) = r.records
  BY ServedOwn
<1>5. Served(c, q, r, foreign) # r.records
  BY <1>3, <1>4
<1>6. /\ Consults(c, q, r) /\ lookup_ptr(n, foreign) # <<>>
      /\ Served(c, q, r, foreign) = lookup_ptr(n, foreign)
  BY <1>1, <1>5 DEF Served
<1>7. r.records # <<>>
  BY <1>6 DEF Consults
<1> HIDE DEF q, r, d, own
<1>8. d = AnswerOf(c, n, lookup_ptr(n, foreign)) /\ own = AnswerOf(c, n, r.records)
  BY <1>3, <1>4, <1>6
<1> QED
  BY <1>6, <1>7, <1>8 DEF q, r, d, own

\* An upstream speaks for nothing but the addresses of its zones.
THEOREM ConfinedTheorem == Spec => []UpstreamConfined
<1>1. Sound(config) => UpstreamConfined
  <2> SUFFICES ASSUME Sound(config), NEW n \in QNames(config), NEW t \in QTypes,
                      NEW foreign \in Foreign(n),
                      Decide(config, Query(n, t), foreign) # Decide(config, Query(n, t), <<>>)
               PROVE  LET own == Decide(config, Query(n, t), <<>>)
                          r == Decide(config, Query(n, t), foreign)
                      IN  /\ [r EXCEPT !.answers = own.answers] = own
                          /\ t = "PTR"
                          /\ \E a \in ptr_name_to_addr(n) :
                               \E i \in zone_for_addr(config.zones, a) : config.zones[i].upstream
    BY DEF UpstreamConfined
  <2>1. PICK none : none = <<>>
    OBVIOUS
  <2> DEFINE r == resolve(config, n, t)
             d == Decide(config, Query(n, t), foreign)
             own == Decide(config, Query(n, t), none)
             x == lookup_ptr(n, foreign)
             y == r.records
  <2>2. d # own
    BY <2>1
  <2>3. /\ Consults(config, Query(n, t), r)
        /\ y # <<>> /\ x # <<>>
        /\ d = AnswerOf(config, n, x)
        /\ own = AnswerOf(config, n, y)
    BY <2>1, <2>2, Relayed
  <2>4. n \in DnsName
    BY QNamesType
  <2>5. /\ t = "PTR"
        /\ \E a \in ptr_name_to_addr(n) :
             \E i \in zone_for_addr(config.zones, a) : config.zones[i].upstream
    BY <2>3, <2>4, Consulted
  <2> HIDE DEF r, d, own, x, y
  <2>6. [d EXCEPT !.answers = own.answers] = own
    <3>1. own.answers = y
      BY <2>3, AnswerFields
    <3>2. [AnswerOf(config, n, x) EXCEPT !.answers = y] = AnswerOf(config, n, y)
      BY <2>3, AnswersAlike
    <3> QED
      BY <2>3, <3>1, <3>2
  <2> QED
    BY <2>1, <2>5, <2>6 DEF d, own
<1> QED
  BY <1>1, AlwaysSound, PTL

\* A relayed record is one we would vouch for.
THEOREM VouchedTheorem == Spec => []RelayedVouched
<1>1. Sound(config) => RelayedVouched
  <2> SUFFICES ASSUME Sound(config), NEW a \in Address, NEW foreign \in Foreign(FullName(a)),
                      Decide(config, Query(FullName(a), "PTR"), foreign).answers
                        # Decide(config, Query(FullName(a), "PTR"), <<>>).answers
               PROVE  LET n == FullName(a)
                          answers == Decide(config, Query(n, "PTR"), foreign).answers
                      IN  /\ Len(answers) \in 1 .. MAX_RELAYED_RECORDS
                          /\ \A i \in 1 .. Len(answers) :
                               /\ answers[i].type = "PTR" /\ answers[i].owner = n
                               /\ answers[i].ttl \in MIN_RELAY_TTL .. MAX_RELAY_TTL
                               /\ \E j \in 1 .. Len(foreign) :
                                    /\ foreign[j].target = {answers[i].target}
                                    /\ foreign[j].class = "IN" /\ foreign[j].type = "PTR"
                                    /\ foreign[j].owner = Append(n, UPSTREAM_LABEL)
    BY DEF RelayedVouched
  <2>1. PICK none, t : none = <<>> /\ t = "PTR"
    OBVIOUS
  <2> DEFINE n == FullName(a)
             d == Decide(config, Query(n, t), foreign)
             own == Decide(config, Query(n, t), none)
             answers == lookup_ptr(n, foreign)
             up == Append(n, UPSTREAM_LABEL)
  <2>2. d # own /\ t \in QTypes
    BY <2>1 DEF QTypes
  <2>3. answers # <<>> /\ d = AnswerOf(config, n, answers)
    BY <2>1, <2>2, Relayed
  <2>4. d.answers = answers
    <3> HIDE DEF d, answers, n
    <3> QED
      BY <2>3, AnswerFields
  <2>5. answers = filter_upstream(n, up, foreign)
    <3>1. The({up}) = up
      BY TheOnly
    <3> QED
      BY <2>3, <3>1 DEF lookup_ptr, upstream_qname
  <2>6. /\ Len(foreign) \in Nat
        /\ \A j \in 1 .. Len(foreign) :
             foreign[j].ttl \in Nat /\ \A x, y \in foreign[j].target : x = y
    BY ForeignAssumption
  <2>7. /\ Len(answers) \in 0 .. MAX_RELAYED_RECORDS
        /\ Len(answers) = 0 => answers = <<>>
        /\ \A i \in 1 .. Len(answers) : \E j \in 1 .. Len(foreign) :
             Keeps(up, foreign[j]) /\ answers[i] = Rebuilt(n, foreign[j])
    BY <2>5, <2>6, Filtered
  <2> HIDE DEF n, d, answers, up
  <2>8. Len(answers) \in 1 .. MAX_RELAYED_RECORDS
    BY <2>3, <2>7, RelayAssumption
  <2>9. ASSUME NEW i \in 1 .. Len(answers)
        PROVE  /\ answers[i].type = "PTR" /\ answers[i].owner = n
               /\ answers[i].ttl \in MIN_RELAY_TTL .. MAX_RELAY_TTL
               /\ \E j \in 1 .. Len(foreign) :
                    /\ foreign[j].target = {answers[i].target}
                    /\ foreign[j].class = "IN" /\ foreign[j].type = "PTR"
                    /\ foreign[j].owner = up
    <3>1. PICK j \in 1 .. Len(foreign) : Keeps(up, foreign[j]) /\ answers[i] = Rebuilt(n, foreign[j])
      BY <2>7
    <3>2. /\ answers[i].type = "PTR" /\ answers[i].owner = n
          /\ answers[i].ttl = Clamp(foreign[j].ttl)
          /\ answers[i].target = The(foreign[j].target)
      BY <3>1 DEF Rebuilt
    <3>3. answers[i].ttl \in MIN_RELAY_TTL .. MAX_RELAY_TTL
      BY <2>6, <3>2, ClampBounds
    <3>4. foreign[j].target = {answers[i].target}
      <4>1. The(foreign[j].target) \in foreign[j].target
        BY <3>1, TheMember DEF Keeps
      <4> QED
        BY <2>6, <3>2, <4>1
    <3> QED
      BY <3>1, <3>2, <3>3, <3>4 DEF Keeps
  <2> QED
    BY <2>1, <2>4, <2>8, <2>9 DEF n, d, up
<1> QED
  BY <1>1, AlwaysSound, PTL
=============================================================================
