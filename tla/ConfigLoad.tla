----------------------------- MODULE ConfigLoad -----------------------------
(***************************************************************************)
(* Config::parse as a whole: the lines of a file (module ConfigParse), and *)
(* then src/config/compile.rs over what they recorded - the listen values, *)
(* the globals, and one zone after the other with its early returns and    *)
(* the two maps of what was seen before.  Every stage adds to the same     *)
(* list of errors, and the file is accepted if that list stays empty.      *)
(*                                                                         *)
(* Module Zone says of a sequence of zones whether it is accepted and what *)
(* it compiles to; here is how the code gets there.                        *)
(***************************************************************************)
EXTENDS ConfigParse, Zone

CONSTANTS
    AsNetwork(_),   \* what the text of a value parses to: a network,
    AsPattern(_),   \* a pattern (both as in module Zone),
    AsNumber(_),    \* a u32, as an Option,
    IsName(_),      \* whether it is a DNS name,
    IsIpAddr(_),    \* an IP address,
    IsSocketAddr(_),    \* an IP address and a port
    Allowed,        \* numeric GlobalKey -> the values that are accepted
    Default         \* numeric GlobalKey -> its value where the file has none

NumberKey == {"Ttl", "MaxUdpPayload", "UpstreamTimeout", "RrlRps", "RrlBurst", "RrlSlip"}

ASSUME DefaultAssumption == \A k \in NumberKey : Default[k] \in Allowed[k]

\* The texts of values in the files.
Values == UNION {{ValueOf(line, d) : d \in Matched(line)} : line \in LineSet}

ASSUME NetworkAssumption == \A v \in Values : AsNetwork(v) \in RawNetworks

VARIABLES
    stage,          \* where Config::parse is
    listen,         \* the listen values that compiled
    settings,       \* what compile_globals returned
    at,             \* the raw zone to compile next
    seen_networks,  \* network -> line, as a set of records, of compiled zones
    seen_patterns,  \* pattern -> line, likewise
    zones           \* the zones that compiled

compileVars == <<stage, listen, settings, at, seen_networks, seen_patterns, zones>>
vars == <<parseVars, compileVars>>

Stage == {"parse", "listen", "globals", "zones", "done"}

RangeOf(seq) == {seq[i] : i \in 1 .. Len(seq)}

(***************************************************************************)
(* compile_globals.                                                        *)
(***************************************************************************)
NameKey == {"Primary", "Hostmaster", "Ns"}

OutOfZoneWord == {<<"refused">>, <<"nxdomain">>}

\* The number of a global, as an Option: parsed and within its range.
Accepted(g) == {n \in AsNumber(g.value.value) : n \in Allowed[g.key]}

GlobalOK(g) ==
    /\ g.key \in NameKey => IsName(g.value.value)
    /\ g.key \in NumberKey => Accepted(g) # {}
    /\ g.key = "OutOfZone" => g.value.value \in OutOfZoneWord

\* The valid globals of a key.
Given(key) == {g \in RangeOf(raw.globals) : g.key = key /\ GlobalOK(g)}

\* Mutant: the value is taken before it is checked.
NumberUnchecked(key) ==
    LET numbers == UNION {AsNumber(g.value.value) : g \in {h \in RangeOf(raw.globals) : h.key = key}}
    IN  IF numbers = {} THEN Default[key] ELSE The(numbers)

Number(key) == IF Given(key) = {} THEN Default[key]
                                  ELSE The(Accepted(The(Given(key))))

DefaultSettings ==
    [number |-> [k \in NumberKey |-> Default[k]],
     out_of_zone |-> <<"refused">>, rrl_on |-> TRUE, soa |-> FALSE, nameservers |-> 0]

Settings ==
    [number |-> [k \in NumberKey |-> Number(k)],
     out_of_zone |-> IF Given("OutOfZone") = {} THEN <<"refused">>
                                                ELSE The(Given("OutOfZone")).value.value,
     rrl_on |-> Given("RrlOff") = {},
     soa |-> Given("Primary") # {} /\ Given("Hostmaster") # {},
     nameservers |-> Cardinality(Given("Ns"))]

\* missing_pair_error: one of primary and hostmaster without the other, shown
\* at the first of the two that the file has.
PairErrors ==
    LET half == (Given("Primary") = {}) # (Given("Hostmaster") = {})
        anchor == FirstOf({g.value.line : g \in {h \in RangeOf(raw.globals) :
                                                   h.key \in {"Primary", "Hostmaster"}}})
    IN  IF half THEN <<Error("MissingCompanionDirective", The(anchor), 0)>> ELSE <<>>

ErrorsAt(values, kind) == [i \in 1 .. Len(values) |-> Error(kind, values[i].line, 0)]

GlobalErrors ==
    LET bad == {i \in 1 .. Len(raw.globals) : ~ GlobalOK(raw.globals[i])}
        values == [i \in 1 .. Len(raw.globals) |-> raw.globals[i].value]
    IN  ErrorsAt(Filter(values, bad), "InvalidGlobal") \o PairErrors

ListenOK(v) == IsSocketAddr(v.value) \/ IsIpAddr(v.value)

GoodListen == {i \in 1 .. Len(raw.listen) : ListenOK(raw.listen[i])}

(***************************************************************************)
(* compile_zone, up to its first return.                                   *)
(***************************************************************************)
\* A raw zone as module Zone takes it.
Text(z) ==
    [network |-> AsNetwork(z.network.value),
     resolves_to |-> {AsPattern(v.value) : v \in z.resolves_to},
     upstream |-> CASE z.upstream = {} -> "absent"
                    [] \E v \in z.upstream : IsIpAddr(v.value) -> "address"
                    [] OTHER -> "invalid"]

LinesOf(seen, key) == {s.line : s \in {x \in seen : x.key = key}}

CompileErrors == {"InvalidListenAddress", "InvalidGlobal", "MissingCompanionDirective",
                  "InvalidNetwork", "DuplicateNetwork", "MissingResolvesTo",
                  "InvalidResolvesTo", "DuplicateForwardPattern", "InvalidUpstreamAddress"}

\* The error it returns with, as an Option: the first that applies.
ZoneError(z) ==
    LET text == Text(z)
        network == z.network.line
        again == LinesOf(seen_networks, text.network)
        pattern == The(z.resolves_to)
        reused == LinesOf(seen_patterns, text.resolves_to)
    IN  IF ~ NetworkOK(text.network) THEN {Error("InvalidNetwork", network, 0)}
        ELSE IF again # {} THEN {Error("DuplicateNetwork", network, The(again))}
        ELSE IF z.resolves_to = {} THEN {Error("MissingResolvesTo", network, 0)}
        ELSE IF ~ TemplateOK(The(text.resolves_to), HostNibbles(The(text.network.mask)))
          THEN {Error("InvalidResolvesTo", pattern.line, 0)}
        ELSE IF reused # {} THEN {Error("DuplicateForwardPattern", pattern.line, The(reused))}
        ELSE IF text.upstream = "invalid"
          THEN {Error("InvalidUpstreamAddress", The(z.upstream).line, 0)}
        ELSE {}

-----------------------------------------------------------------------------
Init == /\ ParseInit
        /\ stage = "parse"
        /\ listen = <<>>
        /\ settings = DefaultSettings
        /\ at = 1
        /\ seen_networks = {} /\ seen_patterns = {}
        /\ zones = <<>>

ReadLine ==
    /\ stage = "parse"
    /\ \E line \in NextLines :
         \/ SkipLine(line) \/ FlagLine(line) \/ UnmatchedLine(line) \/ OutOfScope(line)
         \/ ListenLine(line) \/ NetworkLine(line) \/ ZoneLine(line) \/ GlobalLine(line)
    /\ UNCHANGED compileVars

EndOfFile ==
    /\ stage = "parse"
    /\ stage' = "listen"
    /\ UNCHANGED <<parseVars, listen, settings, at, seen_networks, seen_patterns, zones>>

CompileListen ==
    /\ stage = "listen"
    /\ stage' = "globals"
    /\ listen' = Filter(raw.listen, GoodListen)
    /\ errors' = errors \o ErrorsAt(Filter(raw.listen, (1 .. Len(raw.listen)) \ GoodListen),
                                    "InvalidListenAddress")
    /\ UNCHANGED <<file, raw, settings, at, seen_networks, seen_patterns, zones>>

CompileGlobals ==
    /\ stage = "globals"
    /\ stage' = "zones"
    /\ settings' = Settings
    /\ errors' = errors \o GlobalErrors
    /\ UNCHANGED <<file, raw, listen, at, seen_networks, seen_patterns, zones>>

\* Mutant: a zone without a pattern is passed over.
RejectZoneSilent ==
    /\ stage = "zones" /\ at <= Len(raw.zones)
    /\ \E e \in ZoneError(raw.zones[at]) :
         errors' = IF e.kind = "MissingResolvesTo" THEN errors ELSE Append(errors, e)
    /\ at' = at + 1
    /\ UNCHANGED <<file, raw, stage, listen, settings, seen_networks, seen_patterns, zones>>

\* compile_zone returns None: nothing of the zone is remembered but its error.
RejectZone ==
    /\ stage = "zones" /\ at <= Len(raw.zones)
    /\ \E e \in ZoneError(raw.zones[at]) : errors' = Append(errors, e)
    /\ at' = at + 1
    /\ UNCHANGED <<file, raw, stage, listen, settings, seen_networks, seen_patterns, zones>>

CompileZone ==
    /\ stage = "zones" /\ at <= Len(raw.zones)
    /\ LET z == raw.zones[at]
           text == Text(z)
           Seen(key, line) == [key |-> key, line |-> line]
       IN  /\ ZoneError(z) = {}
           /\ zones' = Append(zones, compile_zone(text))
           /\ seen_networks' = seen_networks \cup {Seen(text.network, z.network.line)}
           /\ seen_patterns' = seen_patterns \cup
                                 {Seen(text.resolves_to, The(z.resolves_to).line)}
    /\ at' = at + 1
    /\ UNCHANGED <<parseVars, stage, listen, settings>>

\* The zones are sorted, and Config::parse returns: Ok if there is no error.
Finish ==
    /\ stage = "zones" /\ at = Len(raw.zones) + 1
    /\ stage' = "done"
    /\ zones' = SortByMask(zones)
    /\ UNCHANGED <<parseVars, listen, settings, at, seen_networks, seen_patterns>>

Next == \/ ReadLine \/ EndOfFile \/ CompileListen \/ CompileGlobals
        \/ RejectZone \/ CompileZone \/ Finish

Spec == Init /\ [][Next]_vars

-----------------------------------------------------------------------------
(* What the lines say, each taken by itself.                               *)

Lines == 1 .. Len(file)

Is(i, target) == \E d \in Matched(file[i]) : d.target = target

\* The text of line i, whichever directive it is.
Value(i) == LET d == The(Matched(file[i])) IN ValueOf(file[i], d)

Networks == {i \in Lines : Is(i, "Network")}

\* The lines of directive `target` in the block that starts at network line n.
InBlock(n, target) ==
    {i \in Lines : i > n /\ Is(i, target) /\ ~ \E m \in Networks : n < m /\ m < i}

\* The zone that a block describes.
BlockZone(n) ==
    [network |-> AsNetwork(Value(n)),
     resolves_to |-> {AsPattern(Value(i)) : i \in InBlock(n, "resolves_to")},
     upstream |-> CASE InBlock(n, "upstream") = {} -> "absent"
                    [] \E i \in InBlock(n, "upstream") : IsIpAddr(Value(i)) -> "address"
                    [] OTHER -> "invalid"]

\* The blocks in the order of the file.
BlockZones ==
    [k \in 1 .. Cardinality(Networks) |->
        BlockZone(CHOOSE n \in Networks : Cardinality({m \in Networks : m <= n}) = k)]

SettingOK(i) ==
    \A d \in Matched(file[i]) :
        /\ d.target \in NameKey => IsName(Value(i))
        /\ d.target \in NumberKey => \E n \in AsNumber(Value(i)) : n \in Allowed[d.target]
        /\ d.target = "OutOfZone" => Value(i) \in OutOfZoneWord
        /\ d.target = "Listen" => IsIpAddr(Value(i)) \/ IsSocketAddr(Value(i))

PlacedOK(i) ==
    LET after == \E n \in Networks : n < i
    IN  /\ IsFlag(file[i]) => ~ after
        /\ \A d \in Matched(file[i]) : /\ d.scope = "Global" => ~ after
                                       /\ d.scope = "Zone" => after

\* An acceptable file: every line is something, in its place and with a value
\* that fits, nothing is said twice, and the zones are acceptable together.
FileOK ==
    /\ \A i \in Lines : /\ Skipped(file[i]) \/ IsFlag(file[i]) \/ Matched(file[i]) # {}
                        /\ SettingOK(i)
                        /\ PlacedOK(i)
    /\ \A i, j \in Lines : \A d \in Matched(file[i]) \cap Matched(file[j]) :
         d.scope = "Global" /\ d.target # "Ns" => i = j
    /\ \A n \in Networks, t \in ZoneSlot : Cardinality(InBlock(n, t)) <= 1
    /\ (\E i \in Lines : Is(i, "Primary")) <=> (\E i \in Lines : Is(i, "Hostmaster"))
    /\ ZonesOK(BlockZones)

(***************************************************************************)
(* What parse records of n lines.                                          *)
(***************************************************************************)
ValuesTo(n) == [line : 1 .. n, value : Values]

ZonesTo(n) == [network : ValuesTo(n), resolves_to : SUBSET ValuesTo(n),
               upstream : SUBSET ValuesTo(n)]

Keys == {d.target : d \in DIRECTIVES \cup FLAGS}

GlobalsTo(n) == [key : Keys, value : [line : 1 .. n, value : Values \cup {<<>>}]]

RawTo(n) == [listen : Seq(ValuesTo(n)), zones : Seq(ZonesTo(n)), globals : Seq(GlobalsTo(n))]

Kinds == ParseErrors \cup CompileErrors

ErrorsOf(kinds, n) == [kind : kinds, line : 1 .. n, first_line : 0 .. n]

ErrorsTo(n) == ErrorsOf(Kinds, n)

-----------------------------------------------------------------------------
\* Every variable stays in its type: what is recorded, reported or remembered
\* points at lines read so far, and a setting that is out of range never
\* replaces its default, not even in a file that is then rejected.
TypeOK ==
    /\ stage \in Stage
    /\ file \in Seq(LineSet)
    /\ raw \in RawTo(Len(file))
    /\ errors \in Seq(ErrorsTo(Len(file)))
    /\ listen \in Seq(ValuesTo(Len(file)))
    /\ \A s \in seen_networks \cup seen_patterns : s.line \in Lines
    /\ settings.number \in [NumberKey -> UNION {Allowed[k] : k \in NumberKey}]
    /\ \A k \in NumberKey : settings.number[k] \in Allowed[k]
    /\ settings.out_of_zone \in OutOfZoneWord
    /\ at \in 1 .. Len(raw.zones) + 1
    /\ Len(zones) < at

\* Loading, line by line and zone by zone, with its early returns and with maps
\* that only remember zones that compiled, accepts exactly the files that are
\* acceptable as a whole, and makes of them the zones that module Authority
\* publishes in one step: a `network` line without a value, say, cannot hand
\* the lines below it to the network before it.
LoadAgrees ==
    stage = "done" => /\ (errors = <<>>) <=> FileOK
                      /\ errors = <<>> => zones = compile_zones(BlockZones)

\* No line of the file is without effect: each is recorded in one place or
\* reported once, never both ("The original silently ignored both").
NoLineIgnored ==
    \A i \in Lines : ~ Skipped(file[i]) =>
        LET recorded(values) == {v \in values : v.line = i}
            zs == RangeOf(raw.zones)
        IN  Cardinality(recorded(RangeOf(raw.listen)))
              + Cardinality(recorded({g.value : g \in RangeOf(raw.globals)}))
              + Cardinality(recorded({z.network : z \in zs}))
              + Cardinality(recorded(UNION {z.resolves_to \cup z.upstream : z \in zs}))
              + Cardinality({k \in 1 .. Len(errors) : /\ errors[k].line = i
                                                      /\ errors[k].kind \in ParseErrors})
            = 1

\* A fault of one zone neither goes unnoticed nor spoils another: every zone
\* that is not acceptable has an error on a line of its own, and every zone
\* that is, and that repeats nothing, compiles whatever the others are.
FaultsStayLocal ==
    stage = "done" =>
        \A k \in 1 .. Len(raw.zones) :
            LET z == raw.zones[k]
                own == {z.network.line} \cup {v.line : v \in z.resolves_to \cup z.upstream}
                others == {Text(raw.zones[j]) : j \in (1 .. Len(raw.zones)) \ {k}}
                unique == \A o \in others : /\ o.network # Text(z).network
                                            /\ o.resolves_to # Text(z).resolves_to
            IN  /\ ~ ZoneOK(Text(z)) => \E e \in RangeOf(errors) : e.line \in own
                /\ ZoneOK(Text(z)) /\ unique => compile_zone(Text(z)) \in RangeOf(zones)
=============================================================================
