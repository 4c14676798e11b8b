-------------------------- MODULE ConfigLoadProofs --------------------------
(***************************************************************************)
(* Theorems about loading a file, for every set of lines that files may be *)
(* made of, files of any length, and whatever the texts of values parse    *)
(* to.                                                                     *)
(***************************************************************************)
EXTENDS ConfigLoad, ZoneProofs

FaultsTo(n) == ErrorsOf(CompileErrors, n)

\* What parse has read, recorded and reported.
Parsed == /\ file \in Seq(LineSet)
          /\ raw \in RawTo(Len(file))
          /\ errors \in Seq(ErrorsTo(Len(file)))

LEMMA SeqGrows == ASSUME NEW S, NEW T, S \subseteq T PROVE Seq(S) \subseteq Seq(T)
OBVIOUS

LEMMA AppendTyped ==
    ASSUME NEW S, NEW s \in Seq(S), NEW x \in S
    PROVE  /\ Append(s, x) \in Seq(S)
           /\ Len(s) \in Nat
           /\ Len(Append(s, x)) = Len(s) + 1
           /\ \A i \in 1 .. Len(s) : Append(s, x)[i] = s[i]
           /\ Append(s, x)[Len(s) + 1] = x
BY AppendProperties, LenProperties

LEMMA ToGrows ==
    ASSUME NEW n \in Nat
    PROVE  /\ ValuesTo(n) \subseteq ValuesTo(n + 1)
           /\ ZonesTo(n) \subseteq ZonesTo(n + 1)
           /\ GlobalsTo(n) \subseteq GlobalsTo(n + 1)
           /\ RawTo(n) \subseteq RawTo(n + 1)
           /\ Seq(ErrorsTo(n)) \subseteq Seq(ErrorsTo(n + 1))
<1>1. 1 .. n \subseteq 1 .. n + 1 /\ 0 .. n \subseteq 0 .. n + 1
  OBVIOUS
<1>2. ValuesTo(n) \subseteq ValuesTo(n + 1)
  BY <1>1 DEF ValuesTo
<1>3. ZonesTo(n) \subseteq ZonesTo(n + 1)
  BY <1>2 DEF ZonesTo
<1>4. GlobalsTo(n) \subseteq GlobalsTo(n + 1)
  BY <1>1 DEF GlobalsTo
<1>5. ErrorsTo(n) \subseteq ErrorsTo(n + 1)
  BY <1>1 DEF ErrorsTo, ErrorsOf
<1>6. /\ Seq(ValuesTo(n)) \subseteq Seq(ValuesTo(n + 1))
      /\ Seq(ZonesTo(n)) \subseteq Seq(ZonesTo(n + 1))
      /\ Seq(GlobalsTo(n)) \subseteq Seq(GlobalsTo(n + 1))
      /\ Seq(ErrorsTo(n)) \subseteq Seq(ErrorsTo(n + 1))
  BY <1>2, <1>3, <1>4, <1>5, SeqGrows
<1>7. RawTo(n) \subseteq RawTo(n + 1)
  BY <1>6 DEF RawTo
<1> QED
  BY <1>2, <1>3, <1>4, <1>6, <1>7

-----------------------------------------------------------------------------
(* Reading a line.                                                         *)

\* A report of a line keeps the types.
LEMMA ReportParsed ==
    ASSUME Parsed, NEW line \in LineSet, NEW kind \in Kinds, NEW first \in 0 .. Len(file),
           Report(line, kind, first)
    PROVE  Parsed'
<1> DEFINE n == Len(file)
           e == Error(kind, n + 1, first)
<1>1. n \in Nat /\ file' \in Seq(LineSet) /\ Len(file') = n + 1
  BY AppendTyped DEF Parsed, Report, Read
<1>2. e \in ErrorsTo(n + 1)
  BY <1>1 DEF Error, ErrorsTo, ErrorsOf
<1>3. errors' \in Seq(ErrorsTo(n + 1))
  BY <1>1, <1>2, ToGrows, AppendTyped DEF Parsed, Report, Here
<1>4. raw' \in RawTo(n + 1)
  BY <1>1, ToGrows DEF Parsed, Report
<1> QED
  BY <1>1, <1>3, <1>4 DEF Parsed

\* So does a record of it, of something of the right type.
LEMMA RecordParsed ==
    ASSUME Parsed, NEW line \in LineSet, NEW cfg \in RawTo(Len(file) + 1), Record(line, cfg)
    PROVE  Parsed'
<1> DEFINE n == Len(file)
<1>1. n \in Nat /\ file' \in Seq(LineSet) /\ Len(file') = n + 1
  BY AppendTyped DEF Parsed, Record, Read
<1>2. errors' \in Seq(ErrorsTo(n + 1))
  BY <1>1, ToGrows DEF Parsed, Record
<1> QED
  BY <1>1, <1>2 DEF Parsed, Record

\* The parts of what is recorded.
LEMMA RawParts ==
    ASSUME NEW n \in Nat, NEW r \in RawTo(n)
    PROVE  /\ r.listen \in Seq(ValuesTo(n)) /\ Len(r.listen) \in Nat
           /\ r.zones \in Seq(ZonesTo(n)) /\ Len(r.zones) \in Nat
           /\ r.globals \in Seq(GlobalsTo(n)) /\ Len(r.globals) \in Nat
           /\ \A i \in 1 .. Len(r.listen) : r.listen[i] \in ValuesTo(n)
           /\ \A i \in 1 .. Len(r.zones) : r.zones[i] \in ZonesTo(n)
           /\ \A i \in 1 .. Len(r.globals) : r.globals[i] \in GlobalsTo(n)
<1>1. /\ r.listen \in Seq(ValuesTo(n))
      /\ r.zones \in Seq(ZonesTo(n))
      /\ r.globals \in Seq(GlobalsTo(n))
  BY DEF RawTo
<1> QED
  BY <1>1, LenProperties, ElementOfSeq

\* What the actions of a line may put in place of raw.
LEMMA ListenRaw ==
    ASSUME NEW n \in Nat, NEW r \in RawTo(n), NEW v \in ValuesTo(n)
    PROVE  [r EXCEPT !.listen = Append(@, v)] \in RawTo(n)
<1>1. Append(r.listen, v) \in Seq(ValuesTo(n))
  BY RawParts, AppendTyped
<1> QED
  BY <1>1 DEF RawTo

LEMMA ZonesRaw ==
    ASSUME NEW n \in Nat, NEW r \in RawTo(n), NEW z \in ZonesTo(n)
    PROVE  [r EXCEPT !.zones = Append(@, z)] \in RawTo(n)
<1>1. Append(r.zones, z) \in Seq(ZonesTo(n))
  BY RawParts, AppendTyped
<1> QED
  BY <1>1 DEF RawTo

LEMMA GlobalsRaw ==
    ASSUME NEW n \in Nat, NEW r \in RawTo(n), NEW g \in GlobalsTo(n)
    PROVE  [r EXCEPT !.globals = Append(@, g)] \in RawTo(n)
<1>1. Append(r.globals, g) \in Seq(GlobalsTo(n))
  BY RawParts, AppendTyped
<1> QED
  BY <1>1 DEF RawTo

LEMMA SlotRaw ==
    ASSUME NEW n \in Nat, NEW r \in RawTo(n), NEW k \in 1 .. Len(r.zones),
           NEW slot \in ZoneSlot, NEW v \in ValuesTo(n)
    PROVE  [r EXCEPT !.zones[k][slot] = {v}] \in RawTo(n)
<1>1. r.zones \in Seq(ZonesTo(n)) /\ r.zones[k] \in ZonesTo(n) /\ Len(r.zones) \in Nat
  BY RawParts
<1>2. [r.zones[k] EXCEPT ![slot] = {v}] \in ZonesTo(n)
  BY <1>1 DEF ZonesTo, ZoneSlot
<1> DEFINE z == [r.zones[k] EXCEPT ![slot] = {v}]
<1> HIDE DEF z
<1>3. [r.zones EXCEPT ![k] = z] \in Seq(ZonesTo(n))
  BY <1>1, <1>2, ExceptSeq DEF z
<1>4. [r EXCEPT !.zones = [r.zones EXCEPT ![k] = z]] \in RawTo(n)
  BY <1>3 DEF RawTo
<1>5. [r EXCEPT !.zones[k][slot] = {v}] = [r EXCEPT !.zones = [r.zones EXCEPT ![k] = z]]
  BY DEF z
<1> QED
  BY <1>4, <1>5

LEMMA MatchedTyped ==
    ASSUME NEW line \in LineSet, NEW d \in Matched(line)
    PROVE  /\ d \in DIRECTIVES
           /\ d.target \in Keys
           /\ ValueOf(line, d) \in Values
<1>1. d \in DIRECTIVES
  BY DEF Matched
<1>2. d.target \in Keys
  BY <1>1 DEF Keys
<1>3. ValueOf(line, d) \in Values
  BY DEF Values
<1> QED
  BY <1>1, <1>2, <1>3

\* The type of the value that the current line records.
LEMMA HereTyped ==
    ASSUME Parsed
    PROVE  /\ Len(file) \in Nat
           /\ raw \in RawTo(Len(file) + 1)
           /\ \A v \in Values : RawValue(v) \in ValuesTo(Len(file) + 1)
           /\ \A v \in Values \cup {<<>>}, key \in Keys :
                [key |-> key, value |-> RawValue(v)] \in GlobalsTo(Len(file) + 1)
<1>1. Len(file) \in Nat
  BY LenProperties DEF Parsed
<1>2. Len(file) + 1 \in 1 .. Len(file) + 1
  BY <1>1
<1> QED
  BY <1>1, <1>2, ToGrows DEF Parsed, RawValue, Here, ValuesTo, GlobalsTo

\* Mentioned lines are lines of the file.
LEMMA FirstLines ==
    ASSUME Parsed
    PROVE  /\ \A k \in 1 .. Len(raw.zones), slot \in ZoneSlot :
                \A v \in raw.zones[k][slot] : v \in ValuesTo(Len(file)) /\ v.line \in 0 .. Len(file)
           /\ \A key : \A g \in Earlier(key) : g.value.line \in 0 .. Len(file)
<1> DEFINE n == Len(file)
<1>1. n \in Nat /\ raw \in RawTo(n)
  BY HereTyped DEF Parsed
<1>2. 1 .. n \subseteq 0 .. n
  BY <1>1
<1>3. \A k \in 1 .. Len(raw.zones) : raw.zones[k] \in ZonesTo(n)
  BY <1>1, RawParts
<1>4. \A k \in 1 .. Len(raw.zones), slot \in ZoneSlot : raw.zones[k][slot] \subseteq ValuesTo(n)
  BY <1>3 DEF ZonesTo, ZoneSlot
<1>5. \A v \in ValuesTo(n) : v.line \in 0 .. n
  BY <1>2 DEF ValuesTo
<1>6. \A i \in 1 .. Len(raw.globals) : raw.globals[i] \in GlobalsTo(n)
  BY <1>1, RawParts
<1>7. \A g \in GlobalsTo(n) : g.value.line \in 0 .. n
  BY <1>2 DEF GlobalsTo
<1> QED
  BY <1>4, <1>5, <1>6, <1>7 DEF Earlier

LEMMA LastZone ==
    ASSUME Parsed, raw.zones # <<>>
    PROVE  Len(raw.zones) \in 1 .. Len(raw.zones)
<1>1. raw.zones \in Seq(ZonesTo(Len(file)))
  BY HereTyped, RawParts DEF Parsed
<1> QED
  BY <1>1, EmptySeq, LenProperties

LEMMA ReadParsed == Parsed /\ ReadLine => Parsed'
<1> SUFFICES ASSUME Parsed, ReadLine PROVE Parsed'
  OBVIOUS
<1> DEFINE n == Len(file)
<1> PICK line \in LineSet :
         \/ SkipLine(line) \/ FlagLine(line) \/ UnmatchedLine(line) \/ OutOfScope(line)
         \/ ListenLine(line) \/ NetworkLine(line) \/ ZoneLine(line) \/ GlobalLine(line)
  BY DEF ReadLine, NextLines
<1>0. n \in Nat /\ 0 \in 0 .. n
  BY HereTyped
<1>k. ParseErrors \subseteq Kinds
  BY DEF Kinds
<1>1. CASE SkipLine(line)
  BY <1>0, <1>1, ToGrows, AppendTyped DEF SkipLine, Read, Parsed
<1>2. CASE FlagLine(line)
  <2> PICK f \in FLAGS :
         IF raw.zones # <<>> THEN Report(line, "GlobalAfterNetwork", 0)
                             ELSE Record(line, PushGlobal(f.target, RawValue(<<>>)))
    BY <1>2 DEF FlagLine
  <2>1. f.target \in Keys
    BY DEF Keys
  <2>2. PushGlobal(f.target, RawValue(<<>>)) \in RawTo(n + 1)
    BY <2>1, <1>0, HereTyped, GlobalsRaw DEF PushGlobal
  <2> QED
    BY <1>0, <1>k, <2>2, ReportParsed, RecordParsed DEF ParseErrors
<1>3. CASE UnmatchedLine(line)
  BY <1>0, <1>k, <1>3, ReportParsed DEF UnmatchedLine, ParseErrors
<1>4. CASE OutOfScope(line)
  BY <1>0, <1>k, <1>4, ReportParsed DEF OutOfScope, ParseErrors
<1>5. CASE ListenLine(line)
  BY <1>0, <1>5, HereTyped, MatchedTyped, ListenRaw, RecordParsed DEF ListenLine
<1>6. CASE NetworkLine(line)
  <2> PICK d \in Matched(line) :
         Record(line, [raw EXCEPT !.zones =
                         Append(@, [network |-> RawValue(ValueOf(line, d)),
                                    resolves_to |-> {}, upstream |-> {}])])
    BY <1>6 DEF NetworkLine
  <2>1. [network |-> RawValue(ValueOf(line, d)), resolves_to |-> {}, upstream |-> {}]
          \in ZonesTo(n + 1)
    BY HereTyped, MatchedTyped DEF ZonesTo
  <2> QED
    BY <1>0, <2>1, HereTyped, ZonesRaw, RecordParsed
<1>7. CASE ZoneLine(line)
  <2> PICK d \in Matched(line) :
        /\ InScope(d) /\ d.target \in ZoneSlot
        /\ LET slot == raw.zones[Len(raw.zones)][d.target]
           IN  \/ /\ slot = {}
                  /\ Record(line, [raw EXCEPT !.zones[Len(raw.zones)][d.target] =
                                     {RawValue(ValueOf(line, d))}])
               \/ \E first \in slot : Report(line, "DuplicateDirective", first.line)
    BY <1>7 DEF ZoneLine
  <2>1. raw.zones # <<>>
    BY MatchedTyped DEF InScope, DIRECTIVES, Directive, ZoneSlot
  <2>2. Len(raw.zones) \in 1 .. Len(raw.zones)
    BY <2>1, LastZone
  <2>3. [raw EXCEPT !.zones[Len(raw.zones)][d.target] = {RawValue(ValueOf(line, d))}]
          \in RawTo(n + 1)
    BY <1>0, <2>2, HereTyped, MatchedTyped, SlotRaw
  <2>4. \A first \in raw.zones[Len(raw.zones)][d.target] : first.line \in 0 .. n
    BY <2>2, FirstLines
  <2> QED
    BY <1>k, <2>3, <2>4, ReportParsed, RecordParsed DEF ParseErrors
<1>8. CASE GlobalLine(line)
  <2> PICK d \in Matched(line) :
         \/ Record(line, PushGlobal(d.target, RawValue(ValueOf(line, d))))
         \/ \E g \in Earlier(d.target) : Report(line, "DuplicateDirective", g.value.line)
    BY <1>8 DEF GlobalLine
  <2>1. PushGlobal(d.target, RawValue(ValueOf(line, d))) \in RawTo(n + 1)
    BY <1>0, HereTyped, MatchedTyped, GlobalsRaw DEF PushGlobal
  <2> QED
    BY <1>k, <2>1, FirstLines, ReportParsed, RecordParsed DEF ParseErrors
<1> QED
  BY <1>1, <1>2, <1>3, <1>4, <1>5, <1>6, <1>7, <1>8

-----------------------------------------------------------------------------
(* Compiling.                                                              *)

SettingsTyped ==
    /\ settings.number \in [NumberKey -> UNION {Allowed[k] : k \in NumberKey}]
    /\ \A k \in NumberKey : settings.number[k] \in Allowed[k]
    /\ settings.out_of_zone \in OutOfZoneWord

Made == {c \in {compile_zone(Text(z)) : z \in ZonesTo(Len(file))} : c.mask \in Nat}

Compiling ==
    /\ stage \in Stage
    /\ at \in 1 .. Len(raw.zones) + 1
    /\ stage \notin {"zones", "done"} => at = 1
    /\ Len(zones) < at
    /\ zones \in Seq(Made)
    /\ listen \in Seq(ValuesTo(Len(file)))
    /\ \A s \in seen_networks \cup seen_patterns : s.line \in Lines

Typed == Parsed /\ SettingsTyped /\ Compiling

LEMMA FaultsAreErrors == ASSUME NEW n PROVE Seq(FaultsTo(n)) \subseteq Seq(ErrorsTo(n))
<1>1. FaultsTo(n) \subseteq ErrorsTo(n)
  BY DEF FaultsTo, ErrorsTo, ErrorsOf, Kinds
<1> QED
  BY <1>1, SeqGrows

LEMMA NumberTyped == ASSUME NEW key \in NumberKey PROVE Number(key) \in Allowed[key]
<1>1. CASE Given(key) = {}
  BY <1>1, DefaultAssumption DEF Number
<1>2. CASE Given(key) # {}
  <2> DEFINE g == The(Given(key))
  <2>1. g \in Given(key)
    BY <1>2, TheMember
  <2>2. g.key = key /\ GlobalOK(g)
    BY <2>1 DEF Given
  <2>3. Accepted(g) # {}
    BY <2>2 DEF GlobalOK
  <2>4. The(Accepted(g)) \in Accepted(g)
    BY <2>3, TheMember
  <2>5. The(Accepted(g)) \in Allowed[key]
    BY <2>4, <2>2 DEF Accepted
  <2> QED
    BY <1>2, <2>5 DEF Number
<1> QED
  BY <1>1, <1>2

LEMMA SettingsStep == SettingsTyped /\ CompileGlobals => SettingsTyped'
<1> SUFFICES ASSUME settings' = Settings PROVE SettingsTyped'
  BY DEF CompileGlobals
<1>1. \A k \in NumberKey : settings'.number[k] \in Allowed[k]
  BY NumberTyped DEF Settings
<1>2. settings'.number \in [NumberKey -> UNION {Allowed[k] : k \in NumberKey}]
  BY NumberTyped DEF Settings
<1>3. settings'.out_of_zone \in OutOfZoneWord
  <2> DEFINE S == Given("OutOfZone")
  <2>1. CASE S = {}
    BY <2>1 DEF Settings, OutOfZoneWord
  <2>2. CASE S # {}
    <3>1. The(S) \in S
      BY <2>2, TheMember
    <3>2. The(S).value.value \in OutOfZoneWord
      BY <3>1 DEF Given, GlobalOK
    <3> QED
      BY <2>2, <3>2 DEF Settings
  <2> QED
    BY <2>1, <2>2
<1> QED
  BY <1>1, <1>2, <1>3 DEF SettingsTyped

\* Errors at a list of values.
LEMMA ErrorsAtTyped ==
    ASSUME NEW n \in Nat, NEW T, NEW vec \in Seq(T), \A v \in T : v.line \in 1 .. n,
           NEW kind \in CompileErrors
    PROVE  ErrorsAt(vec, kind) \in Seq(FaultsTo(n)) /\ Len(ErrorsAt(vec, kind)) = Len(vec)
<1>1. Len(vec) \in Nat
  BY LenProperties
<1>2. \A i \in 1 .. Len(vec) : Error(kind, vec[i].line, 0) \in FaultsTo(n)
  BY <1>1, ElementOfSeq DEF Error, FaultsTo, ErrorsOf
<1> QED
  BY <1>1, <1>2, IsASeq DEF ErrorsAt

LEMMA ListenErrorsTyped ==
    ASSUME Parsed
    PROVE  ErrorsAt(Filter(raw.listen, (1 .. Len(raw.listen)) \ GoodListen),
                    "InvalidListenAddress") \in Seq(FaultsTo(Len(file)))
<1> DEFINE S == (1 .. Len(raw.listen)) \ GoodListen
           n == Len(file)
<1>1. n \in Nat /\ raw.listen \in Seq(ValuesTo(n))
  BY HereTyped, RawParts DEF Parsed
<1>2. S \in SUBSET (1 .. Len(raw.listen))
  OBVIOUS
<1>3. Filter(raw.listen, S) \in Seq(ValuesTo(n))
  BY <1>1, <1>2, FilterMember
<1>4. \A v \in ValuesTo(n) : v.line \in 1 .. n
  BY DEF ValuesTo
<1>5. PICK kind \in CompileErrors : kind = "InvalidListenAddress"
  BY DEF CompileErrors
<1> QED
  BY <1>1, <1>3, <1>4, <1>5, ErrorsAtTyped

LEMMA PairErrorsTyped ==
    ASSUME Parsed
    PROVE  PairErrors \in Seq(FaultsTo(Len(file)))
<1> DEFINE n == Len(file)
           half == (Given("Primary") = {}) # (Given("Hostmaster") = {})
           G == {h \in RangeOf(raw.globals) : h.key \in {"Primary", "Hostmaster"}}
           lines == {g.value.line : g \in G}
<1>1. n \in Nat /\ \A i \in 1 .. Len(raw.globals) : raw.globals[i] \in GlobalsTo(n)
  BY HereTyped, RawParts DEF Parsed
<1>2. lines \subseteq 1 .. n
  BY <1>1 DEF RangeOf, GlobalsTo
<1>3. CASE half
  <2>1. Given("Primary") # {} \/ Given("Hostmaster") # {}
    BY <1>3
  <2>2. Given("Primary") \cup Given("Hostmaster") \subseteq G
    BY DEF Given
  <2>3. lines # {}
    BY <2>1, <2>2
  <2>4. lines \in SUBSET Nat
    BY <1>1, <1>2
  <2> HIDE DEF lines
  <2>5. FirstOf(lines) # {} /\ FirstOf(lines) \subseteq lines
    BY <2>3, <2>4, FirstOfSome DEF FirstOf
  <2>6. The(FirstOf(lines)) \in 1 .. n
    BY <2>5, <1>2, TheMember
  <2>7. Error("MissingCompanionDirective", The(FirstOf(lines)), 0) \in FaultsTo(n)
    BY <1>1, <2>6 DEF Error, FaultsTo, ErrorsOf, CompileErrors
  <2> DEFINE e == Error("MissingCompanionDirective", The(FirstOf(lines)), 0)
  <2>8. PairErrors = <<e>>
    BY <1>3 DEF PairErrors, lines
  <2> HIDE DEF e
  <2> QED
    BY <2>7, <2>8 DEF e
<1>4. CASE ~ half
  BY <1>4 DEF PairErrors
<1> QED
  BY <1>3, <1>4

LEMMA GlobalErrorsTyped ==
    ASSUME Parsed
    PROVE  GlobalErrors \in Seq(FaultsTo(Len(file)))
<1> DEFINE n == Len(file)
           bad == {i \in 1 .. Len(raw.globals) : ~ GlobalOK(raw.globals[i])}
           values == [i \in 1 .. Len(raw.globals) |-> raw.globals[i].value]
           T == [line : 1 .. n, value : Values \cup {<<>>}]
<1>1. /\ n \in Nat
      /\ Len(raw.globals) \in Nat
      /\ \A i \in 1 .. Len(raw.globals) : raw.globals[i] \in GlobalsTo(n)
  BY HereTyped, RawParts DEF Parsed
<1>2. \A i \in 1 .. Len(raw.globals) : raw.globals[i].value \in T
  BY <1>1 DEF GlobalsTo
<1>3. values \in Seq(T) /\ Len(values) = Len(raw.globals)
  BY <1>1, <1>2
<1>4. \A v \in T : v.line \in 1 .. n
  OBVIOUS
<1>5. bad \in SUBSET (1 .. Len(values))
  BY <1>3
<1>6. PICK kind \in CompileErrors : kind = "InvalidGlobal"
  BY DEF CompileErrors
<1>7. GlobalErrors = ErrorsAt(Filter(values, bad), kind) \o PairErrors
  BY <1>6 DEF GlobalErrors
<1> HIDE DEF values, bad, T
<1>8. Filter(values, bad) \in Seq(T)
  BY <1>3, <1>5, FilterMember
<1>9. ErrorsAt(Filter(values, bad), kind) \in Seq(FaultsTo(n))
  BY <1>1, <1>4, <1>6, <1>8, ErrorsAtTyped
<1> QED
  BY <1>7, <1>9, PairErrorsTyped, ConcatProperties

\* The lines of a raw zone.
OwnLines(z) == {z.network.line} \cup {v.line : v \in z.resolves_to \cup z.upstream}

LEMMA OwnLinesTyped ==
    ASSUME NEW n \in Nat, NEW z \in ZonesTo(n)
    PROVE  OwnLines(z) \subseteq 1 .. n
BY DEF OwnLines, ZonesTo, ValuesTo

\* A zone has a pattern where its text has one.
LEMMA TextPattern == ASSUME NEW z PROVE Text(z).resolves_to = {} <=> z.resolves_to = {}
BY DEF Text

LEMMA TextUpstream == ASSUME NEW z, Text(z).upstream = "invalid" PROVE z.upstream # {}
BY DEF Text

\* An error of a zone is on a line of the zone, and refers to a line seen.
LEMMA ZoneErrorLines ==
    ASSUME NEW z, NEW e \in ZoneError(z)
    PROVE  /\ e.kind \in CompileErrors
           /\ e.line \in OwnLines(z)
           /\ e.first_line \in {0} \cup {s.line : s \in seen_networks \cup seen_patterns}
           /\ e = Error(e.kind, e.line, e.first_line)
<1> DEFINE text == Text(z)
           network == z.network.line
           again == LinesOf(seen_networks, text.network)
           pattern == The(z.resolves_to)
           reused == LinesOf(seen_patterns, text.resolves_to)
           F == {0} \cup {s.line : s \in seen_networks \cup seen_patterns}
           E(kind, l, f) == e = Error(kind, l, f)
<1>1. \/ E("InvalidNetwork", network, 0)
      \/ again # {} /\ E("DuplicateNetwork", network, The(again))
      \/ E("MissingResolvesTo", network, 0)
      \/ z.resolves_to # {} /\ E("InvalidResolvesTo", pattern.line, 0)
      \/ z.resolves_to # {} /\ reused # {}
           /\ E("DuplicateForwardPattern", pattern.line, The(reused))
      \/ text.upstream = "invalid" /\ E("InvalidUpstreamAddress", The(z.upstream).line, 0)
  BY DEF ZoneError
<1>2. network \in OwnLines(z)
  BY DEF OwnLines
<1>3. z.resolves_to # {} => pattern.line \in OwnLines(z)
  BY TheMember DEF OwnLines
<1>4. text.upstream = "invalid" => The(z.upstream).line \in OwnLines(z)
  BY TextUpstream, TheMember DEF OwnLines
<1>5. again # {} => The(again) \in F
  <2>1. again \subseteq F
    BY DEF LinesOf
  <2> HIDE DEF again
  <2> QED
    BY <2>1, TheMember
<1>6. reused # {} => The(reused) \in F
  <2>1. reused \subseteq F
    BY DEF LinesOf
  <2> HIDE DEF reused
  <2> QED
    BY <2>1, TheMember
<1>7. 0 \in F
  OBVIOUS
<1>8. ASSUME NEW kind \in CompileErrors, NEW l \in OwnLines(z), NEW f \in F, E(kind, l, f)
      PROVE  /\ e.kind \in CompileErrors /\ e.line \in OwnLines(z) /\ e.first_line \in F
             /\ e = Error(e.kind, e.line, e.first_line)
  BY <1>8 DEF Error
<1> HIDE DEF F, E, text, network, again, pattern, reused
<1>9. \E kind \in CompileErrors, l \in OwnLines(z), f \in F : E(kind, l, f)
  BY <1>1, <1>2, <1>3, <1>4, <1>5, <1>6, <1>7 DEF CompileErrors
<1> QED
  BY <1>8, <1>9 DEF F

\* It returns without one only for an acceptable zone, and always for one of
\* which nothing was seen.
LEMMA ZoneErrorNone ==
    ASSUME NEW z, ZoneError(z) = {}
    PROVE  ZoneOK(Text(z)) /\ z.resolves_to # {}
BY TextPattern DEF ZoneError, ZoneOK

LEMMA ZoneErrorSome ==
    ASSUME NEW z, ZoneOK(Text(z)), LinesOf(seen_networks, Text(z).network) = {},
           LinesOf(seen_patterns, Text(z).resolves_to) = {}
    PROVE  ZoneError(z) = {}
BY TextPattern DEF ZoneError, ZoneOK

\* The mask of an acceptable zone.
LEMMA MadeMember ==
    ASSUME NEW z \in ZonesTo(Len(file)), ZoneOK(Text(z))
    PROVE  compile_zone(Text(z)) \in Made
<1>1. z.network.value \in Values
  BY DEF ZonesTo, ValuesTo
<1>2. Text(z).network \in RawNetworks
  BY <1>1, NetworkAssumption DEF Text
<1> DEFINE mask == Text(z).network.mask
<1>3. mask # {} /\ mask \subseteq Nat
  BY <1>2 DEF ZoneOK, NetworkOK, RawNetworks
<1>4. The(mask) \in Nat
  BY <1>3, TheMember
<1>5. compile_zone(Text(z)).mask = The(mask)
  BY DEF compile_zone
<1> QED
  BY <1>4, <1>5 DEF Made

-----------------------------------------------------------------------------
LEMMA TypedInit == Init => Typed
<1> SUFFICES ASSUME Init PROVE Typed
  OBVIOUS
<1> USE DEF Init, ParseInit
<1>1. file \in Seq(LineSet) /\ Len(file) = 0 /\ errors \in Seq(ErrorsTo(Len(file)))
  OBVIOUS
<1>2. raw \in RawTo(Len(file))
  BY DEF RawTo
<1>3. SettingsTyped
  BY DefaultAssumption DEF SettingsTyped, DefaultSettings, OutOfZoneWord
<1>4. Len(raw.zones) = 0 /\ zones \in Seq(Made) /\ Len(zones) = 0
      /\ listen \in Seq(ValuesTo(Len(file)))
  OBVIOUS
<1>5. Compiling
  BY <1>4 DEF Compiling, Stage
<1> QED
  BY <1>1, <1>2, <1>3, <1>5 DEF Typed, Parsed

\* While lines are read nothing is compiled.
LEMMA NothingCompiled ==
    ASSUME Typed, stage \notin {"zones", "done"}
    PROVE  at = 1 /\ zones = <<>>
<1>1. at = 1 /\ zones \in Seq(Made) /\ Len(zones) < at
  BY DEF Typed, Compiling
<1>2. Len(zones) \in Nat
  BY <1>1, LenProperties
<1> QED
  BY <1>1, <1>2, EmptySeq

LEMMA TypedRead == ASSUME Typed, ReadLine PROVE Typed'
<1>1. Parsed'
  BY ReadParsed DEF Typed
<1>2. SettingsTyped'
  BY DEF ReadLine, compileVars, Typed, SettingsTyped
<1>3. stage = "parse" /\ stage' = stage /\ at' = at /\ zones' = zones
      /\ seen_networks' = seen_networks /\ seen_patterns' = seen_patterns /\ listen' = listen
  BY DEF ReadLine, compileVars
<1>4. at = 1 /\ zones = <<>>
  BY <1>3, NothingCompiled
<1>5. Len(raw'.zones) \in Nat
  <2>1. Len(file') \in Nat /\ raw' \in RawTo(Len(file'))
    BY <1>1, LenProperties DEF Parsed
  <2> QED
    BY <2>1, RawParts
<1>6. Lines \subseteq Lines' /\ listen \in Seq(ValuesTo(Len(file')))
  <2>1. \E line \in LineSet : file' = Append(file, line)
    BY DEF ReadLine, NextLines, SkipLine, FlagLine, UnmatchedLine, OutOfScope, ListenLine,
           NetworkLine, ZoneLine, GlobalLine, Report, Record, Read
  <2>2. Len(file) \in Nat /\ Len(file') = Len(file) + 1
    BY <2>1, AppendTyped DEF Typed, Parsed
  <2>3. Seq(ValuesTo(Len(file))) \subseteq Seq(ValuesTo(Len(file')))
    BY <2>2, ToGrows, SeqGrows
  <2> QED
    BY <2>2, <2>3 DEF Lines, Typed, Compiling
<1>7. Compiling'
  BY <1>3, <1>4, <1>5, <1>6 DEF Compiling, Typed
<1> QED
  BY <1>1, <1>2, <1>7 DEF Typed

LEMMA TypedErrors ==
    ASSUME Typed, UNCHANGED <<file, raw>>,
           NEW more \in Seq(FaultsTo(Len(file))), errors' = errors \o more
    PROVE  Parsed'
<1>1. errors \o more \in Seq(ErrorsTo(Len(file)))
  BY FaultsAreErrors, ConcatProperties DEF Typed, Parsed
<1> QED
  BY <1>1 DEF Typed, Parsed

LEMMA TypedStep == Typed /\ [Next]_vars => Typed'
<1> SUFFICES ASSUME Typed, [Next]_vars PROVE Typed'
  OBVIOUS
<1> DEFINE n == Len(file)
<1>0. /\ n \in Nat /\ raw \in RawTo(n) /\ Len(raw.zones) \in Nat
      /\ \A k \in 1 .. Len(raw.zones) : raw.zones[k] \in ZonesTo(n)
      /\ at \in Nat /\ Len(zones) \in Nat
  BY HereTyped, RawParts, LenProperties DEF Typed, Parsed, Compiling
<1>1. CASE ReadLine
  BY <1>1, TypedRead
<1>2. CASE EndOfFile
  BY <1>2 DEF EndOfFile, parseVars, Typed, Parsed, SettingsTyped, Compiling, Stage, Made, Lines
<1>3. CASE CompileListen
  <2>1. Parsed'
    BY <1>3, TypedErrors, ListenErrorsTyped DEF CompileListen, Typed
  <2>2. listen' \in Seq(ValuesTo(n))
    <3>1. raw.listen \in Seq(ValuesTo(n)) /\ GoodListen \in SUBSET (1 .. Len(raw.listen))
      BY <1>0, RawParts DEF GoodListen
    <3> QED
      BY <1>3, <3>1, FilterMember DEF CompileListen
  <2>3. SettingsTyped' /\ Compiling'
    BY <1>3, <2>2 DEF CompileListen, Typed, SettingsTyped, Compiling, Stage, Made, Lines
  <2> QED
    BY <2>1, <2>3 DEF Typed
<1>4. CASE CompileGlobals
  <2>1. Parsed'
    BY <1>4, TypedErrors, GlobalErrorsTyped DEF CompileGlobals, Typed
  <2>2. SettingsTyped'
    BY <1>4, SettingsStep DEF Typed
  <2>3. Compiling'
    BY <1>4 DEF CompileGlobals, Typed, Compiling, Stage, Made, Lines
  <2> QED
    BY <2>1, <2>2, <2>3 DEF Typed
<1>5. CASE RejectZone
  <2> DEFINE z == raw.zones[at]
  <2>1. z \in ZonesTo(n)
    BY <1>0, <1>5 DEF RejectZone, Typed, Compiling
  <2>2. PICK e \in ZoneError(z) : errors' = Append(errors, e)
    BY <1>5 DEF RejectZone
  <2>3. e \in ErrorsTo(n)
    <3>1. e.line \in 1 .. n
      BY <1>0, <2>1, ZoneErrorLines, OwnLinesTyped
    <3>2. e.first_line \in 0 .. n
      BY <1>0, ZoneErrorLines DEF Typed, Compiling, Lines
    <3> QED
      BY <3>1, <3>2, ZoneErrorLines DEF ErrorsTo, ErrorsOf, Error, Kinds
  <2>4. errors' \in Seq(ErrorsTo(n))
    BY <2>2, <2>3, AppendTyped DEF Typed, Parsed
  <2>5. Parsed'
    BY <1>5, <2>4 DEF RejectZone, Typed, Parsed
  <2>6. SettingsTyped' /\ Compiling'
    BY <1>0, <1>5 DEF RejectZone, Typed, SettingsTyped, Compiling, Made, Lines
  <2> QED
    BY <2>5, <2>6 DEF Typed
<1>6. CASE CompileZone
  <2> DEFINE z == raw.zones[at]
  <2>1. z \in ZonesTo(n)
    BY <1>0, <1>6 DEF CompileZone, Typed, Compiling
  <2>2. ZoneOK(Text(z)) /\ z.resolves_to # {}
    BY <1>6, ZoneErrorNone DEF CompileZone
  <2>3. compile_zone(Text(z)) \in Made
    BY <2>1, <2>2, MadeMember
  <2>4. zones' \in Seq(Made) /\ Len(zones') = Len(zones) + 1
    BY <1>6, <2>3, AppendTyped DEF CompileZone, Typed, Compiling
  <2>5. z.network.line \in Lines /\ The(z.resolves_to).line \in Lines
    <3>1. z.network.line \in OwnLines(z) /\ The(z.resolves_to).line \in OwnLines(z)
      BY <2>2, TheMember DEF OwnLines
    <3> QED
      BY <1>0, <2>1, <3>1, OwnLinesTyped DEF Lines
  <2>6. \A s \in (seen_networks \cup seen_patterns)' : s.line \in Lines
    BY <1>6, <2>5 DEF CompileZone, Typed, Compiling
  <2>7. Compiling'
    BY <1>0, <1>6, <2>4, <2>6 DEF CompileZone, parseVars, Typed, Compiling, Made, Lines
  <2> QED
    BY <1>6, <2>7 DEF CompileZone, parseVars, Typed, Parsed, SettingsTyped
<1>7. CASE Finish
  <2>1. \A i \in 1 .. Len(zones) : zones[i].mask \in Nat
    <3>1. \A i \in 1 .. Len(zones) : zones[i] \in Made
      BY ElementOfSeq DEF Typed, Compiling
    <3> QED
      BY <3>1 DEF Made
  <2>2. zones' \in Seq(Made) /\ Len(zones') = Len(zones)
    BY <1>7, <2>1, SortedByMask DEF Finish, Typed, Compiling
  <2>3. Compiling'
    BY <1>7, <2>2 DEF Finish, parseVars, Typed, Compiling, Stage, Made, Lines
  <2> QED
    BY <1>7, <2>3 DEF Finish, parseVars, Typed, Parsed, SettingsTyped
<1>8. CASE UNCHANGED vars
  BY <1>8 DEF vars, parseVars, compileVars, Typed, Parsed, SettingsTyped, Compiling, Made, Lines
<1> QED
  BY <1>1, <1>2, <1>3, <1>4, <1>5, <1>6, <1>7, <1>8 DEF Next

THEOREM AlwaysTyped == Spec => []Typed
BY TypedInit, TypedStep, PTL DEF Spec

\* Every variable stays in its type; in particular compile_globals never lets
\* a value out of its range replace a default, and what is recorded, reported
\* or remembered always points at lines of the file.
THEOREM TypeCorrect == Spec => []TypeOK
<1>1. Typed => TypeOK
  <2> SUFFICES ASSUME Typed PROVE TypeOK
    OBVIOUS
  <2> QED
    BY DEF Typed, Parsed, SettingsTyped, Compiling, TypeOK
<1> QED
  BY <1>1, AlwaysTyped, PTL

-----------------------------------------------------------------------------
(* Faults of zones.  Of the zones compiled so far, those before `at`, each *)
(* was judged by itself; what was seen is of those zones.                  *)

Txt(k) == Text(raw.zones[k])

Unique(k) == \A j \in (1 .. Len(raw.zones)) \ {k} : /\ Txt(j).network # Txt(k).network
                                                    /\ Txt(j).resolves_to # Txt(k).resolves_to

SeenBefore ==
    /\ \A s \in seen_networks : \E j \in 1 .. at - 1 : s.key = Txt(j).network
    /\ \A s \in seen_patterns : \E j \in 1 .. at - 1 : s.key = Txt(j).resolves_to

Reported(k) == \E e \in RangeOf(errors) : e.line \in OwnLines(raw.zones[k])

Kept(k) == compile_zone(Txt(k)) \in RangeOf(zones)

Judged ==
    /\ SeenBefore
    /\ stage = "done" => at = Len(raw.zones) + 1
    /\ \A k \in 1 .. at - 1 : /\ ~ ZoneOK(Txt(k)) => Reported(k)
                              /\ ZoneOK(Txt(k)) /\ Unique(k) => Kept(k)

LEMMA RangeAppend ==
    ASSUME NEW S, NEW s \in Seq(S), NEW x \in S
    PROVE  RangeOf(Append(s, x)) = RangeOf(s) \cup {x}
<1>1. /\ Len(s) \in Nat
      /\ Len(Append(s, x)) = Len(s) + 1
      /\ \A i \in 1 .. Len(s) : Append(s, x)[i] = s[i]
      /\ Append(s, x)[Len(s) + 1] = x
  BY AppendTyped
<1> QED
  BY <1>1 DEF RangeOf

LEMMA RangeConcat ==
    ASSUME NEW S, NEW s \in Seq(S), NEW t \in Seq(S)
    PROVE  RangeOf(s \o t) = RangeOf(s) \cup RangeOf(t)
<1>1. /\ Len(s \o t) = Len(s) + Len(t) /\ Len(s) \in Nat /\ Len(t) \in Nat
      /\ \A i \in 1 .. Len(s) : (s \o t)[i] = s[i]
      /\ \A i \in 1 .. Len(t) : (s \o t)[Len(s) + i] = t[i]
  BY ConcatAt, LenProperties
<1>2. ASSUME NEW i \in 1 .. Len(s) + Len(t)
      PROVE  (s \o t)[i] \in RangeOf(s) \cup RangeOf(t)
  <2>1. CASE i <= Len(s)
    BY <1>1, <2>1 DEF RangeOf
  <2>2. CASE i > Len(s)
    <3>1. i - Len(s) \in 1 .. Len(t) /\ Len(s) + (i - Len(s)) = i
      BY <1>1, <2>2
    <3> QED
      BY <1>1, <3>1 DEF RangeOf
  <2> QED
    BY <1>1, <2>1, <2>2
<1>3. ASSUME NEW i \in 1 .. Len(s) PROVE s[i] \in RangeOf(s \o t)
  <2>1. i \in 1 .. Len(s \o t)
    BY <1>1
  <2> QED
    BY <1>1, <2>1 DEF RangeOf
<1>4. ASSUME NEW i \in 1 .. Len(t) PROVE t[i] \in RangeOf(s \o t)
  <2>1. Len(s) + i \in 1 .. Len(s \o t)
    BY <1>1
  <2> QED
    BY <1>1, <2>1 DEF RangeOf
<1> QED
  BY <1>1, <1>2, <1>3, <1>4 DEF RangeOf

LEMMA RangeSorted ==
    ASSUME Typed
    PROVE  RangeOf(SortByMask(zones)) = RangeOf(zones)
<1>1. \A i \in 1 .. Len(zones) : zones[i].mask \in Nat
  <2>1. \A i \in 1 .. Len(zones) : zones[i] \in Made
    BY ElementOfSeq DEF Typed, Compiling
  <2> QED
    BY <2>1 DEF Made
<1>2. zones \in Seq(Made)
  BY DEF Typed, Compiling
<1>3. /\ Len(SortByMask(zones)) = Len(zones)
      /\ \A r \in 1 .. Len(zones) : \E i \in 1 .. Len(zones) : SortByMask(zones)[r] = zones[i]
      /\ \A i \in 1 .. Len(zones) : \E r \in 1 .. Len(zones) : SortByMask(zones)[r] = zones[i]
  BY <1>1, <1>2, SortedByMask
<1> DEFINE sorted == SortByMask(zones)
<1> HIDE DEF sorted
<1>4. RangeOf(sorted) \subseteq RangeOf(zones)
  BY <1>3 DEF RangeOf, sorted
<1>5. RangeOf(zones) \subseteq RangeOf(sorted)
  BY <1>3 DEF RangeOf, sorted
<1> QED
  BY <1>4, <1>5 DEF sorted

\* Nothing is seen of a zone that repeats nothing.
LEMMA UniqueUnseen ==
    ASSUME Typed, SeenBefore, at <= Len(raw.zones), Unique(at)
    PROVE  /\ LinesOf(seen_networks, Txt(at).network) = {}
           /\ LinesOf(seen_patterns, Txt(at).resolves_to) = {}
<1>1. at \in Nat /\ Len(raw.zones) \in Nat
  BY HereTyped, RawParts DEF Typed, Parsed, Compiling
<1>2. \A j \in 1 .. at - 1 : j \in (1 .. Len(raw.zones)) \ {at}
  BY <1>1
<1> QED
  BY <1>2 DEF SeenBefore, Unique, LinesOf

LEMMA JudgedStep == Typed /\ Judged /\ [Next]_vars => Judged'
<1> SUFFICES ASSUME Typed, Judged, [Next]_vars PROVE Judged'
  OBVIOUS
<1> DEFINE n == Len(file)
<1>0. /\ n \in Nat /\ raw \in RawTo(n) /\ Len(raw.zones) \in Nat
      /\ \A k \in 1 .. Len(raw.zones) : raw.zones[k] \in ZonesTo(n)
      /\ at \in Nat /\ Len(zones) \in Nat
      /\ errors \in Seq(ErrorsTo(n)) /\ zones \in Seq(Made)
  BY HereTyped, RawParts, LenProperties DEF Typed, Parsed, Compiling
<1>1. CASE ReadLine
  <2>1. at = 1 /\ at' = 1 /\ stage' # "done"
    BY <1>1, NothingCompiled DEF ReadLine, compileVars
  <2>2. seen_networks = {} /\ seen_patterns = {}
    BY <2>1 DEF Judged, SeenBefore
  <2>3. SeenBefore'
    BY <1>1, <2>2 DEF SeenBefore, ReadLine, compileVars
  <2> QED
    BY <2>1, <2>3 DEF Judged
\* A step of compile that leaves zones alone, and adds to the errors.
<1>2. ASSUME UNCHANGED <<raw, at, seen_networks, seen_patterns, zones>>, stage' # "done",
             RangeOf(errors) \subseteq RangeOf(errors')
      PROVE  Judged'
  BY <1>2 DEF Judged, SeenBefore, Reported, Kept, Unique, Txt
<1>3. CASE EndOfFile
  BY <1>2, <1>3 DEF EndOfFile, parseVars
<1>4. CASE CompileListen
  <2>1. PICK more \in Seq(FaultsTo(n)) : errors' = errors \o more
    BY <1>4, ListenErrorsTyped DEF CompileListen, Typed
  <2>2. RangeOf(errors) \subseteq RangeOf(errors')
    BY <1>0, <2>1, RangeConcat, FaultsAreErrors
  <2> QED
    BY <1>2, <1>4, <2>2 DEF CompileListen
<1>5. CASE CompileGlobals
  <2>1. PICK more \in Seq(FaultsTo(n)) : errors' = errors \o more
    BY <1>5, GlobalErrorsTyped DEF CompileGlobals, Typed
  <2>2. RangeOf(errors) \subseteq RangeOf(errors')
    BY <1>0, <2>1, RangeConcat, FaultsAreErrors
  <2> QED
    BY <1>2, <1>5, <2>2 DEF CompileGlobals
<1>6. CASE RejectZone
  <2> DEFINE z == raw.zones[at]
  <2>1. PICK e \in ZoneError(z) : errors' = Append(errors, e)
    BY <1>6 DEF RejectZone
  <2>2. RangeOf(errors') = RangeOf(errors) \cup {e}
    <3>1. errors' \in Seq(ErrorsTo(n)) /\ Len(errors') = Len(errors) + 1 /\ Len(errors) \in Nat
      <4>1. Typed'
        BY TypedStep
      <4> QED
        BY <1>0, <1>6, <2>1, <4>1, LenProperties DEF Typed, Parsed, RejectZone
    <3>2. errors'[Len(errors) + 1] = e
      BY <1>0, <2>1
    <3>3. e \in ErrorsTo(n)
      BY <3>1, <3>2, ElementOfSeq
    <3> QED
      BY <1>0, <2>1, <3>3, RangeAppend
  <2>3. e.line \in OwnLines(z)
    BY ZoneErrorLines
  <2>4. Unique(at) => ~ ZoneOK(Txt(at))
    BY <1>6, <2>1, UniqueUnseen, ZoneErrorSome DEF RejectZone, Judged, Txt
  <2>5. UNCHANGED <<raw, seen_networks, seen_patterns, zones, stage>> /\ at' = at + 1
        /\ stage = "zones"
    BY <1>6 DEF RejectZone
  <2>6. SeenBefore'
    BY <1>0, <2>5 DEF Judged, SeenBefore, Txt
  <2>7. \A k \in 1 .. at' - 1 : k \in 1 .. at - 1 \/ k = at
    BY <1>0, <2>5
  <2>8. ASSUME NEW k \in 1 .. at - 1
        PROVE  /\ ~ ZoneOK(Txt(k)) => Reported(k)'
               /\ ZoneOK(Txt(k)) /\ Unique(k) => Kept(k)
    BY <2>2, <2>5 DEF Judged, Reported
  <2>9. \A k : k = at => Reported(k)'
    BY <2>2, <2>3, <2>5 DEF Reported
  <2>10. \A k : /\ Txt(k)' = Txt(k)
                /\ Unique(k)' <=> Unique(k)
                /\ Kept(k)' <=> Kept(k)
    BY <2>5 DEF Unique, Txt, Kept
  <2> QED
    BY <2>4, <2>5, <2>6, <2>7, <2>8, <2>9, <2>10 DEF Judged
<1>7. CASE CompileZone
  <2> DEFINE z == raw.zones[at]
             c == compile_zone(Text(z))
  <2>1. z \in ZonesTo(n)
    BY <1>0, <1>7 DEF CompileZone, Typed, Compiling
  <2>2. ZoneOK(Text(z))
    BY <1>7, ZoneErrorNone DEF CompileZone
  <2>3. c \in Made /\ zones' = Append(zones, c)
    BY <1>7, <2>1, <2>2, MadeMember DEF CompileZone
  <2>4. RangeOf(zones') = RangeOf(zones) \cup {c}
    BY <1>0, <2>3, RangeAppend
  <2>5. UNCHANGED <<raw, errors, stage>> /\ at' = at + 1 /\ stage = "zones"
    BY <1>7 DEF CompileZone, parseVars
  <2>6. /\ seen_networks' = seen_networks \cup {[key |-> Txt(at).network, line |-> z.network.line]}
        /\ seen_patterns' = seen_patterns \cup
             {[key |-> Txt(at).resolves_to, line |-> The(z.resolves_to).line]}
    BY <1>7 DEF CompileZone, Txt
  <2>7. at \in 1 .. at' - 1 /\ 1 .. at - 1 \subseteq 1 .. at' - 1
    BY <1>0, <2>5 DEF Typed, Compiling
  <2>8. SeenBefore'
    BY <2>5, <2>6, <2>7 DEF Judged, SeenBefore, Txt
  <2>9. \A k \in 1 .. at' - 1 : k \in 1 .. at - 1 \/ k = at
    BY <1>0, <2>5
  <2>10. \A k : k = at => Kept(k)' /\ ZoneOK(Txt(k))
    BY <2>2, <2>4, <2>5 DEF Kept, Txt
  <2>11. \A k : /\ Txt(k)' = Txt(k)
                /\ Unique(k)' <=> Unique(k)
                /\ Reported(k)' <=> Reported(k)
                /\ Kept(k) => Kept(k)'
    BY <2>4, <2>5 DEF Unique, Txt, Kept, Reported
  <2> QED
    BY <2>5, <2>8, <2>9, <2>10, <2>11 DEF Judged
<1>8. CASE Finish
  <2>1. RangeOf(zones') = RangeOf(zones)
    BY <1>8, RangeSorted DEF Finish
  <2> QED
    BY <1>8, <2>1 DEF Finish, parseVars, Judged, SeenBefore, Reported, Kept, Unique, Txt
<1>9. CASE UNCHANGED vars
  BY <1>9 DEF vars, parseVars, compileVars, Judged, SeenBefore, Reported, Kept, Unique, Txt
<1> QED
  BY <1>1, <1>3, <1>4, <1>5, <1>6, <1>7, <1>8, <1>9 DEF Next

\* No fault of a zone goes unnoticed and none spoils another zone, in spite of
\* the early returns of compile_zone and of the maps it leaves behind: a zone
\* that is rejected is not remembered, so it cannot make a good one a duplicate
\* of it.
THEOREM FaultsTheorem == Spec => []FaultsStayLocal
<1>1. Init => Judged
  BY DEF Init, ParseInit, Judged, SeenBefore
<1>2. Typed /\ Judged => FaultsStayLocal
  <2> SUFFICES ASSUME Typed, Judged, stage = "done", NEW k \in 1 .. Len(raw.zones)
               PROVE  LET z == raw.zones[k]
                          own == {z.network.line} \cup {v.line : v \in z.resolves_to \cup z.upstream}
                          others == {Text(raw.zones[j]) : j \in (1 .. Len(raw.zones)) \ {k}}
                          unique == \A o \in others : /\ o.network # Text(z).network
                                                      /\ o.resolves_to # Text(z).resolves_to
                      IN  /\ ~ ZoneOK(Text(z)) => \E e \in RangeOf(errors) : e.line \in own
                          /\ ZoneOK(Text(z)) /\ unique => compile_zone(Text(z)) \in RangeOf(zones)
    BY DEF FaultsStayLocal
  <2>1. k \in 1 .. at - 1
    <3>1. Len(raw.zones) \in Nat
      BY HereTyped, RawParts DEF Typed, Parsed
    <3> QED
      BY <3>1 DEF Judged
  <2> QED
    BY <2>1 DEF Judged, Reported, Kept, Unique, Txt, OwnLines
<1> QED
  BY <1>1, <1>2, JudgedStep, AlwaysTyped, PTL DEF Spec

-----------------------------------------------------------------------------
(* Where a line is recorded or reported: five sets, of which one has one   *)
(* member and the others none.                                             *)

OfLine(values, i) == {v \in values : v.line = i}

AtListen(r, i) == OfLine(RangeOf(r.listen), i)

AtGlobals(r, i) == OfLine({g.value : g \in RangeOf(r.globals)}, i)

AtNetwork(r, i) == OfLine({z.network : z \in RangeOf(r.zones)}, i)

AtSlot(r, i) == OfLine(UNION {z.resolves_to \cup z.upstream : z \in RangeOf(r.zones)}, i)

AtErrors(es, i) == {k \in 1 .. Len(es) : es[k].line = i /\ es[k].kind \in ParseErrors}

Once(r, es, i) ==
    Cardinality(AtListen(r, i)) + Cardinality(AtGlobals(r, i)) + Cardinality(AtNetwork(r, i))
      + Cardinality(AtSlot(r, i)) + Cardinality(AtErrors(es, i)) = 1

LEMMA OnceMeans ==
    NoLineIgnored <=> \A i \in Lines : ~ Skipped(file[i]) => Once(raw, errors, i)
BY DEF NoLineIgnored, Once, AtListen, AtGlobals, AtNetwork, AtSlot, AtErrors, OfLine

\* Of a later line there is nothing yet.
LEMMA NotYet ==
    ASSUME NEW n \in Nat, NEW r \in RawTo(n), NEW es \in Seq(ErrorsTo(n))
    PROVE  /\ AtListen(r, n + 1) = {} /\ AtGlobals(r, n + 1) = {}
           /\ AtNetwork(r, n + 1) = {} /\ AtSlot(r, n + 1) = {}
           /\ AtErrors(es, n + 1) = {}
<1>1. \A i \in 1 .. n : i # n + 1
  OBVIOUS
<1>2. /\ \A i \in 1 .. Len(r.listen) : r.listen[i] \in ValuesTo(n)
      /\ \A i \in 1 .. Len(r.zones) : r.zones[i] \in ZonesTo(n)
      /\ \A i \in 1 .. Len(r.globals) : r.globals[i] \in GlobalsTo(n)
      /\ \A i \in 1 .. Len(es) : es[i] \in ErrorsTo(n)
  BY RawParts, ElementOfSeq
<1>3. AtListen(r, n + 1) = {}
  BY <1>1, <1>2 DEF AtListen, OfLine, RangeOf, ValuesTo
<1>4. AtGlobals(r, n + 1) = {}
  BY <1>1, <1>2 DEF AtGlobals, OfLine, RangeOf, GlobalsTo
<1>5. AtNetwork(r, n + 1) = {}
  BY <1>1, <1>2 DEF AtNetwork, OfLine, RangeOf, ZonesTo, ValuesTo
<1>6. AtSlot(r, n + 1) = {}
  BY <1>1, <1>2 DEF AtSlot, OfLine, RangeOf, ZonesTo, ValuesTo
<1>7. AtErrors(es, n + 1) = {}
  BY <1>1, <1>2 DEF AtErrors, ErrorsTo, ErrorsOf
<1> QED
  BY <1>3, <1>4, <1>5, <1>6, <1>7

\* What each kind of record adds, at its line and at the others.
MoreListen(r, q, v) ==
    q.listen = Append(r.listen, v) /\ q.globals = r.globals /\ q.zones = r.zones

MoreGlobals(r, q, g) ==
    q.globals = Append(r.globals, g) /\ q.listen = r.listen /\ q.zones = r.zones

Opened(v) == [network |-> v, resolves_to |-> {}, upstream |-> {}]

MoreZones(r, q, v) ==
    q.zones = Append(r.zones, Opened(v)) /\ q.listen = r.listen /\ q.globals = r.globals

Filled(r, q, k, slot, v) ==
    /\ q.listen = r.listen /\ q.globals = r.globals /\ Len(q.zones) = Len(r.zones)
    /\ \A j \in 1 .. Len(r.zones) : j # k => q.zones[j] = r.zones[j]
    /\ r.zones[k][slot] = {}
    /\ q.zones[k] = [r.zones[k] EXCEPT ![slot] = {v}]

MoreSlots(r, q, v) == \E k \in 1 .. Len(r.zones), slot \in ZoneSlot : Filled(r, q, k, slot, v)

LEMMA ListenAdds ==
    ASSUME NEW n \in Nat, NEW r \in RawTo(n), NEW v, NEW i,
           NEW q, MoreListen(r, q, v)
    PROVE  /\ AtListen(q, i) = AtListen(r, i) \cup OfLine({v}, i)
           /\ AtGlobals(q, i) = AtGlobals(r, i)
           /\ AtNetwork(q, i) = AtNetwork(r, i)
           /\ AtSlot(q, i) = AtSlot(r, i)
<1>2. r.listen \in Seq(ValuesTo(n) \cup {v})
  BY RawParts, SeqGrows
<1>3. RangeOf(q.listen) = RangeOf(r.listen) \cup {v}
  BY <1>2, RangeAppend DEF MoreListen
<1> QED
  BY <1>3 DEF MoreListen, AtListen, AtGlobals, AtNetwork, AtSlot, OfLine

LEMMA GlobalsAdds ==
    ASSUME NEW n \in Nat, NEW r \in RawTo(n), NEW g, NEW i,
           NEW q, MoreGlobals(r, q, g)
    PROVE  /\ AtGlobals(q, i) = AtGlobals(r, i) \cup OfLine({g.value}, i)
           /\ AtListen(q, i) = AtListen(r, i)
           /\ AtNetwork(q, i) = AtNetwork(r, i)
           /\ AtSlot(q, i) = AtSlot(r, i)
<1>2. r.globals \in Seq(GlobalsTo(n) \cup {g})
  BY RawParts, SeqGrows
<1>3. RangeOf(q.globals) = RangeOf(r.globals) \cup {g}
  BY <1>2, RangeAppend DEF MoreGlobals
<1> QED
  BY <1>3 DEF MoreGlobals, AtListen, AtGlobals, AtNetwork, AtSlot, OfLine

LEMMA AtNetworkMember ==
    ASSUME NEW r, NEW i, NEW x
    PROVE  x \in AtNetwork(r, i) <=>
             x.line = i /\ \E j \in 1 .. Len(r.zones) : x = r.zones[j].network
BY DEF AtNetwork, OfLine, RangeOf

LEMMA AtSlotMember ==
    ASSUME NEW r, NEW i, NEW x
    PROVE  x \in AtSlot(r, i) <=>
             /\ x.line = i
             /\ \E j \in 1 .. Len(r.zones) :
                  x \in r.zones[j].resolves_to \/ x \in r.zones[j].upstream
BY DEF AtSlot, OfLine, RangeOf

LEMMA NetworkAdds ==
    ASSUME NEW n \in Nat, NEW r \in RawTo(n), NEW v, NEW i,
           NEW q, MoreZones(r, q, v)
    PROVE  /\ AtNetwork(q, i) = AtNetwork(r, i) \cup OfLine({v}, i)
           /\ AtListen(q, i) = AtListen(r, i)
           /\ AtGlobals(q, i) = AtGlobals(r, i)
           /\ AtSlot(q, i) = AtSlot(r, i)
<1> DEFINE m == Len(r.zones)
           z == Opened(v)
<1>1. z.network = v /\ z.resolves_to = {} /\ z.upstream = {}
  BY DEF Opened
<1> HIDE DEF z
<1>2. r.zones \in Seq(ZonesTo(n) \cup {z})
  BY RawParts, SeqGrows
<1>3. /\ m \in Nat /\ Len(q.zones) = m + 1
      /\ \A j \in 1 .. m : q.zones[j] = r.zones[j]
      /\ q.zones[m + 1] = z
  BY <1>2, AppendTyped DEF MoreZones, z
<1>4. \A j \in 1 .. m + 1 : j \in 1 .. m \/ j = m + 1
  BY <1>3
<1>5. m + 1 \in 1 .. m + 1 /\ 1 .. m \subseteq 1 .. m + 1
  BY <1>3
<1>6. \A x : x \in AtNetwork(q, i) <=> x \in AtNetwork(r, i) \/ (x = v /\ i = v.line)
  <2> TAKE x
  <2>1. x \in AtNetwork(r, i) <=> x.line = i /\ \E j \in 1 .. m : x = r.zones[j].network
    BY AtNetworkMember
  <2>2. x \in AtNetwork(q, i) <=> x.line = i /\ \E j \in 1 .. Len(q.zones) : x = q.zones[j].network
    BY AtNetworkMember
  <2>3. (\E j \in 1 .. m + 1 : x = q.zones[j].network)
          <=> (\E j \in 1 .. m : x = r.zones[j].network) \/ x = v
    BY <1>1, <1>3, <1>4, <1>5
  <2> QED
    BY <1>3, <2>1, <2>2, <2>3
<1>7. \A x : x \in AtSlot(q, i) <=> x \in AtSlot(r, i)
  <2> TAKE x
  <2> DEFINE In(y) == x \in y.resolves_to \/ x \in y.upstream
  <2>1. x \in AtSlot(r, i) <=> x.line = i /\ \E j \in 1 .. m : In(r.zones[j])
    BY AtSlotMember
  <2>2. x \in AtSlot(q, i) <=> x.line = i /\ \E j \in 1 .. Len(q.zones) : In(q.zones[j])
    BY AtSlotMember
  <2>3. ~ In(z)
    BY <1>1
  <2> HIDE DEF In
  <2>4. (\E j \in 1 .. m + 1 : In(q.zones[j])) <=> (\E j \in 1 .. m : In(r.zones[j]))
    BY <1>3, <1>4, <1>5, <2>3
  <2> QED
    BY <1>3, <2>1, <2>2, <2>4
<1>8. AtNetwork(q, i) = AtNetwork(r, i) \cup OfLine({v}, i)
  BY <1>6 DEF OfLine
<1>9. AtSlot(q, i) = AtSlot(r, i)
  BY <1>7
<1> QED
  BY <1>8, <1>9 DEF MoreZones, AtListen, AtGlobals

LEMMA SlotAdds ==
    ASSUME NEW n \in Nat, NEW r \in RawTo(n), NEW v, NEW i,
           NEW q, MoreSlots(r, q, v)
    PROVE  /\ AtSlot(q, i) = AtSlot(r, i) \cup OfLine({v}, i)
           /\ AtListen(q, i) = AtListen(r, i)
           /\ AtGlobals(q, i) = AtGlobals(r, i)
           /\ AtNetwork(q, i) = AtNetwork(r, i)
<1> DEFINE m == Len(r.zones)
           In(x, z) == x \in z.resolves_to \/ x \in z.upstream
<1>0. PICK k \in 1 .. m, slot \in ZoneSlot : Filled(r, q, k, slot, v)
  BY DEF MoreSlots
<1>1. m \in Nat /\ r.zones \in Seq(ZonesTo(n)) /\ \A j \in 1 .. m : r.zones[j] \in ZonesTo(n)
  BY RawParts
<1>3. Len(q.zones) = m /\ \A j \in 1 .. m : j # k => q.zones[j] = r.zones[j]
  BY <1>0 DEF Filled
<1>4. /\ q.zones[k].network = r.zones[k].network
      /\ \A x : In(x, q.zones[k]) <=> In(x, r.zones[k]) \/ x = v
  BY <1>0, <1>1 DEF Filled, ZonesTo, ZoneSlot
<1>5. \A j \in 1 .. m : q.zones[j].network = r.zones[j].network
  BY <1>3, <1>4
<1>6. \A x : x \in AtNetwork(q, i) <=> x \in AtNetwork(r, i)
  <2> TAKE x
  <2>1. x \in AtNetwork(r, i) <=> x.line = i /\ \E j \in 1 .. m : x = r.zones[j].network
    BY AtNetworkMember
  <2>2. x \in AtNetwork(q, i) <=> x.line = i /\ \E j \in 1 .. Len(q.zones) : x = q.zones[j].network
    BY AtNetworkMember
  <2> QED
    BY <1>3, <1>5, <2>1, <2>2
<1>7. \A x : x \in AtSlot(r, i) <=> x.line = i /\ \E j \in 1 .. m : In(x, r.zones[j])
  BY AtSlotMember
<1>8. \A x : x \in AtSlot(q, i) <=> x.line = i /\ \E j \in 1 .. m : In(x, q.zones[j])
  <2>1. \A x : x \in AtSlot(q, i) <=> x.line = i /\ \E j \in 1 .. Len(q.zones) : In(x, q.zones[j])
    BY AtSlotMember
  <2> QED
    BY <1>3, <2>1
<1> HIDE DEF In, m
<1>9. ASSUME NEW x
      PROVE  (\E j \in 1 .. m : In(x, q.zones[j])) <=> (\E j \in 1 .. m : In(x, r.zones[j])) \/ x = v
  BY <1>0, <1>3, <1>4 DEF m
<1>10. \A x : x \in AtSlot(q, i) <=> x \in AtSlot(r, i) \/ (x = v /\ i = v.line)
  BY <1>7, <1>8, <1>9
<1>11. AtSlot(q, i) = AtSlot(r, i) \cup OfLine({v}, i)
  BY <1>10 DEF OfLine
<1>12. AtNetwork(q, i) = AtNetwork(r, i)
  BY <1>6
<1> QED
  BY <1>0, <1>11, <1>12 DEF Filled, AtListen, AtGlobals

\* An error of this stage is one of the line, an error of compile is none.
LEMMA ErrorAdds ==
    ASSUME NEW n \in Nat, NEW es \in Seq(ErrorsTo(n)), NEW e, NEW i
    PROVE  AtErrors(Append(es, e), i) =
             AtErrors(es, i) \cup (IF e.line = i /\ e.kind \in ParseErrors THEN {Len(es) + 1} ELSE {})
<1>1. es \in Seq(ErrorsTo(n) \cup {e})
  BY SeqGrows
<1>2. /\ Len(es) \in Nat
      /\ Len(Append(es, e)) = Len(es) + 1
      /\ \A k \in 1 .. Len(es) : Append(es, e)[k] = es[k]
      /\ Append(es, e)[Len(es) + 1] = e
  BY <1>1, AppendTyped
<1> QED
  BY <1>2 DEF AtErrors

LEMMA FaultsAddNone ==
    ASSUME NEW n \in Nat, NEW es \in Seq(ErrorsTo(n)), NEW more \in Seq(FaultsTo(n)), NEW i
    PROVE  AtErrors(es \o more, i) = AtErrors(es, i)
<1>1. /\ Len(es \o more) = Len(es) + Len(more) /\ Len(es) \in Nat /\ Len(more) \in Nat
      /\ \A k \in 1 .. Len(es) : (es \o more)[k] = es[k]
      /\ \A k \in 1 .. Len(more) : (es \o more)[Len(es) + k] = more[k]
  BY FaultsAreErrors, ConcatAt, LenProperties
<1>2. \A k \in 1 .. Len(more) : more[k].kind \notin ParseErrors
  <2>1. \A k \in 1 .. Len(more) : more[k] \in FaultsTo(n)
    BY ElementOfSeq
  <2>2. \A kind \in CompileErrors : kind \notin ParseErrors
    BY DEF CompileErrors, ParseErrors
  <2> QED
    BY <2>1, <2>2 DEF FaultsTo, ErrorsOf
<1>3. ASSUME NEW k \in 1 .. Len(es) + Len(more), k > Len(es)
      PROVE  (es \o more)[k].kind \notin ParseErrors
  <2>1. k - Len(es) \in 1 .. Len(more) /\ Len(es) + (k - Len(es)) = k
    BY <1>1, <1>3
  <2> QED
    BY <1>1, <1>2, <2>1
<1>4. \A k \in 1 .. Len(es) + Len(more) : k > Len(es) \/ k \in 1 .. Len(es)
  BY <1>1
<1>5. 1 .. Len(es) \subseteq 1 .. Len(es) + Len(more)
  BY <1>1
<1> QED
  BY <1>1, <1>3, <1>4, <1>5 DEF AtErrors

\* A line that is read leaves what the others did, and does one thing itself.
Same(r, es, q, fs, i) ==
    /\ AtListen(q, i) = AtListen(r, i) /\ AtGlobals(q, i) = AtGlobals(r, i)
    /\ AtNetwork(q, i) = AtNetwork(r, i) /\ AtSlot(q, i) = AtSlot(r, i)
    /\ AtErrors(fs, i) = AtErrors(es, i)

OnlyOne(s1, s2, s3, s4, s5) ==
    \E x : \/ s1 = {x} /\ s2 = {} /\ s3 = {} /\ s4 = {} /\ s5 = {}
           \/ s1 = {} /\ s2 = {x} /\ s3 = {} /\ s4 = {} /\ s5 = {}
           \/ s1 = {} /\ s2 = {} /\ s3 = {x} /\ s4 = {} /\ s5 = {}
           \/ s1 = {} /\ s2 = {} /\ s3 = {} /\ s4 = {x} /\ s5 = {}
           \/ s1 = {} /\ s2 = {} /\ s3 = {} /\ s4 = {} /\ s5 = {x}

LEMMA OnlyOneCounts ==
    ASSUME NEW s1, NEW s2, NEW s3, NEW s4, NEW s5, OnlyOne(s1, s2, s3, s4, s5)
    PROVE  Cardinality(s1) + Cardinality(s2) + Cardinality(s3) + Cardinality(s4)
             + Cardinality(s5) = 1
<1>1. Cardinality({}) = 0 /\ \A x : Cardinality({x}) = 1
  BY FS_EmptySet, FS_Singleton
<1>2. PICK x : \/ s1 = {x} /\ s2 = {} /\ s3 = {} /\ s4 = {} /\ s5 = {}
               \/ s1 = {} /\ s2 = {x} /\ s3 = {} /\ s4 = {} /\ s5 = {}
               \/ s1 = {} /\ s2 = {} /\ s3 = {x} /\ s4 = {} /\ s5 = {}
               \/ s1 = {} /\ s2 = {} /\ s3 = {} /\ s4 = {x} /\ s5 = {}
               \/ s1 = {} /\ s2 = {} /\ s3 = {} /\ s4 = {} /\ s5 = {x}
  BY DEF OnlyOne
<1>3. Cardinality({x}) = 1
  BY <1>1
<1> QED
  BY <1>1, <1>2, <1>3

Fresh(r, es, q, fs, n) ==
    /\ \A i \in 1 .. n : Same(r, es, q, fs, i)
    /\ OnlyOne(AtListen(q, n + 1), AtGlobals(q, n + 1), AtNetwork(q, n + 1), AtSlot(q, n + 1),
               AtErrors(fs, n + 1))

LEMMA FreshOnce ==
    ASSUME NEW n, NEW r, NEW es, NEW q, NEW fs, Fresh(r, es, q, fs, n)
    PROVE  /\ \A i \in 1 .. n : Once(q, fs, i) <=> Once(r, es, i)
           /\ Once(q, fs, n + 1)
<1>1. \A i \in 1 .. n : Once(q, fs, i) <=> Once(r, es, i)
  BY DEF Fresh, Same, Once
<1>2. Once(q, fs, n + 1)
  BY OnlyOneCounts DEF Fresh, Once
<1> QED
  BY <1>1, <1>2

LEMMA ListenFresh ==
    ASSUME NEW n \in Nat, NEW r \in RawTo(n), NEW es \in Seq(ErrorsTo(n)), NEW v, v.line = n + 1,
           NEW q, MoreListen(r, q, v)
    PROVE  Fresh(r, es, q, es, n)
<1>1. \A i \in 1 .. n : i # n + 1
  OBVIOUS
<1>2. ASSUME NEW i
      PROVE  /\ AtListen(q, i) = AtListen(r, i) \cup OfLine({v}, i)
             /\ AtGlobals(q, i) = AtGlobals(r, i)
             /\ AtNetwork(q, i) = AtNetwork(r, i)
             /\ AtSlot(q, i) = AtSlot(r, i)
  BY ListenAdds, SMTT(30)
<1>3. ASSUME NEW i \in 1 .. n PROVE Same(r, es, q, es, i)
  BY <1>1, <1>2 DEF Same, OfLine
<1>4. /\ AtListen(q, n + 1) = {v} /\ AtGlobals(q, n + 1) = {}
      /\ AtNetwork(q, n + 1) = {} /\ AtSlot(q, n + 1) = {} /\ AtErrors(es, n + 1) = {}
  BY <1>2, NotYet DEF OfLine
<1> QED
  BY <1>3, <1>4 DEF Fresh, OnlyOne

LEMMA GlobalsFresh ==
    ASSUME NEW n \in Nat, NEW r \in RawTo(n), NEW es \in Seq(ErrorsTo(n)),
           NEW g, g.value.line = n + 1,
           NEW q, MoreGlobals(r, q, g)
    PROVE  Fresh(r, es, q, es, n)
<1>1. \A i \in 1 .. n : i # n + 1
  OBVIOUS
<1>2. ASSUME NEW i
      PROVE  /\ AtGlobals(q, i) = AtGlobals(r, i) \cup OfLine({g.value}, i)
             /\ AtListen(q, i) = AtListen(r, i)
             /\ AtNetwork(q, i) = AtNetwork(r, i)
             /\ AtSlot(q, i) = AtSlot(r, i)
  BY GlobalsAdds, SMTT(30)
<1>3. ASSUME NEW i \in 1 .. n PROVE Same(r, es, q, es, i)
  BY <1>1, <1>2 DEF Same, OfLine
<1>4. /\ AtListen(q, n + 1) = {} /\ AtGlobals(q, n + 1) = {g.value}
      /\ AtNetwork(q, n + 1) = {} /\ AtSlot(q, n + 1) = {} /\ AtErrors(es, n + 1) = {}
  BY <1>2, NotYet DEF OfLine
<1> QED
  BY <1>3, <1>4 DEF Fresh, OnlyOne

LEMMA NetworkFresh ==
    ASSUME NEW n \in Nat, NEW r \in RawTo(n), NEW es \in Seq(ErrorsTo(n)), NEW v, v.line = n + 1,
           NEW q, MoreZones(r, q, v)
    PROVE  Fresh(r, es, q, es, n)
<1>1. \A i \in 1 .. n : i # n + 1
  OBVIOUS
<1>2. ASSUME NEW i
      PROVE  /\ AtNetwork(q, i) = AtNetwork(r, i) \cup OfLine({v}, i)
             /\ AtListen(q, i) = AtListen(r, i)
             /\ AtGlobals(q, i) = AtGlobals(r, i)
             /\ AtSlot(q, i) = AtSlot(r, i)
  BY NetworkAdds, SMTT(30)
<1>3. ASSUME NEW i \in 1 .. n PROVE Same(r, es, q, es, i)
  BY <1>1, <1>2 DEF Same, OfLine
<1>4. /\ AtListen(q, n + 1) = {} /\ AtGlobals(q, n + 1) = {}
      /\ AtNetwork(q, n + 1) = {v} /\ AtSlot(q, n + 1) = {} /\ AtErrors(es, n + 1) = {}
  BY <1>2, NotYet DEF OfLine
<1> QED
  BY <1>3, <1>4 DEF Fresh, OnlyOne

LEMMA SlotFresh ==
    ASSUME NEW n \in Nat, NEW r \in RawTo(n), NEW es \in Seq(ErrorsTo(n)), NEW v, v.line = n + 1,
           NEW q, MoreSlots(r, q, v)
    PROVE  Fresh(r, es, q, es, n)
<1>1. \A i \in 1 .. n : i # n + 1
  OBVIOUS
<1>2. ASSUME NEW i
      PROVE  /\ AtSlot(q, i) = AtSlot(r, i) \cup OfLine({v}, i)
             /\ AtListen(q, i) = AtListen(r, i)
             /\ AtGlobals(q, i) = AtGlobals(r, i)
             /\ AtNetwork(q, i) = AtNetwork(r, i)
  BY SlotAdds, SMTT(30)
<1>3. ASSUME NEW i \in 1 .. n PROVE Same(r, es, q, es, i)
  BY <1>1, <1>2 DEF Same, OfLine
<1>4. /\ AtListen(q, n + 1) = {} /\ AtGlobals(q, n + 1) = {}
      /\ AtNetwork(q, n + 1) = {} /\ AtSlot(q, n + 1) = {v} /\ AtErrors(es, n + 1) = {}
  BY <1>2, NotYet DEF OfLine
<1> QED
  BY <1>3, <1>4 DEF Fresh, OnlyOne

LEMMA ReportFresh ==
    ASSUME NEW n \in Nat, NEW r \in RawTo(n), NEW es \in Seq(ErrorsTo(n)),
           NEW e, e.line = n + 1, e.kind \in ParseErrors,
           NEW fs, fs = Append(es, e)
    PROVE  Fresh(r, es, r, fs, n)
<1>1. \A i \in 1 .. n : i # n + 1
  OBVIOUS
<1>2. ASSUME NEW i
      PROVE  AtErrors(fs, i) = AtErrors(es, i) \cup
               (IF e.line = i /\ e.kind \in ParseErrors THEN {Len(es) + 1} ELSE {})
  BY ErrorAdds
<1>3. ASSUME NEW i \in 1 .. n PROVE Same(r, es, r, fs, i)
  BY <1>1, <1>2 DEF Same
<1>4. /\ AtListen(r, n + 1) = {} /\ AtGlobals(r, n + 1) = {} /\ AtNetwork(r, n + 1) = {}
      /\ AtSlot(r, n + 1) = {} /\ AtErrors(fs, n + 1) = {Len(es) + 1}
  BY <1>2, NotYet
<1> QED
  BY <1>3, <1>4 DEF Fresh, OnlyOne

\* The step of a line is one of these.
LEMMA ReportIsFresh ==
    ASSUME Parsed, NEW line, NEW kind \in ParseErrors, NEW first, Report(line, kind, first)
    PROVE  Fresh(raw, errors, raw', errors', Len(file))
<1> DEFINE n == Len(file)
           e == Error(kind, n + 1, first)
<1>1. n \in Nat /\ raw \in RawTo(n) /\ errors \in Seq(ErrorsTo(n))
  BY HereTyped DEF Parsed
<1>2. e.line = n + 1 /\ e.kind \in ParseErrors
  BY DEF Error
<1>3. errors' = Append(errors, e) /\ raw' = raw
  BY DEF Report, Here
<1> HIDE DEF e
<1> QED
  BY <1>1, <1>2, <1>3, ReportFresh

LEMMA GlobalIsFresh ==
    ASSUME Parsed, NEW line, NEW key, NEW value, Record(line, PushGlobal(key, RawValue(value)))
    PROVE  Fresh(raw, errors, raw', errors', Len(file))
<1> DEFINE n == Len(file)
           g == [key |-> key, value |-> RawValue(value)]
<1>1. n \in Nat /\ raw \in RawTo(n) /\ errors \in Seq(ErrorsTo(n))
  BY HereTyped DEF Parsed
<1>2. g.value.line = n + 1
  BY DEF RawValue, Here
<1>3. MoreGlobals(raw, raw', g) /\ errors' = errors
  BY <1>1 DEF Record, PushGlobal, MoreGlobals, RawTo
<1> HIDE DEF g
<1> QED
  BY <1>1, <1>2, <1>3, GlobalsFresh

LEMMA ReadFresh ==
    ASSUME Parsed, ReadLine
    PROVE  \E line \in LineSet :
             /\ file' = Append(file, line)
             /\ \/ Fresh(raw, errors, raw', errors', Len(file))
                \/ Skipped(line) /\ raw' = raw /\ errors' = errors
<1> DEFINE n == Len(file)
           F == Fresh(raw, errors, raw', errors', Len(file))
<1>0. n \in Nat /\ raw \in RawTo(n) /\ errors \in Seq(ErrorsTo(n))
  BY HereTyped DEF Parsed
<1> PICK line \in LineSet :
         \/ SkipLine(line) \/ FlagLine(line) \/ UnmatchedLine(line) \/ OutOfScope(line)
         \/ ListenLine(line) \/ NetworkLine(line) \/ ZoneLine(line) \/ GlobalLine(line)
  BY DEF ReadLine, NextLines
<1>r. file' = Append(file, line)
  BY DEF SkipLine, FlagLine, UnmatchedLine, OutOfScope, ListenLine,
         NetworkLine, ZoneLine, GlobalLine, Report, Record, Read
<1>1. CASE SkipLine(line)
  BY <1>1, <1>r DEF SkipLine
<1>2. CASE FlagLine(line)
  BY <1>2, <1>r, ReportIsFresh, GlobalIsFresh DEF FlagLine, ParseErrors
<1>3. CASE UnmatchedLine(line)
  BY <1>3, <1>r, ReportIsFresh DEF UnmatchedLine, ParseErrors
<1>4. CASE OutOfScope(line)
  BY <1>4, <1>r, ReportIsFresh DEF OutOfScope, ParseErrors
<1>5. CASE ListenLine(line)
  <2> PICK d \in Matched(line) :
        Record(line, [raw EXCEPT !.listen = Append(@, RawValue(ValueOf(line, d)))])
    BY <1>5 DEF ListenLine
  <2> DEFINE v == RawValue(ValueOf(line, d))
  <2>1. v.line = n + 1
    BY DEF RawValue, Here
  <2>2. MoreListen(raw, raw', v) /\ errors' = errors
    BY <1>0 DEF Record, MoreListen, RawTo
  <2> HIDE DEF v
  <2>3. F
    BY <1>0, <2>1, <2>2, ListenFresh
  <2> QED
    BY <1>r, <2>3
<1>6. CASE NetworkLine(line)
  <2> PICK d \in Matched(line) :
         Record(line, [raw EXCEPT !.zones =
                         Append(@, [network |-> RawValue(ValueOf(line, d)),
                                    resolves_to |-> {}, upstream |-> {}])])
    BY <1>6 DEF NetworkLine
  <2> DEFINE v == RawValue(ValueOf(line, d))
  <2>1. v.line = n + 1
    BY DEF RawValue, Here
  <2>2. MoreZones(raw, raw', v) /\ errors' = errors
    BY <1>0 DEF Record, MoreZones, Opened, RawTo
  <2> HIDE DEF v
  <2>3. F
    BY <1>0, <2>1, <2>2, NetworkFresh
  <2> QED
    BY <1>r, <2>3
<1>7. CASE ZoneLine(line)
  <2> PICK d \in Matched(line) :
        /\ InScope(d) /\ d.target \in ZoneSlot
        /\ LET slot == raw.zones[Len(raw.zones)][d.target]
           IN  \/ /\ slot = {}
                  /\ Record(line, [raw EXCEPT !.zones[Len(raw.zones)][d.target] =
                                     {RawValue(ValueOf(line, d))}])
               \/ \E first \in slot : Report(line, "DuplicateDirective", first.line)
    BY <1>7 DEF ZoneLine
  <2> DEFINE v == RawValue(ValueOf(line, d))
             k == Len(raw.zones)
             slot == d.target
  <2>1. raw.zones # <<>>
    BY MatchedTyped DEF InScope, DIRECTIVES, Directive, ZoneSlot
  <2>2. k \in 1 .. Len(raw.zones)
    BY <2>1, LastZone
  <2>3. CASE raw.zones[k][slot] = {} /\ Record(line, [raw EXCEPT !.zones[k][slot] = {v}])
    <3>1. v.line = n + 1
      BY DEF RawValue, Here
    <3> HIDE DEF v
    <3>2. raw' = [raw EXCEPT !.zones[k][slot] = {v}] /\ errors' = errors
      BY <2>3 DEF Record
    <3>3. /\ raw'.listen = raw.listen /\ raw'.globals = raw.globals
          /\ raw'.zones = [raw.zones EXCEPT ![k] = [raw.zones[k] EXCEPT ![slot] = {v}]]
      BY <1>0, <3>2 DEF RawTo
    <3>4. raw.zones \in Seq(ZonesTo(n)) /\ Len(raw.zones) \in Nat
      BY <1>0, RawParts
    <3>5. Filled(raw, raw', k, slot, v)
      BY <2>2, <2>3, <3>3, <3>4 DEF Filled
    <3>6. MoreSlots(raw, raw', v)
      BY <2>2, <3>5 DEF MoreSlots
    <3>7. F
      BY <1>0, <3>1, <3>2, <3>6, SlotFresh
    <3> QED
      BY <1>r, <3>7
  <2>4. CASE \E first \in raw.zones[k][slot] : Report(line, "DuplicateDirective", first.line)
    BY <1>r, <2>4, ReportIsFresh DEF ParseErrors
  <2> QED
    BY <2>3, <2>4
<1>8. CASE GlobalLine(line)
  <2> PICK d \in Matched(line) :
         \/ Record(line, PushGlobal(d.target, RawValue(ValueOf(line, d))))
         \/ \E g \in Earlier(d.target) : Report(line, "DuplicateDirective", g.value.line)
    BY <1>8 DEF GlobalLine
  <2> QED
    BY <1>r, ReportIsFresh, GlobalIsFresh DEF ParseErrors
<1> QED
  BY <1>1, <1>2, <1>3, <1>4, <1>5, <1>6, <1>7, <1>8

LEMMA IgnoredStep == Typed /\ NoLineIgnored /\ [Next]_vars => NoLineIgnored'
<1> SUFFICES ASSUME Typed, NoLineIgnored, [Next]_vars
             PROVE  \A i \in Lines' : ~ Skipped(file'[i]) => Once(raw', errors', i)
  BY DEF NoLineIgnored, Once, AtListen, AtGlobals, AtNetwork, AtSlot, AtErrors, OfLine
<1>o. \A i \in Lines : ~ Skipped(file[i]) => Once(raw, errors, i)
  BY OnceMeans
<1> DEFINE n == Len(file)
<1>0. n \in Nat /\ file \in Seq(LineSet) /\ raw \in RawTo(n) /\ errors \in Seq(ErrorsTo(n))
  BY HereTyped DEF Typed, Parsed
<1>1. CASE ReadLine
  <2>1. PICK line \in LineSet :
             /\ file' = Append(file, line)
             /\ \/ Fresh(raw, errors, raw', errors', n)
                \/ Skipped(line) /\ raw' = raw /\ errors' = errors
    BY <1>1, ReadFresh DEF Typed
  <2>2. /\ Len(file') = n + 1
        /\ \A i \in 1 .. n : file'[i] = file[i]
        /\ file'[n + 1] = line
    BY <1>0, <2>1, AppendTyped
  <2>3. \A i \in 1 .. n + 1 : i \in 1 .. n \/ i = n + 1
    BY <1>0
  <2>4. CASE Fresh(raw, errors, raw', errors', n)
    BY <1>o, <2>2, <2>3, <2>4, FreshOnce DEF Lines
  <2>5. CASE Skipped(line) /\ raw' = raw /\ errors' = errors
    BY <1>o, <2>2, <2>3, <2>5 DEF Lines
  <2> QED
    BY <2>1, <2>4, <2>5
<1>2. ASSUME UNCHANGED <<file, raw>>, \A i : AtErrors(errors', i) = AtErrors(errors, i)
      PROVE  \A i \in Lines' : ~ Skipped(file'[i]) => Once(raw', errors', i)
  BY <1>o, <1>2 DEF Lines, Once
<1>3. CASE EndOfFile \/ CompileZone \/ Finish
  BY <1>2, <1>3 DEF EndOfFile, CompileZone, Finish, parseVars
<1>4. CASE CompileListen
  <2>1. PICK more \in Seq(FaultsTo(n)) : errors' = errors \o more
    BY <1>4, ListenErrorsTyped DEF CompileListen, Typed
  <2>2. ASSUME NEW i PROVE AtErrors(errors', i) = AtErrors(errors, i)
    BY <1>0, <2>1, FaultsAddNone
  <2> QED
    BY <1>2, <1>4, <2>2 DEF CompileListen
<1>5. CASE CompileGlobals
  <2>1. PICK more \in Seq(FaultsTo(n)) : errors' = errors \o more
    BY <1>5, GlobalErrorsTyped DEF CompileGlobals, Typed
  <2>2. ASSUME NEW i PROVE AtErrors(errors', i) = AtErrors(errors, i)
    BY <1>0, <2>1, FaultsAddNone
  <2> QED
    BY <1>2, <1>5, <2>2 DEF CompileGlobals
<1>6. CASE RejectZone
  <2>1. PICK e \in ZoneError(raw.zones[at]) : errors' = Append(errors, e)
    BY <1>6 DEF RejectZone
  <2>2. e.kind \notin ParseErrors
    BY ZoneErrorLines DEF CompileErrors, ParseErrors
  <2>3. ASSUME NEW i PROVE AtErrors(errors', i) = AtErrors(errors, i)
    <3>1. AtErrors(errors', i) = AtErrors(errors, i) \cup
            (IF e.line = i /\ e.kind \in ParseErrors THEN {Len(errors) + 1} ELSE {})
      BY <1>0, <2>1, ErrorAdds
    <3> QED
      BY <2>2, <3>1
  <2> QED
    BY <1>2, <1>6, <2>3 DEF RejectZone
<1>7. CASE UNCHANGED vars
  BY <1>2, <1>7 DEF vars, parseVars
<1> QED
  BY <1>1, <1>3, <1>4, <1>5, <1>6, <1>7 DEF Next

\* Every line that is neither blank nor a comment is recorded in exactly one
\* place or reported exactly once by the loop of parse, and no later stage
\* takes that back.
THEOREM IgnoredTheorem == Spec => []NoLineIgnored
<1>1. Init => NoLineIgnored
  BY DEF Init, ParseInit, NoLineIgnored, Lines
<1> QED
  BY <1>1, IgnoredStep, AlwaysTyped, PTL DEF Spec

-----------------------------------------------------------------------------
(* What the lines say, when the file goes on with one more.                *)

Says(line, target) == \E d \in Matched(line) : d.target = target

\* The table of directives: where each may stand, and that targets tell them apart.
LEMMA TableOfDirectives ==
    ASSUME NEW d \in DIRECTIVES
    PROVE  /\ d.scope = "Zone" <=> d.target \in ZoneSlot
           /\ d.scope = "Anywhere" <=> d.target \in {"Network", "Listen"}
           /\ d.scope \in {"Zone", "Global", "Anywhere"}
           /\ d.target # "RrlOff"
           /\ \A e \in DIRECTIVES : e.target = d.target => e = d
BY DEF DIRECTIVES, Directive, ZoneSlot

\* No keyword begins another.
LEMMA OneMatch ==
    ASSUME NEW line \in LineSet, NEW d \in Matched(line), NEW e \in Matched(line)
    PROVE  d = e
<1>1. line \in Seq(STRING)
  BY LinesAssumption
<1>2. ASSUME NEW c \in DIRECTIVES, Matches(line, c)
      PROVE  /\ line[1] = c.words[1]
             /\ Len(c.words) = 2 => line[2] = c.words[2]
  <2>1. /\ Len(c.words) \in {1, 2}
        /\ c.words = [i \in 1 .. Len(c.words) |-> c.words[i]]
    BY DEF DIRECTIVES, Directive
  <2>2. Len(line) > Len(c.words) /\ SubSeq(line, 1, Len(c.words)) = c.words
    BY <1>2 DEF Matches
  <2>3. \A i \in 1 .. Len(c.words) : SubSeq(line, 1, Len(c.words))[i] = line[i]
    BY <1>1, <2>1, <2>2
  <2> QED
    BY <2>1, <2>2, <2>3
<1>3. d \in DIRECTIVES /\ Matches(line, d) /\ e \in DIRECTIVES /\ Matches(line, e)
  BY DEF Matched
<1>4. /\ line[1] = d.words[1] /\ (Len(d.words) = 2 => line[2] = d.words[2])
      /\ line[1] = e.words[1] /\ (Len(e.words) = 2 => line[2] = e.words[2])
  BY <1>2, <1>3
<1>5. /\ d.words[1] = e.words[1]
      /\ Len(d.words) = 2 /\ Len(e.words) = 2 => d.words[2] = e.words[2]
  BY <1>4
<1>6. \A x \in DIRECTIVES : \A y \in DIRECTIVES :
        /\ x.words[1] = y.words[1]
        /\ Len(x.words) = 2 /\ Len(y.words) = 2 => x.words[2] = y.words[2]
        => x.target = y.target
  BY DEF DIRECTIVES, Directive
<1> QED
  BY <1>3, <1>5, <1>6, TableOfDirectives

Extends(line) == file \in Seq(LineSet) /\ line \in LineSet /\ file' = Append(file, line)

LEMMA ExtendLines ==
    ASSUME NEW line, Extends(line)
    PROVE  /\ Here \in Nat /\ Here \notin Lines /\ Lines \subseteq Nat
           /\ \A i \in Lines : i < Here
           /\ Lines' = Lines \cup {Here}
           /\ \A i \in Lines : file'[i] = file[i] /\ file[i] \in LineSet
           /\ file'[Here] = line
<1>1. /\ Len(file) \in Nat /\ Len(file') = Len(file) + 1
      /\ \A i \in 1 .. Len(file) : file'[i] = file[i]
      /\ file'[Len(file) + 1] = line
  BY AppendTyped DEF Extends
<1>2. \A i \in 1 .. Len(file) : file[i] \in LineSet
  BY ElementOfSeq DEF Extends
<1> QED
  BY <1>1, <1>2 DEF Here, Lines

LEMMA ExtendIs ==
    ASSUME NEW line, Extends(line), NEW here, here = Here
    PROVE  /\ \A i \in Lines : \A t : Is(i, t)' <=> Is(i, t)
           /\ \A i \in Lines : Value(i)' = Value(i)
           /\ \A t : Is(here, t)' <=> Says(line, t)
           /\ Value(here)' = ValueOf(line, The(Matched(line)))
BY ExtendLines DEF Is, Value, Says

LEMMA ExtendNetworks ==
    ASSUME NEW line, Extends(line)
    PROVE  Networks' = Networks \cup {i \in {Here} : Says(line, "Network")}
<1> PICK here : here = Here
  OBVIOUS
<1>1. \A i : i \in Networks' <=> i \in Lines' /\ Is(i, "Network")'
  BY DEF Networks
<1>2. \A i : i \in Networks <=> i \in Lines /\ Is(i, "Network")
  BY DEF Networks
<1>3. \A i \in Lines : Is(i, "Network")' <=> Is(i, "Network")
  BY ExtendIs
<1>4. Is(here, "Network")' <=> Says(line, "Network")
  BY ExtendIs
<1> QED
  BY <1>1, <1>2, <1>3, <1>4, ExtendLines

\* A network line is the last one, so that the block is still open.
Last(m) == m \in Networks /\ \A k \in Networks : k <= m

LEMMA ExtendBlock ==
    ASSUME NEW line, Extends(line), NEW t
    PROVE  /\ \A m \in Networks :
                InBlock(m, t)' = InBlock(m, t) \cup {i \in {Here} : Says(line, t) /\ Last(m)}
           /\ \A m : m = Here => InBlock(m, t)' = {}
<1> PICK here : here = Here
  OBVIOUS
<1>1. /\ here \in Nat /\ Lines \subseteq Nat /\ \A i \in Lines : i < here
      /\ Lines' = Lines \cup {here} /\ Networks \subseteq Lines
      /\ Networks \subseteq Networks' /\ Networks' \subseteq Networks \cup {here}
  BY ExtendLines, ExtendNetworks DEF Networks
<1>2. \A i \in Lines : Is(i, t)' <=> Is(i, t)
  BY ExtendIs
<1>3. Is(here, t)' <=> Says(line, t)
  BY ExtendIs
<1>4. ASSUME NEW m, NEW i
      PROVE  /\ i \in InBlock(m, t)' <=> /\ i \in Lines' /\ i > m /\ Is(i, t)'
                                         /\ ~ \E k \in Networks' : m < k /\ k < i
             /\ i \in InBlock(m, t) <=> /\ i \in Lines /\ i > m /\ Is(i, t)
                                        /\ ~ \E k \in Networks : m < k /\ k < i
  BY DEF InBlock
<1>5. ASSUME NEW m \in Networks, NEW i \in Lines
      PROVE  i \in InBlock(m, t)' <=> i \in InBlock(m, t)
  <2>1. (\E k \in Networks' : m < k /\ k < i) <=> (\E k \in Networks : m < k /\ k < i)
    <3>1. ~ (here < i)
      BY <1>1
    <3> QED
      BY <1>1, <3>1
  <2> QED
    BY <1>1, <1>2, <1>4, <2>1
<1>6. ASSUME NEW m \in Networks
      PROVE  here \in InBlock(m, t)' <=> Says(line, t) /\ Last(m)
  <2>1. (\E k \in Networks' : m < k /\ k < here) <=> (\E k \in Networks : m < k)
    BY <1>1
  <2>2. here > m /\ here \in Lines'
    BY <1>1
  <2>3. Last(m) <=> ~ \E k \in Networks : m < k
    BY <1>1 DEF Last
  <2> QED
    BY <1>3, <1>4, <2>1, <2>2, <2>3
<1>7. ASSUME NEW m, NEW i, i \in InBlock(m, t)' \/ i \in InBlock(m, t)
      PROVE  i \in Lines \cup {here} /\ i > m
  BY <1>1, <1>4, <1>7
<1>8. here \notin Lines
  BY <1>1
<1>9. \A m : here \notin InBlock(m, t)
  BY <1>4, <1>8
<1>10. ASSUME NEW m \in Networks
       PROVE  InBlock(m, t)' = InBlock(m, t) \cup {i \in {here} : Says(line, t) /\ Last(m)}
  BY <1>5, <1>6, <1>7, <1>9
<1>11. InBlock(here, t)' = {}
  <2>1. \A i \in Lines \cup {here} : ~ (i > here)
    BY <1>1
  <2> QED
    BY <1>7, <2>1
<1> QED
  BY <1>10, <1>11

(***************************************************************************)
(* The part of FileOK that is about lines, and what a line must be for it  *)
(* to go on holding.                                                       *)
(***************************************************************************)
Alone(S) == \A i \in S : \A j \in S : i = j

OnceOnly(d) == d.scope = "Global" /\ d.target # "Ns"

WellFormed ==
    /\ \A i \in Lines : Skipped(file[i]) \/ IsFlag(file[i]) \/ Matched(file[i]) # {}
    /\ \A i \in Lines : PlacedOK(i)
    /\ \A i \in Lines : \A j \in Lines : \A d \in Matched(file[i]) \cap Matched(file[j]) :
         OnceOnly(d) => i = j
    /\ \A n \in Networks : \A t \in ZoneSlot : Alone(InBlock(n, t))

Fits(line) ==
    /\ Skipped(line) \/ IsFlag(line) \/ Matched(line) # {}
    /\ IsFlag(line) => Networks = {}
    /\ \A d \in Matched(line) : /\ d.scope = "Global" => Networks = {}
                                /\ d.scope = "Zone" => Networks # {}
                                /\ OnceOnly(d) => \A i \in Lines : d \notin Matched(file[i])
    /\ \A m \in Networks : \A t \in ZoneSlot : Says(line, t) /\ Last(m) => InBlock(m, t) = {}

LEMMA AloneCounts ==
    ASSUME NEW S, IsFiniteSet(S)
    PROVE  Cardinality(S) <= 1 <=> Alone(S)
<1>1. CASE S = {}
  BY <1>1, FS_EmptySet DEF Alone
<1>2. ASSUME NEW x \in S PROVE Cardinality(S) <= 1 <=> Alone(S)
  <2>1. /\ IsFiniteSet(S \ {x}) /\ Cardinality(S \ {x}) = Cardinality(S) - 1
        /\ Cardinality(S) \in Nat /\ Cardinality(S \ {x}) \in Nat
    BY FS_RemoveElement, FS_CardinalityType
  <2>2. Cardinality(S \ {x}) = 0 <=> S \ {x} = {}
    BY <2>1, FS_EmptySet
  <2>3. S \ {x} = {} <=> Alone(S)
    BY DEF Alone
  <2> QED
    BY <2>1, <2>2, <2>3
<1> QED
  BY <1>1, <1>2

\* Placement looks back only.
LEMMA ExtendPlaced ==
    ASSUME NEW line, Extends(line)
    PROVE  /\ \A i \in Lines : PlacedOK(i)' <=> PlacedOK(i)
           /\ \A i : i = Here =>
                (PlacedOK(i)' <=> /\ IsFlag(line) => Networks = {}
                                  /\ \A d \in Matched(line) :
                                       /\ d.scope = "Global" => Networks = {}
                                       /\ d.scope = "Zone" => Networks # {})
<1> PICK here : here = Here
  OBVIOUS
<1>1. /\ here \in Nat /\ Lines \subseteq Nat /\ \A i \in Lines : i < here
      /\ Lines' = Lines \cup {here} /\ Networks \subseteq Lines
      /\ Networks \subseteq Networks' /\ Networks' \subseteq Networks \cup {here}
      /\ \A i \in Lines : file'[i] = file[i]
      /\ file'[here] = line
  BY ExtendLines, ExtendNetworks DEF Networks
<1>2. ASSUME NEW i \in Lines
      PROVE  (\E n \in Networks' : n < i) <=> (\E n \in Networks : n < i)
  <2>1. ~ (here < i)
    BY <1>1
  <2> QED
    BY <1>1, <2>1
<1>3. (\E n \in Networks' : n < here) <=> Networks # {}
  <2>1. ~ (here < here)
    BY <1>1
  <2>2. \A n \in Networks' : n < here <=> n \in Networks
    BY <1>1, <2>1
  <2> QED
    BY <1>1, <2>2
<1>4. ASSUME NEW i \in Lines PROVE PlacedOK(i)' <=> PlacedOK(i)
  BY <1>1, <1>2 DEF PlacedOK
<1>5. PlacedOK(here)' <=> /\ IsFlag(line) => Networks = {}
                          /\ \A d \in Matched(line) : /\ d.scope = "Global" => Networks = {}
                                                      /\ d.scope = "Zone" => Networks # {}
  BY <1>1, <1>3 DEF PlacedOK
<1> QED
  BY <1>4, <1>5

LEMMA ExtendForm ==
    ASSUME NEW line, Extends(line)
    PROVE  WellFormed' <=> WellFormed /\ Fits(line)
<1> PICK here : here = Here
  OBVIOUS
<1>1. /\ here \in Nat /\ here \notin Lines /\ Lines' = Lines \cup {here}
      /\ \A i \in Lines : file'[i] = file[i]
      /\ file'[here] = line
  BY ExtendLines
<1> DEFINE Form(l) == Skipped(l) \/ IsFlag(l) \/ Matched(l) # {}
           Placed == /\ IsFlag(line) => Networks = {}
                     /\ \A d \in Matched(line) : /\ d.scope = "Global" => Networks = {}
                                                 /\ d.scope = "Zone" => Networks # {}
           Clash(k, l) == \E d \in Matched(k) \cap Matched(l) : OnceOnly(d)
<1>2. (\A i \in Lines' : Form(file'[i])) <=> (\A i \in Lines : Form(file[i])) /\ Form(line)
  <2> HIDE DEF Form
  <2> QED
    BY <1>1
<1>3. (\A i \in Lines' : PlacedOK(i)') <=> (\A i \in Lines : PlacedOK(i)) /\ Placed
  BY <1>1, ExtendPlaced
<1>4. (\A i \in Lines' : \A j \in Lines' : Clash(file'[i], file'[j]) => i = j)
        <=> /\ \A i \in Lines : \A j \in Lines : Clash(file[i], file[j]) => i = j
            /\ \A i \in Lines : ~ Clash(file[i], line)
  <2>1. \A k, l : Clash(k, l) <=> Clash(l, k)
    OBVIOUS
  <2> HIDE DEF Clash
  <2>2. ASSUME \A i \in Lines' : \A j \in Lines' : Clash(file'[i], file'[j]) => i = j
        PROVE  /\ \A i \in Lines : \A j \in Lines : Clash(file[i], file[j]) => i = j
               /\ \A i \in Lines : ~ Clash(file[i], line)
    BY <1>1, <2>2
  <2>3. ASSUME \A i \in Lines : \A j \in Lines : Clash(file[i], file[j]) => i = j,
               \A i \in Lines : ~ Clash(file[i], line),
               NEW i \in Lines', NEW j \in Lines', Clash(file'[i], file'[j])
        PROVE  i = j
    BY <1>1, <2>1, <2>3
  <2> QED
    BY <2>2, <2>3
<1>5. ASSUME NEW t \in ZoneSlot
      PROVE  (\A m \in Networks' : Alone(InBlock(m, t)'))
               <=> /\ \A m \in Networks : Alone(InBlock(m, t))
                   /\ \A m \in Networks : Says(line, t) /\ Last(m) => InBlock(m, t) = {}
  <2>1. ASSUME NEW m \in Networks
        PROVE  Alone(InBlock(m, t)')
                 <=> Alone(InBlock(m, t)) /\ (Says(line, t) /\ Last(m) => InBlock(m, t) = {})
    <3>1. InBlock(m, t)' = InBlock(m, t) \cup {i \in {here} : Says(line, t) /\ Last(m)}
      BY ExtendBlock
    <3>2. here \notin InBlock(m, t)
      BY <1>1 DEF InBlock
    <3> QED
      BY <3>1, <3>2 DEF Alone
  <2>2. here \in Networks' => Alone(InBlock(here, t)')
    BY ExtendBlock DEF Alone
  <2>3. Networks \subseteq Networks' /\ Networks' \subseteq Networks \cup {here}
    BY ExtendNetworks
  <2> QED
    BY <2>1, <2>2, <2>3
<1>6. WellFormed' <=> /\ \A i \in Lines' : Form(file'[i])
                      /\ \A i \in Lines' : PlacedOK(i)'
                      /\ \A i \in Lines' : \A j \in Lines' : Clash(file'[i], file'[j]) => i = j
                      /\ \A t \in ZoneSlot : \A m \in Networks' : Alone(InBlock(m, t)')
  BY DEF WellFormed
<1>7. WellFormed <=> /\ \A i \in Lines : Form(file[i])
                     /\ \A i \in Lines : PlacedOK(i)
                     /\ \A i \in Lines : \A j \in Lines : Clash(file[i], file[j]) => i = j
                     /\ \A t \in ZoneSlot : \A m \in Networks : Alone(InBlock(m, t))
  BY DEF WellFormed
<1>8. Fits(line) <=> /\ Form(line) /\ Placed
                     /\ \A i \in Lines : ~ Clash(file[i], line)
                     /\ \A t \in ZoneSlot : \A m \in Networks :
                          Says(line, t) /\ Last(m) => InBlock(m, t) = {}
  BY DEF Fits
<1> HIDE DEF Form, Placed, Clash
<1> QED
  BY <1>2, <1>3, <1>4, <1>5, <1>6, <1>7, <1>8

(***************************************************************************)
(* What parse makes of a well-formed file: every value where its line puts *)
(* it, and one zone for every block.                                       *)
(***************************************************************************)
ValueAt(i) == [line |-> i, value |-> Value(i)]

ListenLines == {i \in Lines : Is(i, "Listen")}

GlobalLines == {i \in Lines : IsFlag(file[i]) \/ \E d \in Matched(file[i]) : d.scope = "Global"}

GlobalAt(i) == IF IsFlag(file[i]) THEN [key |-> "RrlOff", value |-> [line |-> i, value |-> <<>>]]
               ELSE [key |-> The(Matched(file[i])).target, value |-> ValueAt(i)]

ListenFaithful == RangeOf(raw.listen) = {ValueAt(i) : i \in ListenLines}

GlobalsFaithful == RangeOf(raw.globals) = {GlobalAt(i) : i \in GlobalLines}

NetworksTo(m) == {j \in Networks : j <= m}

ZoneFaithful(z, k) ==
    /\ z.network.line \in Networks
    /\ z.network = ValueAt(z.network.line)
    /\ Cardinality(NetworksTo(z.network.line)) = k
    /\ \A t \in ZoneSlot : z[t] = {ValueAt(i) : i \in InBlock(z.network.line, t)}

ZonesFaithful ==
    /\ Len(raw.zones) = Cardinality(Networks)
    /\ \A m \in Networks : \E k \in 1 .. Len(raw.zones) : raw.zones[k].network.line = m
    /\ raw.zones # <<>> => Last(raw.zones[Len(raw.zones)].network.line)
    /\ \A k \in 1 .. Len(raw.zones) : ZoneFaithful(raw.zones[k], k)

Faithful == ListenFaithful /\ GlobalsFaithful /\ ZonesFaithful

LEMMA TheMatch ==
    ASSUME NEW line \in LineSet, NEW d \in Matched(line)
    PROVE  Matched(line) = {d} /\ The(Matched(line)) = d
<1>1. Matched(line) = {d}
  BY OneMatch
<1> QED
  BY <1>1, TheOnly

LEMMA ExtendValueAt ==
    ASSUME NEW line, Extends(line), NEW here, here = Here
    PROVE  /\ \A i \in Lines : ValueAt(i)' = ValueAt(i)
           /\ \A d \in Matched(line) : ValueAt(here)' = RawValue(ValueOf(line, d))
<1>1. \A i \in Lines : ValueAt(i)' = ValueAt(i)
  BY ExtendIs DEF ValueAt
<1>2. ASSUME NEW d \in Matched(line) PROVE ValueAt(here)' = RawValue(ValueOf(line, d))
  <2>1. Value(here)' = ValueOf(line, d)
    BY ExtendIs, TheMatch DEF Extends
  <2> QED
    BY <2>1 DEF ValueAt, RawValue
<1> QED
  BY <1>1, <1>2

\* A line that is no listen line leaves those, one that is adds its value.
LEMMA ListenSame ==
    ASSUME NEW line, Extends(line), ListenFaithful, ~ Says(line, "Listen"), raw'.listen = raw.listen
    PROVE  ListenFaithful'
<1> PICK here : here = Here
  OBVIOUS
<1>1. Lines' = Lines \cup {here} /\ here \notin Lines
  BY ExtendLines
<1>2. /\ \A i \in Lines : Is(i, "Listen")' <=> Is(i, "Listen")
      /\ ~ Is(here, "Listen")'
  BY ExtendIs
<1>3. ListenLines' = ListenLines /\ ListenLines \subseteq Lines
  BY <1>1, <1>2 DEF ListenLines
<1>4. \A i \in ListenLines : ValueAt(i)' = ValueAt(i)
  BY <1>3, ExtendValueAt
<1> QED
  BY <1>3, <1>4 DEF ListenFaithful

LEMMA ListenMore ==
    ASSUME NEW line, Extends(line), Parsed, ListenFaithful, NEW d \in Matched(line),
           d.target = "Listen",
           raw'.listen = Append(raw.listen, RawValue(ValueOf(line, d)))
    PROVE  ListenFaithful'
<1> PICK here : here = Here
  OBVIOUS
<1> DEFINE v == RawValue(ValueOf(line, d))
<1>1. Lines' = Lines \cup {here} /\ here \notin Lines
  BY ExtendLines
<1>2. /\ \A i \in Lines : Is(i, "Listen")' <=> Is(i, "Listen")
      /\ Is(here, "Listen")'
  BY ExtendIs DEF Says
<1>3. ListenLines' = ListenLines \cup {here} /\ ListenLines \subseteq Lines
  BY <1>1, <1>2 DEF ListenLines
<1>4. \A i \in ListenLines : ValueAt(i)' = ValueAt(i)
  BY <1>3, ExtendValueAt
<1>5. ValueAt(here)' = v
  BY ExtendValueAt
<1>6. raw.listen \in Seq(ValuesTo(Len(file)) \cup {v})
  <2>1. raw.listen \in Seq(ValuesTo(Len(file)))
    BY HereTyped, RawParts DEF Parsed
  <2> QED
    BY <2>1, SeqGrows
<1> HIDE DEF v
<1>7. RangeOf(raw'.listen) = RangeOf(raw.listen) \cup {v}
  BY <1>6, RangeAppend DEF v
<1> QED
  BY <1>3, <1>4, <1>5, <1>7 DEF ListenFaithful

\* The same of global settings.
LEMMA ExtendGlobalAt ==
    ASSUME NEW line, Extends(line), NEW here, here = Here
    PROVE  /\ \A i \in Lines : GlobalAt(i)' = GlobalAt(i)
           /\ IsFlag(line) =>
                GlobalAt(here)' = [key |-> "RrlOff", value |-> RawValue(<<>>)]
           /\ \A d \in Matched(line) :
                GlobalAt(here)' = [key |-> d.target, value |-> RawValue(ValueOf(line, d))]
<1>1. /\ \A i \in Lines : file'[i] = file[i]
      /\ file'[here] = line
  BY ExtendLines
<1>2. \A i \in Lines : GlobalAt(i)' = GlobalAt(i)
  BY <1>1, ExtendValueAt DEF GlobalAt
<1>3. IsFlag(line) => GlobalAt(here)' = [key |-> "RrlOff", value |-> RawValue(<<>>)]
  BY <1>1 DEF GlobalAt, RawValue
<1>4. ASSUME NEW d \in Matched(line)
      PROVE  GlobalAt(here)' = [key |-> d.target, value |-> RawValue(ValueOf(line, d))]
  <2>1. ~ IsFlag(line)
    BY DEF Matched
  <2>2. The(Matched(line)) = d
    BY TheMatch DEF Extends
  <2>3. ValueAt(here)' = RawValue(ValueOf(line, d))
    BY ExtendValueAt
  <2> QED
    BY <1>1, <2>1, <2>2, <2>3 DEF GlobalAt
<1> QED
  BY <1>2, <1>3, <1>4

LEMMA GlobalsSame ==
    ASSUME NEW line, Extends(line), GlobalsFaithful, ~ IsFlag(line),
           \A d \in Matched(line) : d.scope # "Global", raw'.globals = raw.globals
    PROVE  GlobalsFaithful'
<1> PICK here : here = Here
  OBVIOUS
<1>1. /\ Lines' = Lines \cup {here} /\ here \notin Lines
      /\ \A i \in Lines : file'[i] = file[i]
      /\ file'[here] = line
  BY ExtendLines
<1>2. GlobalLines' = GlobalLines /\ GlobalLines \subseteq Lines
  BY <1>1 DEF GlobalLines
<1>3. \A i \in GlobalLines : GlobalAt(i)' = GlobalAt(i)
  BY <1>2, ExtendGlobalAt
<1> QED
  BY <1>2, <1>3 DEF GlobalsFaithful

LEMMA GlobalsMore ==
    ASSUME NEW line, Extends(line), Parsed, GlobalsFaithful,
           IsFlag(line) \/ \E d \in Matched(line) : d.scope = "Global",
           NEW g, \A i : i = Here => g = GlobalAt(i)',
           raw'.globals = Append(raw.globals, g)
    PROVE  GlobalsFaithful'
<1> PICK here : here = Here
  OBVIOUS
<1>1. /\ Lines' = Lines \cup {here} /\ here \notin Lines
      /\ \A i \in Lines : file'[i] = file[i]
      /\ file'[here] = line
  BY ExtendLines
<1>2. GlobalLines' = GlobalLines \cup {here} /\ GlobalLines \subseteq Lines
  BY <1>1 DEF GlobalLines
<1>3. \A i \in GlobalLines : GlobalAt(i)' = GlobalAt(i)
  BY <1>2, ExtendGlobalAt
<1>4. GlobalAt(here)' = g
  OBVIOUS
<1>5. raw.globals \in Seq(GlobalsTo(Len(file)) \cup {g})
  <2>1. raw.globals \in Seq(GlobalsTo(Len(file)))
    BY HereTyped, RawParts DEF Parsed
  <2> QED
    BY <2>1, SeqGrows
<1>6. RangeOf(raw'.globals) = RangeOf(raw.globals) \cup {g}
  BY <1>5, RangeAppend
<1> QED
  BY <1>2, <1>3, <1>4, <1>6 DEF GlobalsFaithful

\* A zone stays what its block says when the line is not one of its own.
LEMMA ZoneKept ==
    ASSUME NEW line, Extends(line), NEW z, NEW k, ZoneFaithful(z, k),
           \A t \in ZoneSlot : ~ (Says(line, t) /\ Last(z.network.line))
    PROVE  ZoneFaithful(z, k)'
<1> PICK here : here = Here
  OBVIOUS
<1> DEFINE m == z.network.line
<1>1. /\ here \in Nat /\ Lines \subseteq Nat /\ \A i \in Lines : i < here
      /\ Networks \subseteq Lines
      /\ Networks \subseteq Networks' /\ Networks' \subseteq Networks \cup {here}
  BY ExtendLines, ExtendNetworks DEF Networks
<1>2. m \in Networks /\ m \in Networks' /\ m \in Lines /\ m \in Nat
  BY <1>1 DEF ZoneFaithful
<1>3. ValueAt(m)' = ValueAt(m)
  BY <1>2, ExtendValueAt
<1>4. NetworksTo(m)' = NetworksTo(m)
  <2>1. ~ (here <= m)
    BY <1>1, <1>2
  <2> QED
    BY <1>1, <2>1 DEF NetworksTo
<1>5. ASSUME NEW t \in ZoneSlot
      PROVE  z[t] = {ValueAt(i)' : i \in InBlock(m, t)'}
  <2>0. PICK n \in Networks : n = m
    BY <1>2
  <2>1. InBlock(m, t)' = InBlock(m, t)
    <3>1. InBlock(n, t)' = InBlock(n, t) \cup {i \in {Here} : Says(line, t) /\ Last(n)}
      BY ExtendBlock
    <3> QED
      BY <2>0, <3>1
  <2>2. InBlock(m, t) \subseteq Lines
    BY DEF InBlock
  <2>3. \A i \in InBlock(m, t) : ValueAt(i)' = ValueAt(i)
    BY <2>2, ExtendValueAt
  <2>4. z[t] = {ValueAt(i) : i \in InBlock(m, t)}
    BY DEF ZoneFaithful
  <2> QED
    BY <2>1, <2>3, <2>4
<1>6. z.network = ValueAt(m)' /\ Cardinality(NetworksTo(m)') = k
  BY <1>3, <1>4 DEF ZoneFaithful
<1> QED
  BY <1>2, <1>5, <1>6 DEF ZoneFaithful

LEMMA ZonesSame ==
    ASSUME NEW line, Extends(line), ZonesFaithful, ~ Says(line, "Network"),
           \A t \in ZoneSlot : ~ Says(line, t), raw'.zones = raw.zones
    PROVE  ZonesFaithful'
<1>1. Networks' = Networks
  BY ExtendNetworks
<1>2. \A m : Last(m)' <=> Last(m)
  BY <1>1 DEF Last
<1>3. \A k \in 1 .. Len(raw.zones) : ZoneFaithful(raw.zones[k], k)'
  <2> TAKE k \in 1 .. Len(raw.zones)
  <2> PICK z : z = raw.zones[k]
    OBVIOUS
  <2>1. ZoneFaithful(z, k)
    BY DEF ZonesFaithful
  <2>2. ZoneFaithful(z, k)'
    BY <2>1, ZoneKept
  <2> QED
    BY <2>2
<1> QED
  BY <1>1, <1>2, <1>3 DEF ZonesFaithful

LEMMA FewNetworks == ASSUME Parsed PROVE IsFiniteSet(Networks) /\ Networks \subseteq Nat
<1>1. Len(file) \in Nat
  BY HereTyped
<1>2. IsFiniteSet(1 .. Len(file))
  BY <1>1, FS_Interval
<1> QED
  BY <1>1, <1>2, FS_Subset DEF Networks, Lines

LEMMA ZonesOpened ==
    ASSUME NEW line, Extends(line), Parsed, ZonesFaithful, NEW d \in Matched(line),
           d.target = "Network", NEW z, z = Opened(RawValue(ValueOf(line, d))),
           raw'.zones = Append(raw.zones, z)
    PROVE  ZonesFaithful'
<1> PICK here : here = Here
  OBVIOUS
<1> DEFINE l == Len(raw.zones)
<1>1. /\ here \in Nat /\ Lines \subseteq Nat /\ \A i \in Lines : i < here
      /\ Networks \subseteq Lines /\ here \notin Networks
  BY ExtendLines DEF Networks
<1>2. Networks' = Networks \cup {here}
  BY ExtendNetworks DEF Says
<1>3. \A t \in ZoneSlot : ~ Says(line, t)
  BY OneMatch DEF Says, ZoneSlot, Extends
<1>4. raw.zones \in Seq(ZonesTo(Len(file)) \cup {z})
  <2>1. raw.zones \in Seq(ZonesTo(Len(file)))
    BY HereTyped, RawParts DEF Parsed
  <2> QED
    BY <2>1, SeqGrows
<1>5. /\ l \in Nat /\ Len(raw'.zones) = l + 1
      /\ \A k \in 1 .. l : raw'.zones[k] = raw.zones[k]
      /\ raw'.zones[l + 1] = z
  BY <1>4, AppendTyped
<1>6. \A k \in 1 .. l + 1 : k \in 1 .. l \/ k = l + 1
  BY <1>5
<1>7. 1 .. l \subseteq 1 .. l + 1 /\ l + 1 \in 1 .. l + 1
  BY <1>5
<1>8. z.network = ValueAt(here)' /\ z.network.line = here
      /\ z["resolves_to"] = {} /\ z["upstream"] = {}
  <2>1. ValueAt(here)' = RawValue(ValueOf(line, d))
    BY ExtendValueAt
  <2> QED
    BY <2>1 DEF Opened, RawValue
<1>9. Cardinality(Networks') = l + 1
  <2>1. IsFiniteSet(Networks) /\ Cardinality(Networks) = l
    BY FewNetworks DEF ZonesFaithful
  <2> QED
    BY <1>1, <1>2, <2>1, FS_AddElement
<1>10. \A j \in Networks' : j <= here
  BY <1>1, <1>2
<1>11. NetworksTo(here)' = Networks'
  BY <1>10 DEF NetworksTo
<1>12. \A t \in ZoneSlot : z[t] = {} /\ InBlock(here, t)' = {}
  BY <1>8, ExtendBlock DEF ZoneSlot
<1>13. \A k : k = l + 1 => ZoneFaithful(z, k)'
  BY <1>2, <1>8, <1>9, <1>11, <1>12 DEF ZoneFaithful
<1>14. ASSUME NEW k \in 1 .. l PROVE ZoneFaithful(raw.zones[k], k)'
  <2> PICK y : y = raw.zones[k]
    OBVIOUS
  <2>1. ZoneFaithful(y, k)
    BY DEF ZonesFaithful
  <2>2. ZoneFaithful(y, k)'
    BY <1>3, <2>1, ZoneKept
  <2> QED
    BY <1>5, <2>2
<1>15. \A k \in 1 .. l + 1 : ZoneFaithful(raw.zones[k], k)'
  BY <1>5, <1>6, <1>13, <1>14
<1>16. \A m \in Networks' : \E k \in 1 .. l + 1 : raw'.zones[k].network.line = m
  <2>1. \A m \in Networks : \E k \in 1 .. l : raw.zones[k].network.line = m
    BY DEF ZonesFaithful
  <2>2. ASSUME NEW m \in Networks PROVE \E k \in 1 .. l + 1 : raw'.zones[k].network.line = m
    BY <1>5, <1>7, <2>1
  <2>3. raw'.zones[l + 1].network.line = here
    BY <1>5, <1>8
  <2> QED
    BY <1>2, <1>7, <2>2, <2>3
<1>17. Last(here)'
  BY <1>2, <1>10 DEF Last
<1>18. raw'.zones[Len(raw'.zones)].network.line = here
  BY <1>5, <1>8
<1> QED
  BY <1>5, <1>9, <1>15, <1>16, <1>17, <1>18 DEF ZonesFaithful

\* The zone at k belongs to the open block only if it is the last.
LEMMA LastIsLast ==
    ASSUME Parsed, ZonesFaithful, NEW k \in 1 .. Len(raw.zones), Last(raw.zones[k].network.line)
    PROVE  k = Len(raw.zones)
<1> DEFINE l == Len(raw.zones)
           m == raw.zones[k].network.line
<1>1. Networks \subseteq Nat /\ m \in Networks
  BY FewNetworks DEF Last
<1>2. NetworksTo(m) = Networks
  BY <1>1 DEF Last, NetworksTo
<1>3. ZoneFaithful(raw.zones[k], k) /\ Cardinality(Networks) = l
  BY DEF ZonesFaithful
<1>4. Cardinality(NetworksTo(m)) = k
  BY <1>3 DEF ZoneFaithful
<1> QED
  BY <1>2, <1>3, <1>4

LEMMA ZonesFilled ==
    ASSUME NEW line, Extends(line), Parsed, ZonesFaithful, NEW d \in Matched(line),
           d.target \in ZoneSlot, NEW l, l = Len(raw.zones), l \in 1 .. Len(raw.zones),
           NEW v, v = RawValue(ValueOf(line, d)),
           Filled(raw, raw', l, d.target, v)
    PROVE  ZonesFaithful'
<1> PICK here : here = Here
  OBVIOUS
<1>1. /\ Len(raw'.zones) = l
      /\ \A j \in 1 .. l : j # l => raw'.zones[j] = raw.zones[j]
      /\ raw.zones[l][d.target] = {}
      /\ raw'.zones[l] = [raw.zones[l] EXCEPT ![d.target] = {v}]
  BY DEF Filled
<1>2. \A t : Says(line, t) <=> t = d.target
  BY OneMatch DEF Says, Extends
<1>3. Networks' = Networks
  BY <1>2, ExtendNetworks DEF ZoneSlot
<1>4. PICK z : z = raw.zones[l]
  OBVIOUS
<1>5. PICK y : y = raw'.zones[l]
  OBVIOUS
<1>6. z \in ZonesTo(Len(file))
  BY <1>4, HereTyped, RawParts DEF Parsed
<1>7. y.network = z.network /\ y[d.target] = {v} /\ \A t \in ZoneSlot : t # d.target => y[t] = z[t]
  BY <1>1, <1>4, <1>5, <1>6 DEF ZonesTo, ZoneSlot
<1>8. ZoneFaithful(z, l)
  BY <1>4 DEF ZonesFaithful
<1>9. PICK m \in Networks : m = z.network.line
  BY <1>8 DEF ZoneFaithful
<1>10. Last(m)
  <2>1. raw.zones # <<>>
    <3>1. Len(raw.zones) # 0
      OBVIOUS
    <3> QED
      BY <3>1
  <2> QED
    BY <1>4, <1>9, <2>1 DEF ZonesFaithful
<1>11. m \in Lines
  BY DEF Networks
<1>12. ValueAt(m)' = ValueAt(m) /\ NetworksTo(m)' = NetworksTo(m)
  BY <1>3, <1>11, ExtendValueAt DEF NetworksTo
<1>13. ASSUME NEW t \in ZoneSlot
       PROVE  y[t] = {ValueAt(i)' : i \in InBlock(m, t)'}
  <2>1. z[t] = {ValueAt(i) : i \in InBlock(m, t)}
    BY <1>8, <1>9 DEF ZoneFaithful
  <2>2. InBlock(m, t)' = InBlock(m, t) \cup {i \in {here} : Says(line, t) /\ Last(m)}
    <3>1. InBlock(m, t)' = InBlock(m, t) \cup {i \in {Here} : Says(line, t) /\ Last(m)}
      BY ExtendBlock, SMTT(30)
    <3> QED
      BY <3>1
  <2>3. \A i \in InBlock(m, t) : ValueAt(i)' = ValueAt(i)
    BY ExtendValueAt DEF InBlock
  <2>4. CASE t = d.target
    <3>0. z[t] = {}
      BY <1>1, <1>4, <2>4
    <3>1. InBlock(m, t) = {}
      BY <2>1, <3>0
    <3>2. InBlock(m, t)' = {here}
      BY <1>2, <1>10, <2>2, <2>4, <3>1
    <3>3. ValueAt(here)' = v
      BY ExtendValueAt
    <3> QED
      BY <1>7, <2>4, <3>2, <3>3
  <2>5. CASE t # d.target
    <3>1. InBlock(m, t)' = InBlock(m, t)
      BY <1>2, <2>2, <2>5
    <3> QED
      BY <1>7, <2>1, <2>3, <2>5, <3>1
  <2> QED
    BY <2>4, <2>5
<1>14. ZoneFaithful(y, l)'
  BY <1>3, <1>7, <1>8, <1>9, <1>12, <1>13 DEF ZoneFaithful
<1>15. ASSUME NEW k \in 1 .. l, k # l PROVE ZoneFaithful(raw.zones[k], k)'
  <2> PICK x : x = raw.zones[k]
    OBVIOUS
  <2>1. ZoneFaithful(x, k)
    BY DEF ZonesFaithful
  <2>2. ~ Last(x.network.line)
    BY <1>15, LastIsLast
  <2>3. ZoneFaithful(x, k)'
    BY <2>1, <2>2, ZoneKept
  <2> QED
    BY <1>1, <1>15, <2>3
<1>16. \A k \in 1 .. l : ZoneFaithful(raw.zones[k], k)'
  BY <1>5, <1>14, <1>15
<1>17. \A k \in 1 .. l : raw'.zones[k].network = raw.zones[k].network
  BY <1>1, <1>4, <1>5, <1>7
<1>18. \A k : Last(k)' <=> Last(k)
  BY <1>3 DEF Last
<1>19. \A k \in Networks : \E j \in 1 .. l : raw'.zones[j].network.line = k
  BY <1>17 DEF ZonesFaithful
<1>20. Last(raw'.zones[l].network.line)
  BY <1>4, <1>5, <1>7, <1>9, <1>10
<1>21. Cardinality(Networks) = l
  BY DEF ZonesFaithful
<1> QED
  BY <1>1, <1>3, <1>16, <1>18, <1>19, <1>20, <1>21 DEF ZonesFaithful

(***************************************************************************)
(* A line is recorded if it fits the lines before it, and reported if not. *)
(***************************************************************************)
LEMMA NoZonesYet ==
    ASSUME Parsed, Faithful
    PROVE  raw.zones = <<>> <=> Networks = {}
<1>1. Len(raw.zones) = Cardinality(Networks)
  BY DEF Faithful, ZonesFaithful
<1>2. IsFiniteSet(Networks)
  BY FewNetworks
<1>3. Cardinality(Networks) = 0 <=> Networks = {}
  BY <1>2, FS_EmptySet
<1>4. Len(raw.zones) = 0 <=> raw.zones = <<>>
  <2>1. raw.zones \in Seq(ZonesTo(Len(file)))
    BY HereTyped, RawParts DEF Parsed
  <2> QED
    BY <2>1, EmptySeq
<1> QED
  BY <1>1, <1>3, <1>4

LEMMA FlagOrDirective ==
    ASSUME NEW line
    PROVE  /\ IsFlag(line) => ~ Skipped(line) /\ Matched(line) = {}
           /\ Skipped(line) => Matched(line) = {}
<1>1. \A f \in FLAGS : f.words # <<>> /\ f.words[1] \notin Comment
  BY CommentAssumption DEF FLAGS, Directive
<1>2. IsFlag(line) => line # <<>> /\ line[1] \notin Comment
  BY <1>1 DEF IsFlag
<1> QED
  BY <1>2 DEF Matched, Skipped

\* The parts of Faithful that a line does not touch.
LEMMA Untouched ==
    ASSUME NEW line, Extends(line), Faithful
    PROVE  /\ ~ Says(line, "Listen") /\ raw'.listen = raw.listen => ListenFaithful'
           /\ /\ ~ IsFlag(line) /\ raw'.globals = raw.globals
              /\ \A d \in Matched(line) : d.scope # "Global"
              => GlobalsFaithful'
           /\ /\ ~ Says(line, "Network") /\ \A t \in ZoneSlot : ~ Says(line, t)
              /\ raw'.zones = raw.zones
              => ZonesFaithful'
BY ListenSame, GlobalsSame, ZonesSame DEF Faithful

LEMMA SkipAgrees ==
    ASSUME NEW line, Extends(line), Parsed, Faithful, SkipLine(line)
    PROVE  Fits(line) /\ Faithful'
<1>1. Matched(line) = {} /\ ~ IsFlag(line) /\ Skipped(line) /\ raw' = raw
  BY FlagOrDirective DEF SkipLine
<1>2. \A t : ~ Says(line, t)
  BY <1>1 DEF Says
<1>3. Fits(line)
  BY <1>1, <1>2 DEF Fits
<1> QED
  BY <1>1, <1>2, <1>3, Untouched DEF Faithful

LEMMA FlagAgrees ==
    ASSUME NEW line, Extends(line), Parsed, Faithful, FlagLine(line)
    PROVE  \/ ~ Fits(line) /\ \E e : errors' = Append(errors, e)
           \/ Fits(line) /\ Faithful' /\ errors' = errors
<1>1. PICK f \in FLAGS :
        /\ line = f.words
        /\ IF raw.zones # <<>> THEN Report(line, "GlobalAfterNetwork", 0)
                               ELSE Record(line, PushGlobal(f.target, RawValue(<<>>)))
  BY DEF FlagLine
<1>2. IsFlag(line) /\ f.target = "RrlOff"
  BY <1>1 DEF IsFlag, FLAGS, Directive
<1>3. Matched(line) = {}
  BY <1>2, FlagOrDirective
<1>4. \A t : ~ Says(line, t)
  BY <1>3 DEF Says
<1>5. CASE raw.zones # <<>>
  <2>1. ~ Fits(line)
    BY <1>2, <1>5, NoZonesYet DEF Fits
  <2> QED
    BY <1>1, <1>5, <2>1 DEF Report
<1>6. CASE raw.zones = <<>>
  <2>1. Fits(line)
    BY <1>2, <1>3, <1>4, <1>6, NoZonesYet DEF Fits
  <2> DEFINE g == [key |-> "RrlOff", value |-> RawValue(<<>>)]
  <2>2. /\ raw' = [raw EXCEPT !.globals = Append(@, g)]
        /\ errors' = errors
    BY <1>1, <1>2, <1>6 DEF Record, PushGlobal
  <2>3. raw'.globals = Append(raw.globals, g) /\ raw'.listen = raw.listen /\ raw'.zones = raw.zones
    BY <2>2 DEF Parsed, RawTo
  <2>4. \A i : i = Here => g = GlobalAt(i)'
    BY <1>2, ExtendGlobalAt
  <2> HIDE DEF g
  <2>5. GlobalsFaithful'
    BY <1>2, <2>3, <2>4, GlobalsMore DEF Faithful
  <2>6. ListenFaithful' /\ ZonesFaithful'
    BY <1>4, <2>3, Untouched
  <2> QED
    BY <2>1, <2>2, <2>5, <2>6 DEF Faithful
<1> QED
  BY <1>5, <1>6

LEMMA UnmatchedAgrees ==
    ASSUME NEW line, UnmatchedLine(line)
    PROVE  ~ Fits(line) /\ \E e : errors' = Append(errors, e)
BY DEF UnmatchedLine, Fits, Report

LEMMA OutOfScopeAgrees ==
    ASSUME NEW line, Parsed, Faithful, OutOfScope(line)
    PROVE  ~ Fits(line) /\ \E e : errors' = Append(errors, e)
<1>1. PICK d \in Matched(line) : ~ InScope(d) /\ \E e : errors' = Append(errors, e)
  BY DEF OutOfScope, Report
<1>2. ~ Fits(line)
  BY <1>1, NoZonesYet DEF InScope, Fits
<1> QED
  BY <1>1, <1>2

\* What is said by a line with a directive.
LEMMA SaysOnly ==
    ASSUME NEW line \in LineSet, NEW d \in Matched(line)
    PROVE  /\ \A t : Says(line, t) <=> t = d.target
           /\ \A e \in Matched(line) : e = d
           /\ ~ IsFlag(line)
           /\ d \in DIRECTIVES
<1>1. \A e \in Matched(line) : e = d
  BY OneMatch
<1>2. \A t : Says(line, t) <=> t = d.target
  BY <1>1 DEF Says
<1>3. ~ IsFlag(line)
  BY FlagOrDirective
<1> QED
  BY <1>1, <1>2, <1>3, MatchedTyped

LEMMA AnywhereFits ==
    ASSUME NEW line \in LineSet, NEW d \in Matched(line), d.target \in {"Network", "Listen"}
    PROVE  Fits(line) /\ d.scope = "Anywhere"
<1>1. d.scope = "Anywhere" /\ d.target \notin ZoneSlot
  BY SaysOnly, TableOfDirectives DEF ZoneSlot
<1> QED
  BY <1>1, SaysOnly DEF Fits, OnceOnly

LEMMA ListenAgrees ==
    ASSUME NEW line, Extends(line), Parsed, Faithful, ListenLine(line)
    PROVE  Fits(line) /\ Faithful' /\ errors' = errors
<1>0. line \in LineSet
  BY DEF Extends
<1>1. PICK d \in Matched(line) :
        /\ d.target = "Listen"
        /\ Record(line, [raw EXCEPT !.listen = Append(@, RawValue(ValueOf(line, d)))])
  BY DEF ListenLine
<1>2. Fits(line) /\ d.scope = "Anywhere"
  BY <1>0, <1>1, AnywhereFits
<1>3. /\ raw'.listen = Append(raw.listen, RawValue(ValueOf(line, d)))
      /\ raw'.globals = raw.globals /\ raw'.zones = raw.zones /\ errors' = errors
  BY <1>1 DEF Record, Parsed, RawTo
<1>4. ListenFaithful'
  BY <1>1, <1>3, ListenMore DEF Faithful
<1>5. ~ Says(line, "Network") /\ \A t \in ZoneSlot : ~ Says(line, t)
  BY <1>0, <1>1, SaysOnly DEF ZoneSlot
<1>6. ~ IsFlag(line) /\ \A e \in Matched(line) : e.scope # "Global"
  BY <1>0, <1>2, SaysOnly
<1> QED
  BY <1>2, <1>3, <1>4, <1>5, <1>6, Untouched DEF Faithful

LEMMA NetworkAgrees ==
    ASSUME NEW line, Extends(line), Parsed, Faithful, NetworkLine(line)
    PROVE  Fits(line) /\ Faithful' /\ errors' = errors
<1>0. line \in LineSet
  BY DEF Extends
<1>1. PICK d \in Matched(line) :
        /\ d.target = "Network"
        /\ Record(line, [raw EXCEPT !.zones = Append(@, Opened(RawValue(ValueOf(line, d))))])
  BY DEF NetworkLine, Opened
<1>2. Fits(line) /\ d.scope = "Anywhere"
  BY <1>0, <1>1, AnywhereFits
<1>3. /\ raw'.zones = Append(raw.zones, Opened(RawValue(ValueOf(line, d))))
      /\ raw'.globals = raw.globals /\ raw'.listen = raw.listen /\ errors' = errors
  BY <1>1 DEF Record, Parsed, RawTo
<1>4. ZonesFaithful'
  BY <1>1, <1>3, ZonesOpened DEF Faithful
<1>5. ~ Says(line, "Listen")
  BY <1>0, <1>1, SaysOnly
<1>6. ~ IsFlag(line) /\ \A e \in Matched(line) : e.scope # "Global"
  BY <1>0, <1>2, SaysOnly
<1> QED
  BY <1>2, <1>3, <1>4, <1>5, <1>6, Untouched DEF Faithful

LEMMA ZoneAgrees ==
    ASSUME NEW line, Extends(line), Parsed, Faithful, ZoneLine(line)
    PROVE  \/ ~ Fits(line) /\ \E e : errors' = Append(errors, e)
           \/ Fits(line) /\ Faithful' /\ errors' = errors
<1>0. line \in LineSet
  BY DEF Extends
<1>1. PICK d \in Matched(line) :
        /\ InScope(d) /\ d.target \in ZoneSlot
        /\ LET slot == raw.zones[Len(raw.zones)][d.target]
           IN  \/ /\ slot = {}
                  /\ Record(line, [raw EXCEPT !.zones[Len(raw.zones)][d.target] =
                                     {RawValue(ValueOf(line, d))}])
               \/ \E first \in slot : Report(line, "DuplicateDirective", first.line)
  BY DEF ZoneLine
<1>2. /\ d.scope = "Zone" /\ ~ IsFlag(line) /\ d.target \notin {"Network", "Listen"}
      /\ \A t : Says(line, t) <=> t = d.target
      /\ \A e \in Matched(line) : e = d
  BY <1>0, <1>1, SaysOnly, TableOfDirectives DEF ZoneSlot
<1>3. raw.zones # <<>>
  BY <1>1, <1>2 DEF InScope
<1>4. PICK l : l = Len(raw.zones)
  OBVIOUS
<1>5. l \in 1 .. Len(raw.zones)
  BY <1>3, <1>4, LastZone
<1>6. PICK m \in Networks : m = raw.zones[l].network.line /\ Last(m)
  BY <1>3, <1>4 DEF Faithful, ZonesFaithful, Last
<1>7. raw.zones[l][d.target] = {ValueAt(i) : i \in InBlock(m, d.target)}
  BY <1>1, <1>5, <1>6 DEF Faithful, ZonesFaithful, ZoneFaithful
<1>8. CASE /\ raw.zones[l][d.target] = {}
           /\ Record(line, [raw EXCEPT !.zones[l][d.target] = {RawValue(ValueOf(line, d))}])
  <2>1. InBlock(m, d.target) = {}
    BY <1>7, <1>8
  <2>2. \A j \in Networks : Last(j) => j = m
    BY <1>6, FewNetworks DEF Last
  <2>3. Networks # {}
    BY <1>6
  <2>4. Fits(line)
    BY <1>2, <2>1, <2>2, <2>3 DEF Fits, OnceOnly
  <2>5. PICK v : v = RawValue(ValueOf(line, d))
    OBVIOUS
  <2>6. raw' = [raw EXCEPT !.zones[l][d.target] = {v}] /\ errors' = errors
    BY <1>8, <2>5 DEF Record
  <2>7. /\ raw'.listen = raw.listen /\ raw'.globals = raw.globals
        /\ raw'.zones = [raw.zones EXCEPT ![l] = [raw.zones[l] EXCEPT ![d.target] = {v}]]
    BY <2>6 DEF Parsed, RawTo
  <2>8. raw.zones \in Seq(ZonesTo(Len(file))) /\ Len(raw.zones) \in Nat
    BY HereTyped, RawParts DEF Parsed
  <2>9. Filled(raw, raw', l, d.target, v)
    BY <1>5, <1>8, <2>7, <2>8 DEF Filled
  <2>10. ZonesFaithful'
    BY <1>1, <1>4, <1>5, <2>5, <2>9, ZonesFilled DEF Faithful
  <2>11. ~ Says(line, "Listen") /\ \A e \in Matched(line) : e.scope # "Global"
    BY <1>2
  <2> QED
    BY <1>2, <2>4, <2>6, <2>7, <2>10, <2>11, Untouched DEF Faithful
<1>9. CASE \E first \in raw.zones[l][d.target] : Report(line, "DuplicateDirective", first.line)
  <2>1. InBlock(m, d.target) # {}
    BY <1>7, <1>9
  <2>2. ~ Fits(line)
    BY <1>1, <1>2, <1>6, <2>1 DEF Fits
  <2> QED
    BY <1>9, <2>2 DEF Report
<1> QED
  BY <1>1, <1>4, <1>8, <1>9

\* A setting given before is found under its key, and only then.
LEMMA EarlierMeans ==
    ASSUME Parsed, Faithful, NEW d \in DIRECTIVES, d.scope = "Global"
    PROVE  Earlier(d.target) # {} <=> \E i \in Lines : d \in Matched(file[i])
<1>0. \A i \in Lines : file[i] \in LineSet
  BY ElementOfSeq DEF Lines, Parsed
<1>1. Earlier(d.target) = {g \in {GlobalAt(i) : i \in GlobalLines} : g.key = d.target}
  BY DEF Faithful, GlobalsFaithful, Earlier, RangeOf
<1>2. ASSUME NEW i \in Lines, d \in Matched(file[i]) PROVE Earlier(d.target) # {}
  <2>1. ~ IsFlag(file[i]) /\ The(Matched(file[i])) = d
    BY <1>0, <1>2, TheMatch, SaysOnly
  <2>2. GlobalAt(i).key = d.target
    BY <2>1 DEF GlobalAt
  <2>3. i \in GlobalLines
    BY <1>2 DEF GlobalLines
  <2> QED
    BY <1>1, <2>2, <2>3
<1>3. ASSUME Earlier(d.target) # {} PROVE \E i \in Lines : d \in Matched(file[i])
  <2>1. PICK i \in GlobalLines : GlobalAt(i).key = d.target
    BY <1>1, <1>3
  <2>2. ~ IsFlag(file[i])
    BY <2>1, TableOfDirectives DEF GlobalAt
  <2>3. i \in Lines
    BY DEF GlobalLines
  <2>4. PICK e \in Matched(file[i]) : TRUE
    BY <2>2 DEF GlobalLines
  <2>5. e \in DIRECTIVES /\ The(Matched(file[i])) = e
    BY <1>0, <2>3, TheMatch, SaysOnly
  <2>6. e.target = d.target
    BY <2>1, <2>2, <2>5 DEF GlobalAt
  <2>7. e = d
    BY <2>5, <2>6, TableOfDirectives
  <2> QED
    BY <2>3, <2>4, <2>7
<1> QED
  BY <1>2, <1>3

LEMMA GlobalAgrees ==
    ASSUME NEW line, Extends(line), Parsed, Faithful, GlobalLine(line)
    PROVE  \/ ~ Fits(line) /\ \E e : errors' = Append(errors, e)
           \/ Fits(line) /\ Faithful' /\ errors' = errors
<1>0. line \in LineSet
  BY DEF Extends
<1>1. PICK d \in Matched(line) :
        /\ InScope(d) /\ d.scope = "Global"
        /\ \/ /\ d.target = "Ns" \/ Earlier(d.target) = {}
              /\ Record(line, PushGlobal(d.target, RawValue(ValueOf(line, d))))
           \/ /\ d.target # "Ns"
              /\ \E g \in Earlier(d.target) :
                    Report(line, "DuplicateDirective", g.value.line)
  BY DEF GlobalLine
<1>2. /\ d \in DIRECTIVES /\ ~ IsFlag(line)
      /\ \A t : Says(line, t) <=> t = d.target
      /\ \A e \in Matched(line) : e = d
  BY <1>0, <1>1, SaysOnly
<1>3. /\ ~ Says(line, "Listen") /\ ~ Says(line, "Network")
      /\ \A t \in ZoneSlot : ~ Says(line, t)
  BY <1>1, <1>2, TableOfDirectives
<1>4. Networks = {}
  BY <1>1, NoZonesYet DEF InScope
<1>5. Earlier(d.target) # {} <=> \E i \in Lines : d \in Matched(file[i])
  BY <1>1, <1>2, EarlierMeans
<1>6. CASE /\ d.target = "Ns" \/ Earlier(d.target) = {}
           /\ Record(line, PushGlobal(d.target, RawValue(ValueOf(line, d))))
  <2>1. OnceOnly(d) => \A i \in Lines : d \notin Matched(file[i])
    BY <1>5, <1>6 DEF OnceOnly
  <2>2. Fits(line)
    BY <1>1, <1>2, <1>3, <1>4, <2>1 DEF Fits
  <2>3. PICK g : g = [key |-> d.target, value |-> RawValue(ValueOf(line, d))]
    OBVIOUS
  <2>4. raw' = [raw EXCEPT !.globals = Append(@, g)] /\ errors' = errors
    BY <1>6, <2>3 DEF Record, PushGlobal
  <2>5. raw'.globals = Append(raw.globals, g) /\ raw'.listen = raw.listen /\ raw'.zones = raw.zones
    BY <2>4 DEF Parsed, RawTo
  <2>6. \A i : i = Here => g = GlobalAt(i)'
    BY <1>1, <2>3, ExtendGlobalAt
  <2>7. GlobalsFaithful'
    BY <1>1, <2>5, <2>6, GlobalsMore DEF Faithful
  <2>8. ListenFaithful' /\ ZonesFaithful'
    BY <1>3, <2>5, Untouched
  <2> QED
    BY <2>2, <2>4, <2>7, <2>8 DEF Faithful
<1>7. CASE /\ d.target # "Ns"
           /\ \E g \in Earlier(d.target) : Report(line, "DuplicateDirective", g.value.line)
  <2>1. ~ Fits(line)
    BY <1>1, <1>5, <1>7 DEF Fits, OnceOnly
  <2> QED
    BY <1>7, <2>1 DEF Report
<1> QED
  BY <1>1, <1>6, <1>7

\* What holds while lines are read: no error means a well-formed file, and
\* of a well-formed file the record is faithful.
Agreed == /\ errors = <<>> <=> WellFormed
          /\ WellFormed => Faithful

LEMMA ReadAgrees ==
    ASSUME Parsed, Agreed, ReadLine
    PROVE  Agreed'
<1>1. PICK line \in LineSet :
         \/ SkipLine(line) \/ FlagLine(line) \/ UnmatchedLine(line) \/ OutOfScope(line)
         \/ ListenLine(line) \/ NetworkLine(line) \/ ZoneLine(line) \/ GlobalLine(line)
  BY DEF ReadLine, NextLines
<1>2. Extends(line)
  BY <1>1 DEF Extends, Parsed, SkipLine, FlagLine, UnmatchedLine, OutOfScope, ListenLine,
     NetworkLine, ZoneLine, GlobalLine, Report, Record, Read
<1>3. errors' = errors \/ \E e : errors' = Append(errors, e)
  BY <1>1 DEF SkipLine, FlagLine, UnmatchedLine, OutOfScope, ListenLine,
     NetworkLine, ZoneLine, GlobalLine, Report, Record
<1>4. errors \in Seq(ErrorsTo(Len(file))) /\ \A e : Append(errors, e) # <<>>
  <2>1. errors \in Seq(ErrorsTo(Len(file)))
    BY DEF Parsed
  <2>2. ASSUME NEW e PROVE Append(errors, e) # <<>>
    <3>1. errors \in Seq(ErrorsTo(Len(file)) \cup {e})
      BY <2>1, SeqGrows
    <3>2. Len(Append(errors, e)) = Len(errors) + 1 /\ Len(errors) \in Nat
      BY <3>1, AppendTyped
    <3> QED
      BY <3>2
  <2> QED
    BY <2>1, <2>2
<1>5. WellFormed' <=> WellFormed /\ Fits(line)
  BY <1>2, ExtendForm
<1>6. CASE ~ WellFormed
  BY <1>3, <1>4, <1>5, <1>6 DEF Agreed
<1>7. CASE WellFormed
  <2>1. Faithful
    BY <1>7 DEF Agreed
  <2>2. \/ ~ Fits(line) /\ \E e : errors' = Append(errors, e)
        \/ Fits(line) /\ Faithful' /\ errors' = errors
    <3>1. CASE SkipLine(line)
      BY <1>2, <2>1, <3>1, SkipAgrees DEF SkipLine
    <3> QED
      BY <1>1, <1>2, <2>1, <3>1, FlagAgrees, UnmatchedAgrees, OutOfScopeAgrees, ListenAgrees,
         NetworkAgrees, ZoneAgrees, GlobalAgrees
  <2> QED
    BY <1>4, <1>5, <1>7, <2>2 DEF Agreed
<1> QED
  BY <1>6, <1>7

-----------------------------------------------------------------------------
(* The same of what compile makes of the record, stage by stage.           *)

ListenGood == \A v \in RangeOf(raw.listen) : ListenOK(v)

GlobalsGood == /\ \A g \in RangeOf(raw.globals) : GlobalOK(g)
               /\ Given("Primary") = {} <=> Given("Hostmaster") = {}

\* Zone k is acceptable by itself and repeats none before it.
ZoneGood(k) == /\ ZoneOK(Txt(k))
               /\ \A j \in 1 .. k - 1 : /\ Txt(j).network # Txt(k).network
                                        /\ Txt(j).resolves_to # Txt(k).resolves_to

GoodSoFar == /\ WellFormed
             /\ stage \in {"globals", "zones", "done"} => ListenGood
             /\ stage \in {"zones", "done"} => GlobalsGood
             /\ \A k \in 1 .. at - 1 : ZoneGood(k)

CompiledTo(n) == [k \in 1 .. n |-> compile_zone(Txt(k))]

\* As long as there is no error, every zone so far is compiled and remembered.
Remembered ==
    /\ zones = IF stage = "done" THEN SortByMask(CompiledTo(at - 1)) ELSE CompiledTo(at - 1)
    /\ \A j \in 1 .. at - 1 : /\ \E s \in seen_networks : s.key = Txt(j).network
                              /\ \E s \in seen_patterns : s.key = Txt(j).resolves_to

Agreeing == /\ WellFormed => Faithful
            /\ errors = <<>> <=> GoodSoFar
            /\ errors = <<>> => Remembered

LEMMA ConcatEmpty ==
    ASSUME NEW S, NEW s \in Seq(S), NEW t \in Seq(S)
    PROVE  s \o t = <<>> <=> s = <<>> /\ t = <<>>
<1>1. s \o t \in Seq(S) /\ Len(s \o t) = Len(s) + Len(t) /\ Len(s) \in Nat /\ Len(t) \in Nat
  BY ConcatProperties, LenProperties
<1> QED
  BY <1>1, EmptySeq

\* There are errors at a filtered list exactly if the filter leaves something.
LEMMA ErrorsAtEmpty ==
    ASSUME NEW n \in Nat, NEW T, NEW vec \in Seq(T), \A v \in T : v.line \in 1 .. n,
           NEW kind \in CompileErrors, NEW S \in SUBSET (1 .. Len(vec))
    PROVE  ErrorsAt(Filter(vec, S), kind) = <<>> <=> S = {}
<1>1. Filter(vec, S) \in Seq(T) /\ Len(Filter(vec, S)) = Cardinality(S)
  BY FilterMember
<1>2. PICK f \in Seq(T) : f = Filter(vec, S)
  BY <1>1
<1>3. ErrorsAt(f, kind) \in Seq(FaultsTo(n)) /\ Len(ErrorsAt(f, kind)) = Len(f)
  BY ErrorsAtTyped
<1>4. IsFiniteSet(S)
  <2>1. IsFiniteSet(1 .. Len(vec))
    BY LenProperties, FS_Interval
  <2> QED
    BY <2>1, FS_Subset
<1>5. Cardinality(S) = 0 <=> S = {}
  BY <1>4, FS_EmptySet
<1> QED
  BY <1>1, <1>2, <1>3, <1>5, EmptySeq

LEMMA ListenErrorsEmpty ==
    ASSUME Parsed
    PROVE  ErrorsAt(Filter(raw.listen, (1 .. Len(raw.listen)) \ GoodListen),
                    "InvalidListenAddress") = <<>> <=> ListenGood
<1> DEFINE S == (1 .. Len(raw.listen)) \ GoodListen
           n == Len(file)
<1>1. n \in Nat /\ raw.listen \in Seq(ValuesTo(n))
  BY HereTyped, RawParts DEF Parsed
<1>2. S \in SUBSET (1 .. Len(raw.listen))
  OBVIOUS
<1>3. \A v \in ValuesTo(n) : v.line \in 1 .. n
  BY DEF ValuesTo
<1>4. PICK kind \in CompileErrors : kind = "InvalidListenAddress"
  BY DEF CompileErrors
<1>5. S = {} <=> ListenGood
  BY DEF GoodListen, ListenGood, RangeOf
<1> QED
  BY <1>1, <1>2, <1>3, <1>4, <1>5, ErrorsAtEmpty

LEMMA GlobalErrorsEmpty ==
    ASSUME Parsed
    PROVE  GlobalErrors = <<>> <=> GlobalsGood
<1> DEFINE n == Len(file)
           bad == {i \in 1 .. Len(raw.globals) : ~ GlobalOK(raw.globals[i])}
           values == [i \in 1 .. Len(raw.globals) |-> raw.globals[i].value]
           T == [line : 1 .. n, value : Values \cup {<<>>}]
<1>1. /\ n \in Nat
      /\ Len(raw.globals) \in Nat
      /\ \A i \in 1 .. Len(raw.globals) : raw.globals[i] \in GlobalsTo(n)
  BY HereTyped, RawParts DEF Parsed
<1>2. \A i \in 1 .. Len(raw.globals) : raw.globals[i].value \in T
  BY <1>1 DEF GlobalsTo
<1>3. values \in Seq(T) /\ Len(values) = Len(raw.globals)
  BY <1>1, <1>2
<1>4. \A v \in T : v.line \in 1 .. n
  OBVIOUS
<1>5. bad \in SUBSET (1 .. Len(values))
  BY <1>3
<1>6. PICK kind \in CompileErrors : kind = "InvalidGlobal"
  BY DEF CompileErrors
<1>7. GlobalErrors = ErrorsAt(Filter(values, bad), kind) \o PairErrors
  BY <1>6 DEF GlobalErrors
<1>8. bad = {} <=> \A g \in RangeOf(raw.globals) : GlobalOK(g)
  BY DEF RangeOf
<1> HIDE DEF values, bad, T
<1>9. Filter(values, bad) \in Seq(T)
  BY <1>3, <1>5, FilterMember
<1>10. ErrorsAt(Filter(values, bad), kind) \in Seq(FaultsTo(n))
  BY <1>1, <1>4, <1>6, <1>9, ErrorsAtTyped
<1>11. ErrorsAt(Filter(values, bad), kind) = <<>> <=> bad = {}
  BY <1>1, <1>3, <1>4, <1>5, <1>6, ErrorsAtEmpty
<1>12. PairErrors = <<>> <=> (Given("Primary") = {} <=> Given("Hostmaster") = {})
  BY DEF PairErrors
<1>13. GlobalErrors = <<>> <=> bad = {} /\ PairErrors = <<>>
  BY <1>7, <1>10, <1>11, PairErrorsTyped, ConcatEmpty
<1> QED
  BY <1>8, <1>12, <1>13 DEF GlobalsGood

\* Compiling leaves the file and its record alone.
LEMMA FormKept ==
    ASSUME UNCHANGED <<file, raw>>
    PROVE  /\ WellFormed' <=> WellFormed
           /\ Faithful' <=> Faithful
           /\ ListenGood' <=> ListenGood
           /\ GlobalsGood' <=> GlobalsGood
           /\ \A k : Txt(k)' = Txt(k) /\ (ZoneGood(k)' <=> ZoneGood(k)) /\ CompiledTo(k)' = CompiledTo(k)
<1>1. WellFormed' <=> WellFormed
  BY DEF WellFormed, Lines, PlacedOK, Networks, InBlock, Is
<1>2. Faithful' <=> Faithful
  BY DEF Faithful, ListenFaithful, GlobalsFaithful, ZonesFaithful, ZoneFaithful, ListenLines,
     GlobalLines, GlobalAt, ValueAt, Value, NetworksTo, Last, Lines, Networks, InBlock, Is
<1>3. (ListenGood' <=> ListenGood) /\ (GlobalsGood' <=> GlobalsGood)
  BY DEF ListenGood, GlobalsGood, Given
<1>4. \A k : Txt(k)' = Txt(k)
  BY DEF Txt
<1>5. \A k : (ZoneGood(k)' <=> ZoneGood(k)) /\ CompiledTo(k)' = CompiledTo(k)
  BY <1>4 DEF ZoneGood, CompiledTo
<1> QED
  BY <1>1, <1>2, <1>3, <1>4, <1>5

LEMMA LinesOfNone ==
    ASSUME NEW seen, NEW key
    PROVE  LinesOf(seen, key) = {} <=> \A s \in seen : s.key # key
BY DEF LinesOf

\* While there is no error, compile_zone accepts the zones that are good.
LEMMA ZoneErrorAgrees ==
    ASSUME Typed, SeenBefore, Remembered, at <= Len(raw.zones)
    PROVE  ZoneError(raw.zones[at]) = {} <=> ZoneGood(at)
<1>1. LinesOf(seen_networks, Txt(at).network) = {} <=>
        \A j \in 1 .. at - 1 : Txt(j).network # Txt(at).network
  <2> PICK key : key = Txt(at).network
    OBVIOUS
  <2>1. (\A s \in seen_networks : s.key # key) <=> \A j \in 1 .. at - 1 : Txt(j).network # key
    BY DEF SeenBefore, Remembered
  <2>2. LinesOf(seen_networks, key) = {} <=> \A s \in seen_networks : s.key # key
    BY LinesOfNone
  <2> QED
    BY <2>1, <2>2
<1>2. LinesOf(seen_patterns, Txt(at).resolves_to) = {} <=>
        \A j \in 1 .. at - 1 : Txt(j).resolves_to # Txt(at).resolves_to
  <2> PICK key : key = Txt(at).resolves_to
    OBVIOUS
  <2>1. (\A s \in seen_patterns : s.key # key) <=> \A j \in 1 .. at - 1 : Txt(j).resolves_to # key
    BY DEF SeenBefore, Remembered
  <2>2. LinesOf(seen_patterns, key) = {} <=> \A s \in seen_patterns : s.key # key
    BY LinesOfNone
  <2> QED
    BY <2>1, <2>2
<1>3. ZoneError(raw.zones[at]) = {} <=> /\ ZoneOK(Txt(at))
                            /\ LinesOf(seen_networks, Txt(at).network) = {}
                            /\ LinesOf(seen_patterns, Txt(at).resolves_to) = {}
  BY TextPattern DEF ZoneError, ZoneOK, Txt
<1> QED
  BY <1>1, <1>2, <1>3 DEF ZoneGood

LEMMA AgreeingStep == Typed /\ Judged /\ Agreeing /\ [Next]_vars => Agreeing'
<1> SUFFICES ASSUME Typed, Judged, Agreeing, [Next]_vars PROVE Agreeing'
  OBVIOUS
<1> DEFINE n == Len(file)
<1>0. /\ n \in Nat /\ Len(raw.zones) \in Nat /\ at \in Nat
      /\ errors \in Seq(ErrorsTo(n)) /\ Seq(FaultsTo(n)) \subseteq Seq(ErrorsTo(n))
      /\ stage \in Stage /\ Parsed
  BY HereTyped, RawParts, FaultsAreErrors DEF Typed, Parsed, Compiling
<1>1. CASE ReadLine
  <2>1. at = 1 /\ zones = <<>> /\ stage = "parse" /\ UNCHANGED <<at, zones, stage>>
    BY <1>1, NothingCompiled DEF ReadLine, compileVars
  <2>2. /\ GoodSoFar <=> WellFormed
        /\ GoodSoFar' <=> WellFormed'
    BY <2>1 DEF GoodSoFar
  <2>3. Agreed'
    BY <1>0, <1>1, <2>2, ReadAgrees DEF Agreed, Agreeing
  <2>4. Remembered'
    BY <2>1 DEF Remembered, CompiledTo
  <2> QED
    BY <2>2, <2>3, <2>4 DEF Agreed, Agreeing
<1>2. ASSUME UNCHANGED <<file, raw, at, zones, seen_networks, seen_patterns>>,
             stage # "done", stage' # "done"
      PROVE  Remembered' <=> Remembered
  BY <1>2, FormKept DEF Remembered
<1>3. CASE EndOfFile
  <2>1. UNCHANGED <<file, raw, errors, at>> /\ stage = "parse" /\ stage' = "listen"
    BY <1>3 DEF EndOfFile, parseVars
  <2>2. GoodSoFar' <=> GoodSoFar
    BY <2>1, FormKept DEF GoodSoFar
  <2> QED
    BY <1>2, <1>3, <2>1, <2>2, FormKept DEF Agreeing, EndOfFile
<1>4. CASE CompileListen
  <2> DEFINE more == ErrorsAt(Filter(raw.listen, (1 .. Len(raw.listen)) \ GoodListen),
                              "InvalidListenAddress")
  <2>1. /\ UNCHANGED <<file, raw, at, zones, seen_networks, seen_patterns>>
        /\ stage = "listen" /\ stage' = "globals" /\ errors' = errors \o more
    BY <1>4 DEF CompileListen
  <2>2. more \in Seq(FaultsTo(n)) /\ (more = <<>> <=> ListenGood)
    BY <1>0, ListenErrorsTyped, ListenErrorsEmpty
  <2> HIDE DEF more
  <2>3. errors' = <<>> <=> errors = <<>> /\ ListenGood
    BY <1>0, <2>1, <2>2, ConcatEmpty
  <2>4. GoodSoFar' <=> GoodSoFar /\ ListenGood
    BY <2>1, FormKept DEF GoodSoFar
  <2> QED
    BY <1>2, <2>1, <2>3, <2>4, FormKept DEF Agreeing
<1>5. CASE CompileGlobals
  <2>1. /\ UNCHANGED <<file, raw, at, zones, seen_networks, seen_patterns>>
        /\ stage = "globals" /\ stage' = "zones" /\ errors' = errors \o GlobalErrors
    BY <1>5 DEF CompileGlobals
  <2>2. errors' = <<>> <=> errors = <<>> /\ GlobalsGood
    BY <1>0, <2>1, GlobalErrorsTyped, GlobalErrorsEmpty, ConcatEmpty
  <2>3. GoodSoFar' <=> GoodSoFar /\ GlobalsGood
    BY <2>1, FormKept DEF GoodSoFar
  <2> QED
    BY <1>2, <2>1, <2>2, <2>3, FormKept DEF Agreeing
<1>6. ASSUME stage = "zones", stage' = "zones", at' = at + 1, UNCHANGED <<file, raw>>
      PROVE  GoodSoFar' <=> GoodSoFar /\ ZoneGood(at)
  <2>1. \A k : k \in 1 .. at' - 1 <=> k \in 1 .. at - 1 \/ k = at
    BY <1>0, <1>6 DEF Typed, Compiling
  <2>2. (\A k \in 1 .. at' - 1 : ZoneGood(k)') <=> (\A k \in 1 .. at - 1 : ZoneGood(k)) /\ ZoneGood(at)
    BY <1>6, <2>1, FormKept
  <2> QED
    BY <1>6, <2>2, FormKept DEF GoodSoFar
<1>7. CASE RejectZone
  <2>1. PICK e \in ZoneError(raw.zones[at]) : errors' = Append(errors, e)
    BY <1>7 DEF RejectZone
  <2>2. /\ UNCHANGED <<file, raw, stage>> /\ stage = "zones" /\ at <= Len(raw.zones)
        /\ at' = at + 1
    BY <1>7 DEF RejectZone
  <2>3. errors' # <<>>
    <3>1. errors \in Seq(ErrorsTo(n) \cup {e})
      BY <1>0, SeqGrows
    <3>2. Len(errors') = Len(errors) + 1 /\ Len(errors) \in Nat
      BY <2>1, <3>1, AppendTyped
    <3> QED
      BY <3>2
  <2>4. ~ GoodSoFar'
    <3>1. GoodSoFar => ~ ZoneGood(at)
      BY <2>1, <2>2, ZoneErrorAgrees DEF Agreeing, Judged
    <3> QED
      BY <1>6, <2>2, <3>1
  <2> QED
    BY <2>2, <2>3, <2>4, FormKept DEF Agreeing
<1>8. CASE CompileZone
  <2>1. /\ UNCHANGED <<file, raw, errors, stage>> /\ stage = "zones" /\ at <= Len(raw.zones)
        /\ at' = at + 1 /\ ZoneError(raw.zones[at]) = {}
    BY <1>8 DEF CompileZone, parseVars
  <2>2. errors = <<>> => ZoneGood(at)
    BY <2>1, ZoneErrorAgrees DEF Agreeing, Judged
  <2>3. GoodSoFar' <=> GoodSoFar
    BY <1>6, <2>1, <2>2 DEF Agreeing
  <2>4. ASSUME Remembered PROVE Remembered'
    <3>1. zones' = Append(zones, compile_zone(Txt(at)))
      BY <1>8 DEF CompileZone, Txt
    <3>2. \A k : k \in 1 .. at' - 1 <=> k \in 1 .. at - 1 \/ k = at
      BY <1>0, <2>1 DEF Typed, Compiling
    <3>3. /\ seen_networks' = seen_networks \cup
               {[key |-> Txt(at).network, line |-> raw.zones[at].network.line]}
          /\ seen_patterns' = seen_patterns \cup
               {[key |-> Txt(at).resolves_to, line |-> The(raw.zones[at].resolves_to).line]}
      BY <1>8 DEF CompileZone, Txt
    <3>4. /\ seen_networks \subseteq seen_networks' /\ seen_patterns \subseteq seen_patterns'
          /\ \E s \in seen_networks' : s.key = Txt(at).network
          /\ \E s \in seen_patterns' : s.key = Txt(at).resolves_to
      <4>1. \A x, y : [key |-> x, line |-> y].key = x
        OBVIOUS
      <4>2. PICK a : a = [key |-> Txt(at).network, line |-> raw.zones[at].network.line]
        OBVIOUS
      <4>3. PICK b : b = [key |-> Txt(at).resolves_to, line |-> The(raw.zones[at].resolves_to).line]
        OBVIOUS
      <4>4. a.key = Txt(at).network /\ b.key = Txt(at).resolves_to
        BY <4>1, <4>2, <4>3
      <4>5. a \in seen_networks' /\ b \in seen_patterns'
        BY <3>3, <4>2, <4>3
      <4> QED
        BY <3>3, <4>4, <4>5
    <3>5. zones' = CompiledTo(at)
      <4>1. zones = CompiledTo(at - 1)
        BY <2>1, <2>4 DEF Remembered
      <4>2. PICK c : c = compile_zone(Txt(at))
        OBVIOUS
      <4>3. zones \in Seq(Made \cup {c})
        BY SeqGrows DEF Typed, Compiling
      <4>4. PICK m \in Nat : m = at - 1
        BY <1>0 DEF Typed, Compiling
      <4>5. Len(zones) = m
        BY <4>1, <4>4 DEF CompiledTo
      <4>6. /\ zones' \in Seq(Made \cup {c}) /\ Len(zones') = m + 1
            /\ \A k \in 1 .. m : zones'[k] = zones[k]
            /\ zones'[m + 1] = c
        BY <3>1, <4>2, <4>3, <4>5, AppendTyped
      <4>7. \A k \in 1 .. m : zones[k] = compile_zone(Txt(k))
        BY <4>1, <4>4 DEF CompiledTo
      <4>8. m + 1 = at /\ \A k \in 1 .. at : k \in 1 .. m \/ k = m + 1
        BY <1>0, <4>4
      <4>9. \A k \in 1 .. at : zones'[k] = compile_zone(Txt(k))
        BY <4>2, <4>6, <4>7, <4>8
      <4>10. zones' = [k \in 1 .. Len(zones') |-> zones'[k]]
        BY <4>6
      <4> QED
        BY <4>6, <4>8, <4>9, <4>10 DEF CompiledTo
    <3>6. PICK m : m = at
      OBVIOUS
    <3>7. m = at' - 1 /\ zones' = CompiledTo(m)'
      BY <1>0, <2>1, <3>5, <3>6, FormKept
    <3> QED
      BY <2>1, <2>4, <3>2, <3>4, <3>7, FormKept DEF Remembered
  <2> QED
    BY <2>1, <2>3, <2>4, FormKept DEF Agreeing
<1>9. CASE Finish
  <2>1. /\ UNCHANGED <<file, raw, errors, at, seen_networks, seen_patterns>>
        /\ stage = "zones" /\ stage' = "done" /\ zones' = SortByMask(zones)
    BY <1>9 DEF Finish, parseVars
  <2>2. GoodSoFar' <=> GoodSoFar
    BY <2>1, FormKept DEF GoodSoFar
  <2>3. Remembered => Remembered'
    BY <2>1, FormKept DEF Remembered
  <2> QED
    BY <2>1, <2>2, <2>3, FormKept DEF Agreeing
<1>10. CASE UNCHANGED vars
  <2>1. UNCHANGED <<file, raw, errors, stage, at, seen_networks, seen_patterns, zones>>
    BY <1>10 DEF vars, parseVars, compileVars
  <2> QED
    BY <2>1, FormKept DEF Agreeing, GoodSoFar, Remembered
<1> QED
  BY <1>1, <1>3, <1>4, <1>5, <1>7, <1>8, <1>9, <1>10 DEF Next

(***************************************************************************)
(* What is good of a faithful record is good of the lines.                 *)
(***************************************************************************)
LEMMA SettingMeans ==
    ASSUME Parsed, NEW i \in Lines
    PROVE  SettingOK(i) <=> /\ i \in ListenLines => ListenOK(ValueAt(i))
                            /\ i \in GlobalLines => GlobalOK(GlobalAt(i))
<1>0. file[i] \in LineSet
  BY ElementOfSeq DEF Lines, Parsed
<1>1. CASE Matched(file[i]) = {}
  <2>1. SettingOK(i) /\ i \notin ListenLines
    BY <1>1 DEF SettingOK, ListenLines, Is
  <2>2. i \in GlobalLines => GlobalAt(i).key = "RrlOff"
    BY <1>1 DEF GlobalLines, GlobalAt
  <2>3. \A g : g.key = "RrlOff" => GlobalOK(g)
    BY DEF GlobalOK, NameKey, NumberKey
  <2> QED
    BY <2>1, <2>2, <2>3
<1>2. ASSUME NEW d \in Matched(file[i])
      PROVE  SettingOK(i) <=> /\ i \in ListenLines => ListenOK(ValueAt(i))
                              /\ i \in GlobalLines => GlobalOK(GlobalAt(i))
  <2>1. /\ Matched(file[i]) = {d} /\ The(Matched(file[i])) = d
        /\ ~ IsFlag(file[i]) /\ d \in DIRECTIVES
    BY <1>0, TheMatch, SaysOnly
  <2>2. PICK v : v = Value(i)
    OBVIOUS
  <2>3. SettingOK(i) <=>
          /\ d.target \in NameKey => IsName(v)
          /\ d.target \in NumberKey => \E n \in AsNumber(v) : n \in Allowed[d.target]
          /\ d.target = "OutOfZone" => v \in OutOfZoneWord
          /\ d.target = "Listen" => IsIpAddr(v) \/ IsSocketAddr(v)
    BY <2>1, <2>2 DEF SettingOK
  <2>4. (i \in ListenLines <=> d.target = "Listen") /\ (i \in GlobalLines <=> d.scope = "Global")
    BY <2>1 DEF ListenLines, GlobalLines, Is
  <2>5. ListenOK(ValueAt(i)) <=> IsIpAddr(v) \/ IsSocketAddr(v)
    BY <2>2 DEF ListenOK, ValueAt
  <2>6. PICK g : g = GlobalAt(i) /\ g.key = d.target /\ g.value.value = v
    <3>1. GlobalAt(i) = [key |-> d.target, value |-> ValueAt(i)]
      BY <2>1 DEF GlobalAt
    <3>2. ValueAt(i).value = v
      BY <2>2 DEF ValueAt
    <3>3. GlobalAt(i).key = d.target /\ GlobalAt(i).value.value = v
      BY <3>1, <3>2
    <3> QED
      BY <3>3
  <2>7. GlobalOK(g) <=>
          /\ d.target \in NameKey => IsName(v)
          /\ d.target \in NumberKey => \E n \in AsNumber(v) : n \in Allowed[d.target]
          /\ d.target = "OutOfZone" => v \in OutOfZoneWord
    BY <2>6 DEF GlobalOK, Accepted
  <2>8. d.target \in NameKey \cup NumberKey \cup {"OutOfZone"} => d.scope = "Global"
    BY <2>1, TableOfDirectives DEF NameKey, NumberKey, ZoneSlot
  <2>9. d.scope = "Global" => d.target # "Listen"
    BY <2>1, TableOfDirectives
  <2> QED
    BY <2>3, <2>4, <2>5, <2>6, <2>7, <2>8, <2>9
<1> QED
  BY <1>1, <1>2

\* A key is given by a line.
LEMMA GivenMeans ==
    ASSUME Parsed, Faithful, \A g \in RangeOf(raw.globals) : GlobalOK(g),
           NEW d \in DIRECTIVES, d.scope = "Global"
    PROVE  Given(d.target) # {} <=> \E i \in Lines : Is(i, d.target)
<1>0. \A i \in Lines : file[i] \in LineSet
  BY ElementOfSeq DEF Lines, Parsed
<1>1. Given(d.target) = Earlier(d.target)
  BY DEF Given, Earlier, RangeOf
<1>2. \A i \in Lines : Is(i, d.target) <=> d \in Matched(file[i])
  BY <1>0, SaysOnly, TableOfDirectives DEF Is
<1> QED
  BY <1>1, <1>2, EarlierMeans

LEMMA SettingsMean ==
    ASSUME Parsed, Faithful
    PROVE  ListenGood /\ GlobalsGood <=>
             /\ \A i \in Lines : SettingOK(i)
             /\ (\E i \in Lines : Is(i, "Primary")) <=> (\E i \in Lines : Is(i, "Hostmaster"))
<1>1. ListenGood <=> \A i \in ListenLines : ListenOK(ValueAt(i))
  BY DEF ListenGood, Faithful, ListenFaithful
<1>2. (\A g \in RangeOf(raw.globals) : GlobalOK(g)) <=> \A i \in GlobalLines : GlobalOK(GlobalAt(i))
  BY DEF Faithful, GlobalsFaithful
<1>3. ListenLines \subseteq Lines /\ GlobalLines \subseteq Lines
  BY DEF ListenLines, GlobalLines
<1>4. ListenGood /\ (\A g \in RangeOf(raw.globals) : GlobalOK(g)) <=> \A i \in Lines : SettingOK(i)
  BY <1>1, <1>2, <1>3, SettingMeans
<1>5. PICK p \in DIRECTIVES : p.scope = "Global" /\ p.target = "Primary"
  BY DEF DIRECTIVES, Directive
<1>6. PICK h \in DIRECTIVES : h.scope = "Global" /\ h.target = "Hostmaster"
  BY DEF DIRECTIVES, Directive
<1>7. ASSUME \A g \in RangeOf(raw.globals) : GlobalOK(g)
      PROVE  /\ Given("Primary") # {} <=> \E i \in Lines : Is(i, "Primary")
             /\ Given("Hostmaster") # {} <=> \E i \in Lines : Is(i, "Hostmaster")
  <2>1. Given(p.target) # {} <=> \E i \in Lines : Is(i, p.target)
    BY <1>5, <1>7, GivenMeans
  <2>2. Given(h.target) # {} <=> \E i \in Lines : Is(i, h.target)
    BY <1>6, <1>7, GivenMeans
  <2> QED
    BY <1>5, <1>6, <2>1, <2>2
<1> QED
  BY <1>4, <1>7 DEF GlobalsGood

\* The zone recorded for a block says what the block says.
LEMMA BlockMeans ==
    ASSUME NEW z, NEW k, ZoneFaithful(z, k)
    PROVE  BlockZone(z.network.line) = Text(z)
<1>1. PICK m : m = z.network.line
  OBVIOUS
<1>2. z.network.value = Value(m)
  BY <1>1 DEF ZoneFaithful, ValueAt
<1>3. /\ z.resolves_to = {ValueAt(i) : i \in InBlock(m, "resolves_to")}
      /\ z.upstream = {ValueAt(i) : i \in InBlock(m, "upstream")}
  BY <1>1 DEF ZoneFaithful, ZoneSlot
<1>4. \A i : ValueAt(i).value = Value(i)
  BY DEF ValueAt
<1>5. {AsPattern(v.value) : v \in z.resolves_to} = {AsPattern(Value(i)) : i \in InBlock(m, "resolves_to")}
  BY <1>3, <1>4
<1>6. /\ z.upstream = {} <=> InBlock(m, "upstream") = {}
      /\ (\E v \in z.upstream : IsIpAddr(v.value)) <=> \E i \in InBlock(m, "upstream") : IsIpAddr(Value(i))
  BY <1>3, <1>4
<1> QED
  BY <1>1, <1>2, <1>5, <1>6 DEF BlockZone, Text

LEMMA BlocksMean ==
    ASSUME Parsed, ZonesFaithful
    PROVE  BlockZones = [k \in 1 .. Len(raw.zones) |-> Txt(k)]
<1> DEFINE At(k) == CHOOSE n \in Networks : Cardinality({m \in Networks : m <= n}) = k
<1>1. ASSUME NEW k \in 1 .. Len(raw.zones)
      PROVE  BlockZone(At(k)) = Txt(k)
  <2>1. PICK z : z = raw.zones[k] /\ ZoneFaithful(z, k)
    BY DEF ZonesFaithful
  <2>2. z.network.line \in Networks /\ Cardinality({m \in Networks : m <= z.network.line}) = k
    BY <2>1 DEF ZoneFaithful, NetworksTo
  <2>3. ASSUME NEW n \in Networks, Cardinality({m \in Networks : m <= n}) = k
        PROVE  n = z.network.line
    <3>1. PICK j \in 1 .. Len(raw.zones) : raw.zones[j].network.line = n
      BY DEF ZonesFaithful
    <3>2. ZoneFaithful(raw.zones[j], j)
      BY DEF ZonesFaithful
    <3>3. j = k
      BY <2>3, <3>1, <3>2 DEF ZoneFaithful, NetworksTo
    <3> QED
      BY <2>1, <3>1, <3>3
  <2>4. At(k) = z.network.line
    BY <2>2, <2>3
  <2> QED
    BY <2>1, <2>4, BlockMeans DEF Txt
<1>2. Cardinality(Networks) = Len(raw.zones)
  BY DEF ZonesFaithful
<1>3. BlockZones = [k \in 1 .. Cardinality(Networks) |-> BlockZone(At(k))]
  BY DEF BlockZones
<1> HIDE DEF At
<1> QED
  BY <1>1, <1>2, <1>3

LEMMA ZonesMean ==
    ASSUME Parsed, ZonesFaithful
    PROVE  /\ ZonesOK(BlockZones) <=> \A k \in 1 .. Len(raw.zones) : ZoneGood(k)
           /\ compile_zones(BlockZones) = SortByMask(CompiledTo(Len(raw.zones)))
<1>1. PICK l \in Nat : l = Len(raw.zones)
  BY HereTyped, RawParts DEF Parsed
<1>2. PICK zs : zs = BlockZones
  OBVIOUS
<1>3. Len(zs) = l /\ \A k \in 1 .. l : zs[k] = Txt(k)
  BY <1>1, <1>2, BlocksMean
<1>4. compile_zones(zs) = SortByMask(CompiledTo(l))
  <2>1. [k \in 1 .. Len(zs) |-> compile_zone(zs[k])] = CompiledTo(l)
    BY <1>3 DEF CompiledTo
  <2> QED
    BY <2>1 DEF compile_zones
<1>5. ASSUME ZonesOK(zs), NEW k \in 1 .. l PROVE ZoneGood(k)
  <2>1. \A j \in 1 .. k - 1 : j \in 1 .. l /\ j # k
    BY <1>1
  <2> QED
    BY <1>3, <1>5, <2>1 DEF ZonesOK, ZoneGood, NoDuplicateNetwork, NoDuplicatePattern
<1>6. ASSUME \A k \in 1 .. l : ZoneGood(k) PROVE ZonesOK(zs)
  <2>1. \A i \in 1 .. l : ZoneOK(zs[i])
    BY <1>3, <1>6 DEF ZoneGood
  <2>2. ASSUME NEW i \in 1 .. l, NEW j \in 1 .. l, i # j
        PROVE  zs[i].network # zs[j].network /\ zs[i].resolves_to # zs[j].resolves_to
    <3>1. i \in 1 .. j - 1 \/ j \in 1 .. i - 1
      BY <1>1, <2>2
    <3> QED
      BY <1>3, <1>6, <3>1 DEF ZoneGood
  <2> QED
    BY <1>3, <2>1, <2>2 DEF ZonesOK, NoDuplicateNetwork, NoDuplicatePattern
<1> QED
  BY <1>1, <1>2, <1>4, <1>5, <1>6

LEMMA FileMeans ==
    ASSUME Parsed
    PROVE  FileOK <=> /\ WellFormed
                      /\ \A i \in Lines : SettingOK(i)
                      /\ (\E i \in Lines : Is(i, "Primary")) <=> (\E i \in Lines : Is(i, "Hostmaster"))
                      /\ ZonesOK(BlockZones)
<1>1. ASSUME NEW n \in Networks, NEW t \in ZoneSlot
      PROVE  Cardinality(InBlock(n, t)) <= 1 <=> Alone(InBlock(n, t))
  <2>1. IsFiniteSet(Lines)
    BY HereTyped, FS_Interval DEF Lines
  <2>2. IsFiniteSet(InBlock(n, t))
    BY <2>1, FS_Subset DEF InBlock
  <2> QED
    BY <2>2, AloneCounts
<1> QED
  BY <1>1 DEF FileOK, WellFormed, OnceOnly

\* Loading a file, line by line and zone by zone, accepts exactly the files
\* that are acceptable as a whole, and compiles them to the zones that their
\* blocks describe, for files of any length: the errors are none if and only
\* if the file is good up to the stage that is reached, and as long as there
\* are none the maps hold every zone before.
THEOREM LoadTheorem == Spec => []LoadAgrees
<1>1. Init => Judged /\ Agreeing
  <2> SUFFICES ASSUME Init PROVE Judged /\ Agreeing
    OBVIOUS
  <2>1. /\ file = <<>> /\ errors = <<>> /\ stage = "parse" /\ at = 1 /\ zones = <<>>
        /\ raw.listen = <<>> /\ raw.globals = <<>> /\ raw.zones = <<>>
        /\ seen_networks = {} /\ seen_patterns = {}
    BY DEF Init, ParseInit
  <2>2. Judged
    BY <2>1 DEF Judged, SeenBefore
  <2>3. Lines = {} /\ Networks = {} /\ ListenLines = {} /\ GlobalLines = {}
    BY <2>1 DEF Lines, Networks, ListenLines, GlobalLines
  <2>4. WellFormed
    BY <2>3 DEF WellFormed
  <2>5. Faithful
    BY <2>1, <2>3, FS_EmptySet DEF Faithful, ListenFaithful, GlobalsFaithful, ZonesFaithful, RangeOf
  <2>6. GoodSoFar /\ Remembered
    BY <2>1, <2>4 DEF GoodSoFar, Remembered, CompiledTo
  <2> QED
    BY <2>1, <2>2, <2>5, <2>6 DEF Agreeing
<1>2. Typed /\ Judged /\ Agreeing => LoadAgrees
  <2> SUFFICES ASSUME Typed, Judged, Agreeing, stage = "done"
               PROVE  /\ errors = <<>> <=> FileOK
                      /\ errors = <<>> => zones = compile_zones(BlockZones)
    BY DEF LoadAgrees
  <2>1. Parsed /\ at - 1 = Len(raw.zones)
    BY HereTyped, RawParts DEF Typed, Parsed, Judged
  <2>2. ~ WellFormed => ~ FileOK /\ errors # <<>>
    BY <2>1, FileMeans DEF Agreeing, GoodSoFar
  <2>3. ASSUME WellFormed
        PROVE  /\ errors = <<>> <=> FileOK
               /\ errors = <<>> => zones = compile_zones(BlockZones)
    <3>1. Faithful /\ ZonesFaithful
      BY <2>3 DEF Agreeing, Faithful
    <3>2. errors = <<>> <=> FileOK
      BY <2>1, <2>3, <3>1, FileMeans, SettingsMean, ZonesMean DEF Agreeing, GoodSoFar
    <3>3. errors = <<>> => zones = compile_zones(BlockZones)
      BY <2>1, <3>1, ZonesMean DEF Agreeing, Remembered
    <3> QED
      BY <3>2, <3>3
  <2> QED
    BY <2>2, <2>3
<1> QED
  BY <1>1, <1>2, JudgedStep, AgreeingStep, AlwaysTyped, PTL DEF Spec
=============================================================================
