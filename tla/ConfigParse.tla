---------------------------- MODULE ConfigParse -----------------------------
(***************************************************************************)
(* The first stage of loading a configuration, src/config/parse.rs: lines  *)
(* become directives with their values, or errors.                         *)
(*                                                                         *)
(* A line is the sequence of its words, ASCII case folded; the words that  *)
(* follow a keyword are its value.  A word that is a keyword's prefix only *)
(* is another word, as in match_words and starts_with_word.  A value of a  *)
(* line that is a str is UTF-8 again, so NotUtf8 cannot arise.             *)
(***************************************************************************)
EXTENDS Integers, Sequences

CONSTANTS
    LineSet,            \* the lines that files are made of
    Comment,            \* the words that begin with '#'
    MayFollow(_, _)     \* whether a file of the lines given may go on with a line

ASSUME LinesAssumption == LineSet \subseteq Seq(STRING)

VARIABLES
    file,       \* the lines read so far
    raw,        \* RawConfig: listen, zones and globals as recorded so far
    errors      \* what was reported so far

parseVars == <<file, raw, errors>>

(***************************************************************************)
(* The table of directives.  A zone directive's target is the slot of the  *)
(* zone it fills, a global one's its GlobalKey.                            *)
(***************************************************************************)
ZoneSlot == {"resolves_to", "upstream"}

Directive(scope, target, words) == [scope |-> scope, target |-> target, words |-> words]

DIRECTIVES ==
    { Directive("Zone", "resolves_to", <<"resolves", "to">>),
      Directive("Zone", "upstream", <<"with", "upstream">>),
      Directive("Global", "RrlRps", <<"rrl", "responses-per-second">>),
      Directive("Global", "RrlBurst", <<"rrl", "burst">>),
      Directive("Global", "RrlSlip", <<"rrl", "slip">>),
      Directive("Global", "UpstreamTimeout", <<"upstream-timeout">>),
      Directive("Global", "MaxUdpPayload", <<"max-udp-payload">>),
      Directive("Global", "OutOfZone", <<"out-of-zone">>),
      Directive("Global", "Hostmaster", <<"hostmaster">>),
      Directive("Global", "Primary", <<"primary">>),
      Directive("Anywhere", "Network", <<"network">>),
      Directive("Anywhere", "Listen", <<"listen">>),
      Directive("Global", "Ttl", <<"ttl">>),
      Directive("Global", "Ns", <<"ns">>) }

\* Directives without a value.
FLAGS == { Directive("Global", "RrlOff", <<"rrl", "off">>) }

ASSUME CommentAssumption == \A d \in DIRECTIVES \cup FLAGS : d.words[1] \notin Comment

(***************************************************************************)
(* Matching a line.                                                        *)
(***************************************************************************)

\* A blank line or a comment, whatever follows the '#'.
Skipped(line) == line # <<>> => line[1] \in Comment

IsFlag(line) == \E f \in FLAGS : line = f.words

\* strip_keyword: the keyword, and after it a value that is not empty.
Matches(line, d) ==
    Len(line) > Len(d.words) /\ SubSeq(line, 1, Len(d.words)) = d.words

ValueOf(line, d) == SubSeq(line, Len(d.words) + 1, Len(line))

\* At most one directive: no keyword begins another.
Matched(line) ==
    IF Skipped(line) \/ IsFlag(line) THEN {} ELSE {d \in DIRECTIVES : Matches(line, d)}

Known(word) == \E d \in DIRECTIVES \cup FLAGS : d.words[1] = word

(***************************************************************************)
(* One line of the loop of parse.                                          *)
(***************************************************************************)
Here == Len(file) + 1

RawValue(value) == [line |-> Here, value |-> value]

Error(kind, line, first_line) == [kind |-> kind, line |-> line, first_line |-> first_line]

NextLines == {line \in LineSet : MayFollow(file, line)}

Read(line) == file' = Append(file, line)

Report(line, kind, first_line) ==
    /\ Read(line)
    /\ errors' = Append(errors, Error(kind, Here, first_line))
    /\ UNCHANGED raw

Record(line, cfg) ==
    /\ Read(line)
    /\ raw' = cfg
    /\ UNCHANGED errors

SkipLine(line) == Skipped(line) /\ Read(line) /\ UNCHANGED <<raw, errors>>

PushGlobal(key, value) == [raw EXCEPT !.globals = Append(@, [key |-> key, value |-> value])]

\* A flag is not checked for being repeated.
FlagLine(line) ==
    /\ ~ Skipped(line)
    /\ \E f \in FLAGS :
         /\ line = f.words
         /\ IF raw.zones # <<>> THEN Report(line, "GlobalAfterNetwork", 0)
                                ELSE Record(line, PushGlobal(f.target, RawValue(<<>>)))

\* Mutant: a line that is no directive is passed over.
UnmatchedIgnored(line) ==
    /\ ~ Skipped(line) /\ ~ IsFlag(line) /\ Matched(line) = {}
    /\ Read(line) /\ UNCHANGED <<raw, errors>>

UnmatchedLine(line) ==
    /\ ~ Skipped(line) /\ ~ IsFlag(line) /\ Matched(line) = {}
    /\ Report(line, IF Known(line[1]) THEN "MissingValue" ELSE "UnknownDirective", 0)

InScope(d) == /\ d.scope = "Global" => raw.zones = <<>>
              /\ d.scope = "Zone" => raw.zones # <<>>

OutOfScope(line) ==
    \E d \in Matched(line) :
        /\ ~ InScope(d)
        /\ Report(line, IF d.scope = "Global" THEN "GlobalAfterNetwork"
                                              ELSE "DirectiveBeforeNetwork", 0)

ListenLine(line) ==
    \E d \in Matched(line) :
        /\ d.target = "Listen"
        /\ Record(line, [raw EXCEPT !.listen = Append(@, RawValue(ValueOf(line, d)))])

NetworkLine(line) ==
    \E d \in Matched(line) :
        /\ d.target = "Network"
        /\ Record(line, [raw EXCEPT !.zones =
                           Append(@, [network |-> RawValue(ValueOf(line, d)),
                                      resolves_to |-> {}, upstream |-> {}])])

\* Mutant: the slot is filled again, the last value wins.
ZoneLineRefills(line) ==
    \E d \in Matched(line) :
        /\ InScope(d) /\ d.target \in ZoneSlot
        /\ Record(line, [raw EXCEPT !.zones[Len(raw.zones)][d.target] =
                           {RawValue(ValueOf(line, d))}])

\* resolves to, with upstream: a slot of the last zone, filled once.
ZoneLine(line) ==
    \E d \in Matched(line) :
        /\ InScope(d) /\ d.target \in ZoneSlot
        /\ LET slot == raw.zones[Len(raw.zones)][d.target]
           IN  \/ /\ slot = {}
                  /\ Record(line, [raw EXCEPT !.zones[Len(raw.zones)][d.target] =
                                     {RawValue(ValueOf(line, d))}])
               \/ \E first \in slot : Report(line, "DuplicateDirective", first.line)

\* The earlier global of a key, of which there is at most one (but for ns).
Earlier(key) == {g \in {raw.globals[i] : i \in 1 .. Len(raw.globals)} : g.key = key}

\* ns may be repeated, everything else is single-valued.
GlobalLine(line) ==
    \E d \in Matched(line) :
        /\ InScope(d) /\ d.scope = "Global"
        /\ \/ /\ d.target = "Ns" \/ Earlier(d.target) = {}
              /\ Record(line, PushGlobal(d.target, RawValue(ValueOf(line, d))))
           \/ /\ d.target # "Ns"
              /\ \E g \in Earlier(d.target) :
                    Report(line, "DuplicateDirective", g.value.line)

ParseInit == /\ file = <<>>
             /\ raw = [listen |-> <<>>, zones |-> <<>>, globals |-> <<>>]
             /\ errors = <<>>

\* The errors of this stage, as opposed to those of compile.
ParseErrors == {"GlobalAfterNetwork", "DirectiveBeforeNetwork", "DuplicateDirective",
                "MissingValue", "UnknownDirective"}
=============================================================================
