---------------------------- MODULE MCConfigLoad ----------------------------
(***************************************************************************)
(* Every file of up to three lines out of one or two of each directive,    *)
(* right and wrong, and every file of up to five lines about zones.        *)
(* Addresses have three nibbles of two values, so that networks nest.      *)
(***************************************************************************)
EXTENDS ConfigLoad

TwoDigits == <<"0", "a">>

Addr3(high) == [p \in 0 .. 2 |-> IF p = 2 THEN high ELSE 0]

\* "net" and "net-in-full" are two ways to write the same network.
NetworkOf(v) ==
    CASE v \in {<<"net">>, <<"net-in-full">>} -> [addr |-> {Addr3(1)}, mask |-> {4}]
      [] v = <<"subnet">> -> [addr |-> {Addr3(1)}, mask |-> {8}]
      [] OTHER -> [addr |-> {Addr3(1)}, mask |-> {12}]

PatternOf(v) ==
    CASE v = <<"pattern">> ->
           [segments |-> <<<<"h", Placeholder>>, <<"ex">>>>, dot |-> FALSE]
      [] v = <<"dashed">> ->
           [segments |-> <<<<PlaceholderDashed>>, <<"ex">>>>, dot |-> FALSE]
      [] OTHER -> [segments |-> <<<<"h">>>>, dot |-> FALSE]

NumberOf(v) == CASE v = <<"0">> -> {0}
                 [] v = <<"2">> -> {2}
                 [] v = <<"9">> -> {9}
                 [] OTHER -> {}

NameText(v) == v = <<"name">>
IpText(v) == v = <<"ip">>
SocketText(v) == v = <<"ip:port">>

Ranges == [k \in NumberKey |-> CASE k = "Ttl" -> 0 .. 4
                                 [] k = "MaxUdpPayload" -> 1 .. 4
                                 [] k = "UpstreamTimeout" -> 1 .. 4
                                 [] k \in {"RrlRps", "RrlBurst"} -> 1 .. 9
                                 [] k = "RrlSlip" -> 0 .. 9]

Defaults == [k \in NumberKey |-> 3]

ZoneLines == {<<"network", "net">>, <<"network", "net-in-full">>, <<"network", "subnet">>,
              <<"network">>,
              <<"resolves", "to", "pattern">>, <<"resolves", "to", "dashed">>,
              <<"with", "upstream", "ip">>}

CommentWords == {"#", "#listen"}

OtherLines == {<<>>, <<"#", "comment">>, <<"#listen", "ip">>, <<"frobnicate", "2">>,
               <<"listen", "ip">>, <<"listen", "ip:port">>, <<"listen", "host">>,
               <<"rrl", "off">>, <<"rrl", "burst", "2">>, <<"rrl", "burst", "0">>,
               <<"rrl", "slip">>, <<"ttl", "2">>, <<"ttl", "9">>, <<"ttl", "soon">>,
               <<"primary", "name">>, <<"primary", "a..b">>, <<"hostmaster", "name">>,
               <<"ns", "name">>, <<"out-of-zone", "nxdomain">>, <<"out-of-zone", "drop">>,
               <<"network", "host">>, <<"resolves", "to", "nothing">>,
               <<"with", "upstream", "host">>}

AllLines == ZoneLines \cup OtherLines

Bounded(f, line) ==
    \/ Len(f) < 3
    \/ Len(f) < 5 /\ line \in ZoneLines /\ \A i \in 1 .. Len(f) : f[i] \in ZoneLines
=============================================================================
