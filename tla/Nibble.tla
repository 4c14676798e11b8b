------------------------------- MODULE Nibble -------------------------------
(***************************************************************************)
(* The conversions of src/nibble.rs between IPv6 addresses, reverse names  *)
(* and the digit strings of forward names.                                 *)
(*                                                                         *)
(* A u128 address is the function that gives its nibbles, position 0 the   *)
(* least significant one.  A label is a sequence of symbols: hex digits    *)
(* and "-" are symbols of their own, a run of other text is one symbol.    *)
(* Names are sequences of labels, ASCII case folded: the code compares     *)
(* labels with eq_ignore_ascii_case and hex_val accepts both cases.        *)
(* An Option is a set with at most one member.                             *)
(***************************************************************************)
EXTENDS Integers, Sequences

CONSTANTS
    ADDR_NIBBLES,   \* nibbles of an address (32)
    HEX_LOWER,      \* the digit symbols, in order of their value (16 of them)
    GROUP           \* digits between two dashes (4)

ASSUME NibblesAssumption == ADDR_NIBBLES \in Nat \ {0}
ASSUME GroupAssumption   == GROUP \in Nat \ {0}
ASSUME HexAssumption     ==
    /\ HEX_LOWER \in Seq(STRING)
    /\ Len(HEX_LOWER) > 0
    /\ \A i, j \in 1 .. Len(HEX_LOWER) : HEX_LOWER[i] = HEX_LOWER[j] => i = j
    /\ \A i \in 1 .. Len(HEX_LOWER) : HEX_LOWER[i] \notin {"-", "*"}

Position == 0 .. ADDR_NIBBLES - 1
Nibble   == 0 .. Len(HEX_LOWER) - 1
Address  == [Position -> Nibble]

\* A label is its symbols, a name its labels, the leftmost first.
DnsLabel == Seq(STRING)
DnsName  == Seq(DnsLabel)

Ip6     == <<"ip6">>
Arpa    == <<"arpa">>
Ip6Arpa == <<Ip6, Arpa>>

\* What the code writes into a label itself is text.
ASSUME TextAssumption == {"-", "*", "ip6", "arpa"} \subseteq STRING

IsHex(s) == \E v \in Nibble : HEX_LOWER[v + 1] = s

\* hex_val of a symbol that is a digit.
HexVal(s) == CHOOSE v \in Nibble : HEX_LOWER[v + 1] = s

ToHex(v) == HEX_LOWER[v + 1]

\* A nibble as a label of its own.
HexLabel(v) == <<ToHex(v)>>

\* mask_bits(mask) & addr.  Masks count bits, four to a nibble, and are
\* multiples of four wherever the code applies them.
Masked(addr, mask) ==
    [p \in Position |-> IF p >= ADDR_NIBBLES - mask \div 4 THEN addr[p] ELSE 0]

\* Bitwise or of a network and a host part: one of the two nibbles is 0.
Or(a, b) == [p \in Position |-> IF a[p] = 0 THEN b[p] ELSE a[p]]

\* A full reverse name: exactly one single-digit label per nibble, the least
\* significant first, then ip6.arpa.  (The code counts with num_labels, see
\* module Zone; the asterisk which that leaves out is not a digit.)
ptr_name_to_addr(name) ==
    IF /\ Len(name) = ADDR_NIBBLES + 2
       /\ \A p \in Position : Len(name[p + 1]) = 1 /\ IsHex(name[p + 1][1])
       /\ name[ADDR_NIBBLES + 1] = Ip6
       /\ name[ADDR_NIBBLES + 2] = Arpa
      THEN {[p \in Position |-> HexVal(name[p + 1][1])]}
      ELSE {}

\* Mutant: the nibbles of the prefix in the order they are written in the address.
PtrNameForwards(prefix, mask) ==
    LET n == mask \div 4
    IN  [i \in 1 .. n |-> HexLabel(prefix[ADDR_NIBBLES - i])] \o Ip6Arpa

\* The top mask / 4 nibbles of the prefix, least significant of them first.
netmask_to_ptr_name(prefix, mask) ==
    LET n == mask \div 4
    IN  [i \in 1 .. n |-> HexLabel(prefix[ADDR_NIBBLES - n + i - 1])] \o Ip6Arpa

\* Mutant: the digits in the order the nibbles are counted.
HostDigitsReversed(addr, host_nibbles) ==
    [i \in 1 .. host_nibbles |-> ToHex(addr[i - 1])]

\* The low nibbles, most significant first, zero padded.
host_digits(addr, host_nibbles) ==
    [i \in 1 .. host_nibbles |-> ToHex(addr[host_nibbles - i])]

\* Mutant: short digit strings are taken as if zero padded.
DigitsPadded(digits, host_nibbles) ==
    LET n == Len(digits)
    IN  IF n <= host_nibbles /\ \A i \in 1 .. n : IsHex(digits[i])
          THEN {[p \in Position |-> IF p < n THEN HexVal(digits[n - p]) ELSE 0]}
          ELSE {}

digits_to_host(digits, host_nibbles) ==
    IF /\ Len(digits) = host_nibbles
       /\ \A i \in 1 .. host_nibbles : IsHex(digits[i])
      THEN {[p \in Position |-> IF p < host_nibbles THEN HexVal(digits[host_nibbles - p])
                                                   ELSE 0]}
      ELSE {}

\* chunks(GROUP) joined by "-": every (GROUP + 1)-th symbol is a dash.
dash_group(digits) ==
    LET n == Len(digits)
    IN  [k \in 1 .. n + (IF n = 0 THEN 0 ELSE (n - 1) \div GROUP) |->
           IF k % (GROUP + 1) = 0 THEN "-" ELSE digits[k - k \div (GROUP + 1)]]

\* The inverse: host_nibbles \div GROUP full groups with single dashes between
\* them and nothing after; a partial group cannot be inverted.
undash_group(input, host_nibbles) ==
    LET groups == host_nibbles \div GROUP
    IN  IF /\ groups > 0
           /\ Len(input) = groups * GROUP + groups - 1
           /\ \A g \in 1 .. groups - 1 : input[g * (GROUP + 1)] = "-"
          THEN {[k \in 1 .. groups * GROUP |-> input[k + (k - 1) \div GROUP]]}
          ELSE {}
=============================================================================
