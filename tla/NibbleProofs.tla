---------------------------- MODULE NibbleProofs ----------------------------
(***************************************************************************)
(* What the conversions of module Nibble compute, for addresses of any     *)
(* length, any set of digits and any size of a group: the lemmas that the  *)
(* theorems about zones and answers rest on.                               *)
(***************************************************************************)
EXTENDS Nibble, NaturalsInduction, SequenceTheorems, TLAPS

USE NibblesAssumption

-----------------------------------------------------------------------------
(* Digits.                                                                 *)

\* A nibble is written as a digit of its own, neither a dash nor an asterisk.
LEMMA ToHexDigit ==
    ASSUME NEW v \in Nibble
    PROVE  /\ ToHex(v) \in STRING
           /\ ToHex(v) \notin {"-", "*"}
           /\ IsHex(ToHex(v))
           /\ HexVal(ToHex(v)) = v
<1> USE HexAssumption
<1>1. v + 1 \in 1 .. Len(HEX_LOWER)
  BY DEF Nibble
<1>2. \A w \in Nibble : HEX_LOWER[w + 1] = HEX_LOWER[v + 1] => w = v
  BY <1>1 DEF Nibble
<1> QED
  BY <1>1, <1>2 DEF ToHex, IsHex, HexVal

\* A digit stands for one nibble.
LEMMA HexValNibble ==
    ASSUME NEW s, IsHex(s)
    PROVE  /\ HexVal(s) \in Nibble
           /\ ToHex(HexVal(s)) = s
BY DEF IsHex, HexVal, ToHex

\* The digits of a host part are sequences of as many symbols as it has nibbles.
LEMMA HostDigitsType ==
    ASSUME NEW a \in Address, NEW h \in 0 .. ADDR_NIBBLES
    PROVE  /\ host_digits(a, h) \in DnsLabel
           /\ Len(host_digits(a, h)) = h
           /\ \A i \in 1 .. h : /\ host_digits(a, h)[i] = ToHex(a[h - i])
                                /\ h - i \in Position /\ a[h - i] \in Nibble
<1>1. \A i \in 1 .. h : h - i \in Position
  BY DEF Position
<1>2. \A i \in 1 .. h : a[h - i] \in Nibble
  BY <1>1 DEF Address
<1>3. \A i \in 1 .. h : ToHex(a[h - i]) \in STRING
  BY <1>2, ToHexDigit
<1> QED
  BY <1>1, <1>2, <1>3, IsASeq DEF host_digits, DnsLabel

\* Reading the digits of an address gives its host part back.
LEMMA DigitsOfHost ==
    ASSUME NEW a \in Address, NEW h \in 0 .. ADDR_NIBBLES
    PROVE  digits_to_host(host_digits(a, h), h)
             = {[p \in Position |-> IF p < h THEN a[p] ELSE 0]}
<1> DEFINE d == host_digits(a, h)
<1>1. /\ Len(d) = h
      /\ \A i \in 1 .. h : d[i] = ToHex(a[h - i]) /\ h - i \in Position /\ a[h - i] \in Nibble
  BY HostDigitsType
<1>2. \A i \in 1 .. h : IsHex(d[i])
  BY <1>1, ToHexDigit
<1>3. \A p \in Position : p < h => HexVal(d[h - p]) = a[p]
  <2> SUFFICES ASSUME NEW p \in Position, p < h PROVE HexVal(d[h - p]) = a[p]
    OBVIOUS
  <2>1. h - p \in 1 .. h /\ h - (h - p) = p
    BY DEF Position
  <2> QED
    BY <1>1, <2>1, ToHexDigit
<1>4. [p \in Position |-> IF p < h THEN HexVal(d[h - p]) ELSE 0]
        = [p \in Position |-> IF p < h THEN a[p] ELSE 0]
  BY <1>3
<1> HIDE DEF d
<1>5. digits_to_host(d, h) = {[p \in Position |-> IF p < h THEN HexVal(d[h - p]) ELSE 0]}
  BY <1>1, <1>2 DEF digits_to_host
<1> QED
  BY <1>4, <1>5 DEF d

\* A string of digits that is read as a host part is the one it is written as.
LEMMA HostOfDigits ==
    ASSUME NEW d \in DnsLabel, NEW h \in 0 .. ADDR_NIBBLES, NEW b \in digits_to_host(d, h)
    PROVE  /\ b \in Address
           /\ Len(d) = h
           /\ \A p \in Position : p >= h => b[p] = 0
           /\ \A i \in 1 .. h : ToHex(b[h - i]) = d[i]
<1>1. /\ Len(d) = h
      /\ \A i \in 1 .. h : IsHex(d[i])
      /\ b = [p \in Position |-> IF p < h THEN HexVal(d[h - p]) ELSE 0]
  BY DEF digits_to_host
<1>2. \A p \in Position : p < h => h - p \in 1 .. h
  BY DEF Position
<1>3. 0 \in Nibble
  BY HexAssumption DEF Nibble
<1>4. b \in Address
  BY <1>1, <1>2, <1>3, HexValNibble DEF Address
<1>5. \A i \in 1 .. h : ToHex(b[h - i]) = d[i]
  <2> SUFFICES ASSUME NEW i \in 1 .. h PROVE ToHex(b[h - i]) = d[i]
    OBVIOUS
  <2>1. h - i \in Position /\ h - i < h /\ h - (h - i) = i
    BY DEF Position
  <2> QED
    BY <1>1, <2>1, HexValNibble
<1>6. \A p \in Position : p >= h => b[p] = 0
  BY <1>1 DEF Position
<1> QED
  BY <1>1, <1>4, <1>5, <1>6

-----------------------------------------------------------------------------
(* Sequences.                                                              *)

\* Sequences of one and of two elements.
LEMMA Singleton ==
    ASSUME NEW S, NEW x \in S
    PROVE  <<x>> \in Seq(S) /\ Len(<<x>>) = 1 /\ <<x>>[1] = x
OBVIOUS

LEMMA OneElement ==
    ASSUME NEW S, NEW s \in Seq(S), Len(s) = 1
    PROVE  s = <<s[1]>>
OBVIOUS

LEMMA Pair ==
    ASSUME NEW S, NEW x \in S, NEW y \in S
    PROVE  /\ <<x, y>> \in Seq(S) /\ Len(<<x, y>>) = 2
           /\ <<x, y>>[1] = x /\ <<x, y>>[2] = y
OBVIOUS

\* The elements of a concatenation.
LEMMA ConcatAt ==
    ASSUME NEW S, NEW s \in Seq(S), NEW t \in Seq(S)
    PROVE  /\ s \o t \in Seq(S)
           /\ Len(s \o t) = Len(s) + Len(t)
           /\ \A i \in 1 .. Len(s) : (s \o t)[i] = s[i]
           /\ \A i \in 1 .. Len(t) : (s \o t)[Len(s) + i] = t[i]
OBVIOUS

-----------------------------------------------------------------------------
(* Reverse names.               *)

\* A nibble's label is one digit.
LEMMA HexLabelType ==
    ASSUME NEW v \in Nibble
    PROVE  /\ HexLabel(v) \in DnsLabel
           /\ Len(HexLabel(v)) = 1
           /\ HexLabel(v)[1] = ToHex(v)
BY ToHexDigit, Singleton DEF HexLabel, DnsLabel

\* Two nibbles with the same label are the same.
LEMMA HexLabelInjective ==
    ASSUME NEW v \in Nibble, NEW w \in Nibble, HexLabel(v) = HexLabel(w)
    PROVE  v = w
<1>1. ToHex(v) = ToHex(w)
  BY HexLabelType
<1> QED
  BY <1>1, ToHexDigit

LEMMA Ip6ArpaType ==
    /\ Ip6Arpa \in DnsName /\ Len(Ip6Arpa) = 2
    /\ Ip6Arpa[1] = Ip6 /\ Ip6Arpa[2] = Arpa
    /\ Ip6 \in DnsLabel /\ Arpa \in DnsLabel
<1>1. Ip6 \in DnsLabel /\ Arpa \in DnsLabel
  BY TextAssumption, Singleton DEF Ip6, Arpa, DnsLabel
<1> QED
  BY <1>1, Pair DEF Ip6Arpa, DnsName

\* The name of a network has a label for each of its nibbles, and ip6.arpa.
LEMMA PtrNameType ==
    ASSUME NEW a \in Address, NEW n \in 0 .. ADDR_NIBBLES
    PROVE  LET name == netmask_to_ptr_name(a, 4 * n)
           IN  /\ name \in DnsName
               /\ Len(name) = n + 2
               /\ \A i \in 1 .. n : /\ name[i] = HexLabel(a[ADDR_NIBBLES - n + i - 1])
                                    /\ ADDR_NIBBLES - n + i - 1 \in Position
                                    /\ a[ADDR_NIBBLES - n + i - 1] \in Nibble
               /\ name[n + 1] = Ip6
               /\ name[n + 2] = Arpa
<1> DEFINE ds == [i \in 1 .. n |-> HexLabel(a[ADDR_NIBBLES - n + i - 1])]
<1>1. (4 * n) \div 4 = n
  OBVIOUS
<1>2. netmask_to_ptr_name(a, 4 * n) = ds \o Ip6Arpa
  BY <1>1 DEF netmask_to_ptr_name
<1>3. \A i \in 1 .. n : /\ ADDR_NIBBLES - n + i - 1 \in Position
                        /\ a[ADDR_NIBBLES - n + i - 1] \in Nibble
  BY DEF Position, Address
<1>4. \A i \in 1 .. n : HexLabel(a[ADDR_NIBBLES - n + i - 1]) \in DnsLabel
  BY <1>3, HexLabelType
<1>5. ds \in DnsName /\ Len(ds) = n
  BY <1>4, IsASeq DEF DnsName
<1>6. \A i \in 1 .. n : ds[i] = HexLabel(a[ADDR_NIBBLES - n + i - 1])
  OBVIOUS
<1> HIDE DEF ds
<1>7. /\ ds \o Ip6Arpa \in DnsName
      /\ Len(ds \o Ip6Arpa) = n + 2
      /\ \A i \in 1 .. n : (ds \o Ip6Arpa)[i] = ds[i]
      /\ \A i \in 1 .. 2 : (ds \o Ip6Arpa)[n + i] = Ip6Arpa[i]
  <2>1. /\ ds \o Ip6Arpa \in DnsName
        /\ Len(ds \o Ip6Arpa) = Len(ds) + Len(Ip6Arpa)
        /\ \A i \in 1 .. Len(ds) : (ds \o Ip6Arpa)[i] = ds[i]
        /\ \A i \in 1 .. Len(Ip6Arpa) : (ds \o Ip6Arpa)[Len(ds) + i] = Ip6Arpa[i]
    <3>1. ds \in Seq(DnsLabel) /\ Ip6Arpa \in Seq(DnsLabel)
      BY <1>5, Ip6ArpaType DEF DnsName
    <3> QED
      BY <3>1, ConcatAt DEF DnsName
  <2> QED
    BY <1>5, <2>1, Ip6ArpaType
<1>8. (ds \o Ip6Arpa)[n + 1] = Ip6 /\ (ds \o Ip6Arpa)[n + 2] = Arpa
  BY <1>7, Ip6ArpaType
<1>9. \A i \in 1 .. n : (ds \o Ip6Arpa)[i] = HexLabel(a[ADDR_NIBBLES - n + i - 1])
  BY <1>6, <1>7
<1> QED
  BY <1>2, <1>3, <1>7, <1>8, <1>9

\* In particular the name of an address.
LEMMA FullNameType ==
    ASSUME NEW a \in Address
    PROVE  LET name == netmask_to_ptr_name(a, 4 * ADDR_NIBBLES)
           IN  /\ name \in DnsName
               /\ Len(name) = ADDR_NIBBLES + 2
               /\ \A p \in Position : name[p + 1] = HexLabel(a[p]) /\ a[p] \in Nibble
               /\ name[ADDR_NIBBLES + 1] = Ip6
               /\ name[ADDR_NIBBLES + 2] = Arpa
<1>1. ADDR_NIBBLES \in 0 .. ADDR_NIBBLES
  OBVIOUS
<1>2. \A p \in Position : p + 1 \in 1 .. ADDR_NIBBLES
                            /\ ADDR_NIBBLES - ADDR_NIBBLES + (p + 1) - 1 = p
  BY DEF Position
<1>3. \A p \in Position : a[p] \in Nibble
  BY DEF Address
<1> DEFINE name == netmask_to_ptr_name(a, 4 * ADDR_NIBBLES)
<1>4. /\ name \in DnsName
      /\ Len(name) = ADDR_NIBBLES + 2
      /\ \A i \in 1 .. ADDR_NIBBLES : name[i] = HexLabel(a[ADDR_NIBBLES - ADDR_NIBBLES + i - 1])
      /\ name[ADDR_NIBBLES + 1] = Ip6
      /\ name[ADDR_NIBBLES + 2] = Arpa
  BY <1>1, PtrNameType
<1> HIDE DEF name
<1>5. \A p \in Position : name[p + 1] = HexLabel(a[p])
  BY <1>2, <1>4
<1> QED
  BY <1>3, <1>4, <1>5 DEF name

\* The full reverse name of an address parses back to it.
LEMMA PtrRoundTrip ==
    ASSUME NEW a \in Address
    PROVE  ptr_name_to_addr(netmask_to_ptr_name(a, 4 * ADDR_NIBBLES)) = {a}
<1> DEFINE name == netmask_to_ptr_name(a, 4 * ADDR_NIBBLES)
<1>1. /\ Len(name) = ADDR_NIBBLES + 2
      /\ \A p \in Position : name[p + 1] = HexLabel(a[p]) /\ a[p] \in Nibble
      /\ name[ADDR_NIBBLES + 1] = Ip6
      /\ name[ADDR_NIBBLES + 2] = Arpa
  BY FullNameType
<1> HIDE DEF name
<1>2. \A p \in Position : /\ Len(name[p + 1]) = 1
                          /\ name[p + 1][1] = ToHex(a[p])
  BY <1>1, HexLabelType
<1>3. \A p \in Position : IsHex(name[p + 1][1]) /\ HexVal(name[p + 1][1]) = a[p]
  BY <1>1, <1>2, ToHexDigit
<1>4. [p \in Position |-> HexVal(name[p + 1][1])] = a
  BY <1>3 DEF Address
<1> QED
  BY <1>1, <1>2, <1>3, <1>4 DEF ptr_name_to_addr, name

\* Only the full reverse name of an address is read as that address.
LEMMA PtrExact ==
    ASSUME NEW name \in DnsName, NEW a \in ptr_name_to_addr(name)
    PROVE  /\ a \in Address
           /\ name = netmask_to_ptr_name(a, 4 * ADDR_NIBBLES)
<1>1. /\ Len(name) = ADDR_NIBBLES + 2
      /\ \A p \in Position : Len(name[p + 1]) = 1 /\ IsHex(name[p + 1][1])
      /\ name[ADDR_NIBBLES + 1] = Ip6
      /\ name[ADDR_NIBBLES + 2] = Arpa
      /\ a = [p \in Position |-> HexVal(name[p + 1][1])]
  BY DEF ptr_name_to_addr
<1>2. a \in Address
  BY <1>1, HexValNibble DEF Address
<1> DEFINE full == netmask_to_ptr_name(a, 4 * ADDR_NIBBLES)
<1>3. /\ full \in DnsName
      /\ Len(full) = ADDR_NIBBLES + 2
      /\ \A p \in Position : full[p + 1] = HexLabel(a[p])
      /\ full[ADDR_NIBBLES + 1] = Ip6
      /\ full[ADDR_NIBBLES + 2] = Arpa
  BY <1>2, FullNameType
<1> HIDE DEF full
<1>4. \A p \in Position : name[p + 1] = HexLabel(a[p])
  <2> SUFFICES ASSUME NEW p \in Position PROVE name[p + 1] = HexLabel(a[p])
    OBVIOUS
  <2>1. p + 1 \in 1 .. Len(name)
    BY <1>1 DEF Position
  <2>2. name[p + 1] \in DnsLabel
    BY <2>1, ElementOfSeq DEF DnsName
  <2>3. name[p + 1] = <<name[p + 1][1]>>
    BY <1>1, <2>2, OneElement DEF DnsLabel
  <2>4. ToHex(a[p]) = name[p + 1][1]
    BY <1>1, HexValNibble
  <2> QED
    BY <2>3, <2>4 DEF HexLabel
<1>5. \A i \in 1 .. Len(name) : name[i] = full[i]
  <2> SUFFICES ASSUME NEW i \in 1 .. Len(name) PROVE name[i] = full[i]
    OBVIOUS
  <2>1. CASE i <= ADDR_NIBBLES
    <3>1. i - 1 \in Position /\ (i - 1) + 1 = i
      BY <1>1, <2>1 DEF Position
    <3> QED
      BY <1>3, <1>4, <3>1
  <2>2. CASE i > ADDR_NIBBLES
    <3>1. i = ADDR_NIBBLES + 1 \/ i = ADDR_NIBBLES + 2
      BY <1>1, <2>2
    <3> QED
      BY <1>1, <1>3, <3>1
  <2> QED
    BY <1>1, <2>1, <2>2
<1>6. name = full
  BY <1>1, <1>3, <1>5, SeqEqual DEF DnsName
<1> QED
  BY <1>2, <1>6 DEF full

-----------------------------------------------------------------------------
(* Digits in groups.                                                       *)

\* Quotient and remainder.
LEMMA DivMod ==
    ASSUME NEW d \in Nat \ {0}, NEW n \in Nat
    PROVE  /\ n = d * (n \div d) + (n % d)
           /\ n \div d \in Nat
           /\ n % d \in 0 .. d - 1
<1>1. n = d * (n \div d) + (n % d)
  BY SMTT(20)
<1> QED
  BY <1>1, SMTT(20)

\* A product grows with its factor.
LEMMA Monotone ==
    ASSUME NEW d \in Nat, NEW x \in Nat, NEW y \in Nat, x <= y
    PROVE  d * x <= d * y
BY SMTT(20)

\* They are unique.
LEMMA DivUnique ==
    ASSUME NEW d \in Nat \ {0}, NEW q \in Nat, NEW r \in 0 .. d - 1
    PROVE  (d * q + r) \div d = q /\ (d * q + r) % d = r
<1> DEFINE n == d * q + r
<1>1. n \in Nat
  BY SMTT(20)
<1> HIDE DEF n
<1>2. PICK e \in Nat, f \in 0 .. d - 1 : n = d * e + f /\ e = n \div d /\ f = n % d
  BY <1>1, DivMod
<1>3. d * e + f = d * q + r
  BY <1>2 DEF n
<1>4. ~ (e < q)
  <2> SUFFICES ASSUME e + 1 <= q PROVE FALSE
    OBVIOUS
  <2>1. d * (e + 1) <= d * q /\ d * (e + 1) = d * e + d
    BY Monotone, SMTT(20)
  <2> QED
    BY <1>3, <2>1, SMTT(20)
<1>5. ~ (q < e)
  <2> SUFFICES ASSUME q + 1 <= e PROVE FALSE
    OBVIOUS
  <2>1. d * (q + 1) <= d * e /\ d * (q + 1) = d * q + d
    BY Monotone, SMTT(20)
  <2> QED
    BY <1>3, <2>1, SMTT(20)
<1>6. e = q /\ f = r
  BY <1>3, <1>4, <1>5
<1> QED
  BY <1>2, <1>6 DEF n

\* Digit k of grouped text stands at k + q, behind q dashes.
LEMMA DigitPlace ==
    ASSUME NEW G \in Nat \ {0}, NEW m \in Nat, NEW k \in 1 .. m * G
    PROVE  LET q == (k - 1) \div G
           IN  /\ q \in 0 .. m - 1
               /\ k + q \in 1 .. m * G + m - 1
               /\ (k + q) % (G + 1) # 0
               /\ (k + q) \div (G + 1) = q
<1> DEFINE q == (k - 1) \div G
           r == (k - 1) % G
<1>1. k - 1 = G * q + r /\ q \in Nat /\ r \in 0 .. G - 1
  <2>1. m * G \in Nat
    BY SMTT(20)
  <2>2. k - 1 \in Nat
    BY <2>1
  <2> QED
    BY <2>2, DivMod
<1> HIDE DEF q, r
<1>2. q < m
  <2> SUFFICES ASSUME q >= m PROVE FALSE
    BY <1>1
  <2>1. G * q >= G * m /\ G * m = m * G
    BY <1>1, SMTT(20)
  <2> QED
    BY <1>1, <2>1, SMTT(20)
<1>3. k + q = (G + 1) * q + (r + 1)
  <2>1. (G + 1) * q = G * q + q
    BY <1>1, SMTT(20)
  <2> QED
    BY <1>1, <2>1, SMTT(20)
<1>4. (k + q) \div (G + 1) = q /\ (k + q) % (G + 1) = r + 1
  BY <1>1, <1>3, DivUnique
<1>5. m * G \in Nat
  BY SMTT(20)
<1>6. k + q \in 1 .. m * G + m - 1
  BY <1>1, <1>2, <1>5
<1> QED
  BY <1>1, <1>2, <1>4, <1>6 DEF q

\* Place j of grouped text is a dash, or digit j - q behind q dashes.
LEMMA PlaceDigit ==
    ASSUME NEW G \in Nat \ {0}, NEW m \in Nat, NEW j \in 1 .. m * G + m - 1
    PROVE  LET q == j \div (G + 1)
           IN  /\ q \in 0 .. m - 1
               /\ j % (G + 1) = 0 => q \in 1 .. m - 1 /\ j = q * (G + 1)
               /\ j % (G + 1) # 0 => j - q \in 1 .. m * G /\ ((j - q) - 1) \div G = q
<1> DEFINE q == j \div (G + 1)
           r == j % (G + 1)
<1>0. m * G \in Nat
  BY SMTT(20)
<1>1. j = (G + 1) * q + r /\ q \in Nat /\ r \in 0 .. G
  <2>1. j \in Nat /\ G + 1 \in Nat \ {0} /\ (G + 1) - 1 = G
    BY <1>0
  <2>2. j = (G + 1) * q + r /\ q \in Nat /\ r \in 0 .. (G + 1) - 1
    BY <2>1, DivMod
  <2> QED
    BY <2>1, <2>2
<1> HIDE DEF q, r
<1>2. (G + 1) * q = G * q + q /\ (G + 1) * q = q * (G + 1)
  BY <1>1, SMTT(20)
<1>3. q < m
  <2> SUFFICES ASSUME q >= m PROVE FALSE
    BY <1>1
  <2>1. G * q >= G * m /\ G * m = m * G /\ G * q \in Nat
    BY <1>1, SMTT(20)
  <2> QED
    BY <1>0, <1>1, <1>2, <2>1
<1>4. ASSUME r = 0 PROVE q \in 1 .. m - 1 /\ j = q * (G + 1)
  <2>1. q # 0
    <3> SUFFICES ASSUME q = 0 PROVE FALSE
      OBVIOUS
    <3>1. G * q = 0
      BY SMTT(20)
    <3> QED
      BY <1>0, <1>1, <1>2, <1>4, <3>1
  <2> QED
    BY <1>1, <1>2, <1>3, <1>4, <2>1
<1>5. ASSUME r # 0 PROVE j - q \in 1 .. m * G /\ ((j - q) - 1) \div G = q
  <2>1. r - 1 \in 0 .. G - 1
    BY <1>1, <1>5
  <2>2. (j - q) - 1 = G * q + (r - 1) /\ G * q \in Nat
    BY <1>1, <1>2, SMTT(20)
  <2>3. ((j - q) - 1) \div G = q
    BY <1>1, <2>1, <2>2, DivUnique
  <2>4. G * q + G <= m * G
    <3>1. G * (q + 1) <= G * m /\ G * (q + 1) = G * q + G /\ G * m = m * G
      BY <1>1, <1>3, SMTT(20)
    <3> QED
      BY <3>1
  <2>5. j - q \in 1 .. m * G
    BY <1>0, <1>1, <2>1, <2>2, <2>4
  <2> QED
    BY <2>3, <2>5
<1> QED
  BY <1>1, <1>3, <1>4, <1>5 DEF q, r

\* As many digits as m full groups have: m - 1 dashes between them.
LEMMA DashType ==
    ASSUME NEW m \in Nat \ {0}, NEW d \in DnsLabel, Len(d) = m * GROUP
    PROVE  /\ dash_group(d) \in DnsLabel
           /\ Len(dash_group(d)) = m * GROUP + m - 1
           /\ \A j \in 1 .. m * GROUP + m - 1 :
                dash_group(d)[j] = IF j % (GROUP + 1) = 0
                                     THEN "-" ELSE d[j - j \div (GROUP + 1)]
<1> USE GroupAssumption
<1>1. m * GROUP \in Nat \ {0}
  BY SMTT(20)
<1>2. (m * GROUP - 1) \div GROUP = m - 1
  <2>1. m * GROUP - 1 = GROUP * (m - 1) + (GROUP - 1)
    BY SMTT(20)
  <2>2. m - 1 \in Nat /\ GROUP - 1 \in 0 .. GROUP - 1
    OBVIOUS
  <2>3. (GROUP * (m - 1) + (GROUP - 1)) \div GROUP = m - 1
    BY <2>2, DivUnique
  <2> QED
    BY <2>1, <2>3
<1> DEFINE len == m * GROUP + m - 1
           at(j) == IF j % (GROUP + 1) = 0 THEN "-" ELSE d[j - j \div (GROUP + 1)]
<1>3. len \in Nat
  BY <1>1
<1>4. Len(d) + (IF Len(d) = 0 THEN 0 ELSE (Len(d) - 1) \div GROUP) = len
  BY <1>1, <1>2
<1>5. dash_group(d) = [j \in 1 .. len |-> at(j)]
  BY <1>4 DEF dash_group
<1>6. \A j \in 1 .. len : at(j) \in STRING
  <2> SUFFICES ASSUME NEW j \in 1 .. len, j % (GROUP + 1) # 0
               PROVE  d[j - j \div (GROUP + 1)] \in STRING
    BY TextAssumption
  <2>1. j - j \div (GROUP + 1) \in 1 .. Len(d)
    BY PlaceDigit
  <2> QED
    BY <2>1, ElementOfSeq DEF DnsLabel
<1> HIDE DEF len, at
<1>7. dash_group(d) \in DnsLabel /\ Len(dash_group(d)) = len
  BY <1>3, <1>5, <1>6, IsASeq DEF DnsLabel
<1>8. \A j \in 1 .. len : dash_group(d)[j] = at(j)
  BY <1>5
<1> QED
  BY <1>7, <1>8 DEF len, at

\* Taking the dashes out again gives the digits back.
LEMMA DashRoundTrip ==
    ASSUME NEW m \in Nat \ {0}, NEW d \in DnsLabel, Len(d) = m * GROUP
    PROVE  undash_group(dash_group(d), m * GROUP) = {d}
<1> USE GroupAssumption
<1> DEFINE s == dash_group(d)
<1>1. /\ Len(s) = m * GROUP + m - 1
      /\ \A j \in 1 .. m * GROUP + m - 1 :
           s[j] = IF j % (GROUP + 1) = 0 THEN "-" ELSE d[j - j \div (GROUP + 1)]
  BY DashType
<1> HIDE DEF s
<1>2. (m * GROUP) \div GROUP = m
  <2>1. m * GROUP = GROUP * m + 0
    BY SMTT(20)
  <2> QED
    BY <2>1, DivUnique
<1>3. \A g \in 1 .. m - 1 : s[g * (GROUP + 1)] = "-"
  <2> SUFFICES ASSUME NEW g \in 1 .. m - 1 PROVE s[g * (GROUP + 1)] = "-"
    OBVIOUS
  <2> DEFINE j == g * (GROUP + 1)
  <2>1. j = (GROUP + 1) * g + 0 /\ g \in Nat /\ GROUP + 1 \in Nat \ {0}
        /\ 0 \in 0 .. (GROUP + 1) - 1
    BY SMTT(20)
  <2>2. j % (GROUP + 1) = 0
    BY <2>1, DivUnique
  <2>3. GROUP * g <= GROUP * m /\ GROUP * m = m * GROUP
    BY Monotone
  <2>4. j = GROUP * g + g /\ GROUP * g \in Nat
    BY SMTT(20)
  <2> HIDE DEF j
  <2>5. j \in 1 .. m * GROUP + m - 1
    BY <2>3, <2>4
  <2> QED
    BY <1>1, <2>2, <2>5 DEF j
<1>4. \A k \in 1 .. m * GROUP : s[k + (k - 1) \div GROUP] = d[k]
  <2> SUFFICES ASSUME NEW k \in 1 .. m * GROUP
               PROVE  s[k + (k - 1) \div GROUP] = d[k]
    OBVIOUS
  <2>1. PICK q \in 0 .. m - 1 : /\ q = (k - 1) \div GROUP
                                /\ k + q \in 1 .. m * GROUP + m - 1
                                /\ (k + q) % (GROUP + 1) # 0
                                /\ (k + q) \div (GROUP + 1) = q
    BY DigitPlace
  <2>2. s[k + q] = d[(k + q) - q]
    BY <1>1, <2>1
  <2>3. m * GROUP \in Nat
    BY SMTT(20)
  <2>4. (k + q) - q = k
    BY <2>3
  <2> QED
    BY <2>1, <2>2, <2>4
<1>5. m * GROUP \in Nat
  BY SMTT(20)
<1>6. [k \in 1 .. m * GROUP |-> s[k + (k - 1) \div GROUP]] = d
  <2>1. [k \in 1 .. m * GROUP |-> s[k + (k - 1) \div GROUP]] = [k \in 1 .. m * GROUP |-> d[k]]
    BY <1>4
  <2>2. d = [k \in 1 .. m * GROUP |-> d[k]]
    BY <1>5, LenProperties DEF DnsLabel
  <2> QED
    BY <2>1, <2>2
<1>7. undash_group(s, m * GROUP)
        = {[k \in 1 .. m * GROUP |-> s[k + (k - 1) \div GROUP]]}
  <2>1. m > 0
    OBVIOUS
  <2> QED
    BY <1>1, <1>2, <1>3, <2>1, Zenon DEF undash_group
<1> QED
  BY <1>6, <1>7 DEF s

\* Text from which dashes are taken out is the grouping of what is left.
LEMMA DashExact ==
    ASSUME NEW m \in Nat \ {0}, NEW s \in DnsLabel, NEW d \in undash_group(s, m * GROUP)
    PROVE  /\ d \in DnsLabel
           /\ Len(d) = m * GROUP
           /\ dash_group(d) = s
<1> USE GroupAssumption
<1>1. (m * GROUP) \div GROUP = m
  <2>1. m * GROUP = GROUP * m + 0
    BY SMTT(20)
  <2> QED
    BY <2>1, DivUnique
<1>2. /\ Len(s) = m * GROUP + m - 1
      /\ \A g \in 1 .. m - 1 : s[g * (GROUP + 1)] = "-"
      /\ d = [k \in 1 .. m * GROUP |-> s[k + (k - 1) \div GROUP]]
  BY <1>1 DEF undash_group
<1>3. m * GROUP \in Nat
  BY SMTT(20)
<1>4. \A k \in 1 .. m * GROUP : s[k + (k - 1) \div GROUP] \in STRING
  BY <1>2, DigitPlace, ElementOfSeq DEF DnsLabel
<1>5. d \in DnsLabel /\ Len(d) = m * GROUP
  BY <1>2, <1>3, <1>4, IsASeq DEF DnsLabel
<1> DEFINE t == dash_group(d)
<1>6. /\ t \in DnsLabel
      /\ Len(t) = m * GROUP + m - 1
      /\ \A j \in 1 .. m * GROUP + m - 1 :
           t[j] = IF j % (GROUP + 1) = 0 THEN "-" ELSE d[j - j \div (GROUP + 1)]
  BY <1>5, DashType
<1> HIDE DEF t
<1>7. ASSUME NEW j \in 1 .. m * GROUP + m - 1 PROVE t[j] = s[j]
  <2>1. PICK q \in 0 .. m - 1 :
            /\ q = j \div (GROUP + 1)
            /\ j % (GROUP + 1) = 0 => q \in 1 .. m - 1 /\ j = q * (GROUP + 1)
            /\ j % (GROUP + 1) # 0 => j - q \in 1 .. m * GROUP /\ ((j - q) - 1) \div GROUP = q
    BY PlaceDigit
  <2>2. CASE j % (GROUP + 1) = 0
    <3>1. s[j] = "-"
      BY <1>2, <2>1, <2>2
    <3> QED
      BY <1>6, <2>2, <3>1
  <2>3. CASE j % (GROUP + 1) # 0
    <3>1. t[j] = d[j - q]
      BY <1>6, <2>1, <2>3
    <3>2. d[j - q] = s[(j - q) + q]
      BY <1>2, <2>1, <2>3
    <3>3. (j - q) + q = j
      BY <1>3
    <3> QED
      BY <3>1, <3>2, <3>3
  <2> QED
    BY <2>2, <2>3
<1>8. t = s
  BY <1>2, <1>6, <1>7, SeqEqual DEF DnsLabel
<1> QED
  BY <1>5, <1>8 DEF t
=============================================================================
