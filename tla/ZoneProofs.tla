----------------------------- MODULE ZoneProofs -----------------------------
(***************************************************************************)
(* What compiling a file's zones and looking names up in them guarantees,  *)
(* for every file, any number of zones, and names of any length: the       *)
(* lemmas of module AuthorityProofs.                                       *)
(***************************************************************************)
EXTENDS Zone, NibbleProofs, FiniteSetTheorems

USE NibblesAssumption

-----------------------------------------------------------------------------
(* Options, and the first of a set of indices.                             *)

LEMMA TheMember == ASSUME NEW S, S # {} PROVE The(S) \in S
BY DEF The

LEMMA TheOnly == ASSUME NEW x PROVE The({x}) = x
BY DEF The

\* A set of indices that is not empty has a first one, and only one.
LEMMA FirstOfSome ==
    ASSUME NEW S \in SUBSET Nat, S # {}
    PROVE  \E i \in S : FirstOf(S) = {i} /\ \A j \in S : i <= j
<1>1. PICK i \in S : \A j \in S : ~ (<<j, i>> \in OpToRel(<, Nat))
  BY NatLessThanWellFounded, WFMin
<1>2. \A j \in S : ~ (j < i)
  BY <1>1 DEF OpToRel
<1>3. \A j \in S : j \in Nat
  OBVIOUS
<1>4. \A j \in S : i <= j
  BY <1>2, <1>3
<1>5. \A k \in S : (\A j \in S : k <= j) => k = i
  BY <1>3, <1>4
<1>6. FirstOf(S) = {i}
  BY <1>4, <1>5 DEF FirstOf
<1> QED
  BY <1>4, <1>6

LEMMA FirstOfNone == FirstOf({}) = {}
BY DEF FirstOf

-----------------------------------------------------------------------------
(* Ranks: a strict total order R on a finite set S numbers its members.    *)

Ordered(R, S) ==
    /\ \A x \in S : <<x, x>> \notin R
    /\ \A x \in S : \A y \in S : x # y => <<x, y>> \in R \/ <<y, x>> \in R
    /\ \A x \in S : \A y \in S : \A z \in S :
         <<x, y>> \in R /\ <<y, z>> \in R => <<x, z>> \in R

Below(R, S, x) == {y \in S : <<y, x>> \in R}

\* A smaller member has a smaller rank.
LEMMA RankMonotone ==
    ASSUME NEW R, NEW S, IsFiniteSet(S), Ordered(R, S),
           NEW x \in S, NEW y \in S, <<x, y>> \in R
    PROVE  Cardinality(Below(R, S, x)) < Cardinality(Below(R, S, y))
<1> DEFINE X == Below(R, S, x)
           Y == Below(R, S, y)
<1>1. X \subseteq Y /\ x \in Y /\ x \notin X /\ Y \subseteq S
  BY DEF Below, Ordered
<1>2. IsFiniteSet(Y) /\ IsFiniteSet(X)
  BY <1>1, FS_Subset
<1>3. Cardinality(X) <= Cardinality(Y) /\ (Cardinality(Y) = Cardinality(X) => Y = X)
  BY <1>1, <1>2, FS_Subset
<1>4. Cardinality(X) \in Nat /\ Cardinality(Y) \in Nat
  BY <1>2, FS_CardinalityType
<1> QED
  BY <1>1, <1>3, <1>4

\* Every rank is taken.
LEMMA RankOnto ==
    ASSUME NEW R, NEW S, IsFiniteSet(S), Ordered(R, S), NEW r \in 1 .. Cardinality(S)
    PROVE  \E x \in S : 1 + Cardinality(Below(R, S, x)) = r
<1> DEFINE n == Cardinality(S)
           f == [x \in S |-> 1 + Cardinality(Below(R, S, x))]
<1>1. n \in Nat
  BY FS_CardinalityType
<1>2. \A x \in S : 1 + Cardinality(Below(R, S, x)) \in 1 .. n
  <2> SUFFICES ASSUME NEW x \in S PROVE 1 + Cardinality(Below(R, S, x)) \in 1 .. n
    OBVIOUS
  <2>1. Below(R, S, x) \in SUBSET (S \ {x})
    BY DEF Below, Ordered
  <2>2. IsFiniteSet(S \ {x}) /\ Cardinality(S \ {x}) = n - 1
    BY FS_RemoveElement
  <2>3. /\ IsFiniteSet(Below(R, S, x))
        /\ Cardinality(Below(R, S, x)) <= n - 1
    BY <2>1, <2>2, FS_Subset
  <2>4. Cardinality(Below(R, S, x)) \in Nat
    BY <2>3, FS_CardinalityType
  <2> QED
    BY <1>1, <2>3, <2>4
<1>3. \A x \in S : \A y \in S : f[x] = f[y] => x = y
  <2> SUFFICES ASSUME NEW x \in S, NEW y \in S, x # y PROVE f[x] # f[y]
    OBVIOUS
  <2>1. /\ Cardinality(Below(R, S, x)) \in Nat
        /\ Cardinality(Below(R, S, y)) \in Nat
    <3>1. Below(R, S, x) \subseteq S /\ Below(R, S, y) \subseteq S
      BY DEF Below
    <3> QED
      BY <3>1, FS_Subset, FS_CardinalityType
  <2>2. <<x, y>> \in R \/ <<y, x>> \in R
    BY DEF Ordered
  <2> QED
    BY <2>1, <2>2, RankMonotone
<1>4. f \in Injection(S, 1 .. n)
  BY <1>2, <1>3 DEF Injection, IsInjective
<1>5. IsFiniteSet(1 .. n) /\ Cardinality(1 .. n) = n
  BY <1>1, FS_Interval
<1>6. f \in Surjection(S, 1 .. n)
  BY <1>4, <1>5, FS_Injection
<1> QED
  BY <1>6 DEF Surjection

-----------------------------------------------------------------------------
(* The stable sort by mask.                                                *)

\* The members of a finite set of indices are counted by their order.
LEMMA NthMember ==
    ASSUME NEW S, IsFiniteSet(S), S \subseteq Nat, NEW i \in 1 .. Cardinality(S)
    PROVE  Nth(S, i) \in S
<1> DEFINE R == {p \in S \X S : p[1] < p[2]}
<1>1. Ordered(R, S)
  BY DEF Ordered
<1> HIDE DEF R
<1>2. PICK x \in S : 1 + Cardinality(Below(R, S, x)) = i
  BY <1>1, RankOnto
<1>3. Below(R, S, x) = {k \in S : k < x}
  BY DEF Below, R
<1> QED
  BY <1>2, <1>3 DEF Nth

\* What a filter leaves of a Vec.
LEMMA FilterMember ==
    ASSUME NEW T, NEW vec \in Seq(T), NEW S \in SUBSET (1 .. Len(vec))
    PROVE  /\ Filter(vec, S) \in Seq(T)
           /\ Len(Filter(vec, S)) = Cardinality(S)
           /\ \A i \in 1 .. Cardinality(S) : \E j \in S : Filter(vec, S)[i] = vec[j]
<1> DEFINE n == Cardinality(S)
           f == Filter(vec, S)
<1>1. Len(vec) \in Nat
  BY LenProperties
<1>2. IsFiniteSet(S) /\ S \subseteq Nat /\ n \in Nat
  <2>1. IsFiniteSet(1 .. Len(vec))
    BY <1>1, FS_Interval
  <2>2. IsFiniteSet(S)
    BY <2>1, FS_Subset
  <2> QED
    BY <1>1, <2>2, FS_CardinalityType
<1>3. \A i \in 1 .. n : Nth(S, i) \in S
  BY <1>2, NthMember
<1>4. \A i \in 1 .. n : vec[Nth(S, i)] \in T
  <2>1. \A k \in 1 .. Len(vec) : vec[k] \in T
    BY ElementOfSeq
  <2> QED
    BY <1>3, <2>1
<1>5. f = [i \in 1 .. n |-> vec[Nth(S, i)]]
  BY DEF Filter
<1> HIDE DEF n, f
<1>6. f \in Seq(T)
  BY <1>2, <1>4, <1>5, IsASeq
<1>7. Len(f) = n
  BY <1>2, <1>5
<1>8. \A i \in 1 .. n : \E j \in S : f[i] = vec[j]
  BY <1>3, <1>5
<1> QED
  BY <1>6, <1>7, <1>8 DEF n, f

\* Sorting keeps the zones, loses none, and puts longer masks first.
LEMMA SortedByMask ==
    ASSUME NEW Z, NEW zs \in Seq(Z), \A i \in 1 .. Len(zs) : zs[i].mask \in Nat
    PROVE  /\ SortByMask(zs) \in Seq(Z)
           /\ Len(SortByMask(zs)) = Len(zs)
           /\ \A r \in 1 .. Len(zs) : \E i \in 1 .. Len(zs) : SortByMask(zs)[r] = zs[i]
           /\ \A i \in 1 .. Len(zs) : \E r \in 1 .. Len(zs) : SortByMask(zs)[r] = zs[i]
           /\ \A r \in 1 .. Len(zs) : \A s \in 1 .. Len(zs) :
                r <= s => SortByMask(zs)[s].mask <= SortByMask(zs)[r].mask
<1> DEFINE n == Len(zs)
           S == 1 .. n
           R == {p \in S \X S : Before(zs, p[1], p[2])}
           Rank(i) == 1 + Cardinality({j \in S : Before(zs, j, i)})
           At(r) == CHOOSE i \in S : Rank(i) = r
<1>1. n \in Nat
  BY LenProperties
<1>2. IsFiniteSet(S) /\ Cardinality(S) = n
  <2>1. IsFiniteSet(1 .. n) /\ Cardinality(1 .. n) = IF 1 > n THEN 0 ELSE n - 1 + 1
    BY <1>1, FS_Interval
  <2> HIDE DEF n
  <2> QED
    BY <1>1, <2>1
<1>3. \A i \in S : \A j \in S : <<i, j>> \in R <=> Before(zs, i, j)
  OBVIOUS
<1>4. Ordered(R, S)
  <2>1. \A i \in S : ~ Before(zs, i, i)
    BY DEF Before
  <2>2. \A i \in S : \A j \in S : i # j => Before(zs, i, j) \/ Before(zs, j, i)
    BY DEF Before
  <2>3. \A i \in S : \A j \in S : \A k \in S :
          Before(zs, i, j) /\ Before(zs, j, k) => Before(zs, i, k)
    BY DEF Before
  <2> HIDE DEF R, S
  <2> QED
    BY <1>3, <2>1, <2>2, <2>3 DEF Ordered
<1>5. \A i \in S : Rank(i) = 1 + Cardinality(Below(R, S, i))
  <2> SUFFICES ASSUME NEW i \in S
               PROVE  {j \in S : Before(zs, j, i)} = Below(R, S, i)
    OBVIOUS
  <2> QED
    BY <1>3 DEF Below
<1>6. SortByMask(zs) = [r \in S |-> zs[At(r)]]
  BY DEF SortByMask
<1> HIDE DEF n, S, R, Rank, At
<1>7. \A r \in S : At(r) \in S /\ Rank(At(r)) = r
  <2> SUFFICES ASSUME NEW r \in S PROVE \E i \in S : Rank(i) = r
    BY DEF At
  <2>1. r \in 1 .. Cardinality(S)
    BY <1>2 DEF S
  <2>2. \E i \in S : 1 + Cardinality(Below(R, S, i)) = r
    BY <1>2, <1>4, <2>1, RankOnto
  <2> QED
    BY <1>5, <2>2
<1>8. \A i \in S : \A j \in S : Before(zs, i, j) => Rank(i) < Rank(j)
  <2> SUFFICES ASSUME NEW i \in S, NEW j \in S, Before(zs, i, j) PROVE Rank(i) < Rank(j)
    OBVIOUS
  <2>1. Cardinality(Below(R, S, i)) < Cardinality(Below(R, S, j))
    BY <1>2, <1>3, <1>4, RankMonotone
  <2>2. /\ Cardinality(Below(R, S, i)) \in Nat
        /\ Cardinality(Below(R, S, j)) \in Nat
    <3>1. Below(R, S, i) \subseteq S /\ Below(R, S, j) \subseteq S
      BY DEF Below
    <3> QED
      BY <1>2, <3>1, FS_Subset, FS_CardinalityType
  <2> QED
    BY <1>5, <2>1, <2>2
<1>9. \A i \in S : Rank(i) \in S /\ At(Rank(i)) = i
  <2> SUFFICES ASSUME NEW i \in S PROVE Rank(i) \in S /\ At(Rank(i)) = i
    OBVIOUS
  <2>1. Rank(i) \in S
    <3>1. Below(R, S, i) \in SUBSET (S \ {i})
      BY <1>4 DEF Below, Ordered
    <3>2. IsFiniteSet(S \ {i}) /\ Cardinality(S \ {i}) = n - 1
      BY <1>2, FS_RemoveElement
    <3>3. IsFiniteSet(Below(R, S, i)) /\ Cardinality(Below(R, S, i)) <= n - 1
      BY <3>1, <3>2, FS_Subset
    <3>4. Cardinality(Below(R, S, i)) \in Nat
      BY <3>3, FS_CardinalityType
    <3> QED
      BY <1>1, <1>5, <3>3, <3>4 DEF S
  <2>2. At(Rank(i)) \in S /\ Rank(At(Rank(i))) = Rank(i)
    BY <1>7, <2>1
  <2>3. Rank(i) \in Nat
    BY <1>1, <2>1 DEF S
  <2>4. At(Rank(i)) # i => Before(zs, i, At(Rank(i))) \/ Before(zs, At(Rank(i)), i)
    BY <1>3, <1>4, <2>2 DEF Ordered
  <2> QED
    BY <1>8, <2>1, <2>2, <2>3, <2>4
<1>10. \A i \in S : zs[i] \in Z /\ zs[i].mask \in Nat
  BY ElementOfSeq DEF S, n
<1>11. SortByMask(zs) \in Seq(Z) /\ Len(SortByMask(zs)) = n
  <2>1. \A r \in 1 .. n : zs[At(r)] \in Z
    BY <1>7, <1>10 DEF S
  <2> QED
    BY <1>1, <1>6, <2>1, IsASeq DEF S
<1>12. \A r \in S : SortByMask(zs)[r] = zs[At(r)]
  BY <1>6
<1>13. \A r \in S : \E i \in S : SortByMask(zs)[r] = zs[i]
  BY <1>7, <1>12
<1>14. \A i \in S : \E r \in S : SortByMask(zs)[r] = zs[i]
  BY <1>9, <1>12
<1>15. ASSUME NEW r \in S, NEW s \in S, r <= s
       PROVE  SortByMask(zs)[s].mask <= SortByMask(zs)[r].mask
  <2>1. /\ At(r) \in S /\ At(s) \in S
        /\ Rank(At(r)) = r /\ Rank(At(s)) = s
    BY <1>7
  <2>2. ~ Before(zs, At(s), At(r))
    <3> SUFFICES ASSUME Before(zs, At(s), At(r)) PROVE FALSE
      OBVIOUS
    <3>1. s < r
      BY <1>8, <2>1
    <3> QED
      BY <1>1, <1>15, <3>1 DEF S
  <2>3. zs[At(r)].mask \in Nat /\ zs[At(s)].mask \in Nat
    BY <1>10, <2>1
  <2>4. ~ (zs[At(s)].mask > zs[At(r)].mask)
    BY <2>2 DEF Before
  <2> QED
    BY <1>12, <2>3, <2>4
<1> QED
  BY <1>11, <1>13, <1>14, <1>15 DEF S, n

-----------------------------------------------------------------------------
(* Names below an apex.                                                    *)

\* An apex is compared label by label with the end of the name.
LEMMA ZoneOfLabels ==
    ASSUME NEW apex \in DnsName, NEW name \in DnsName
    PROVE  ZoneOf(apex, name) <=>
             /\ Len(apex) <= Len(name)
             /\ \A k \in 1 .. Len(apex) : name[Len(name) - Len(apex) + k] = apex[k]
<1> DEFINE m == Len(apex)
           n == Len(name)
           end == SubSeq(name, n - m + 1, n)
<1>1. m \in Nat /\ n \in Nat
  BY LenProperties DEF DnsName
<1> SUFFICES ASSUME m <= n
             PROVE  end = apex <=> \A k \in 1 .. m : name[n - m + k] = apex[k]
  BY DEF ZoneOf
<1>2. /\ end \in DnsName
      /\ Len(end) = m
      /\ \A k \in 1 .. m : end[k] = name[n - m + k]
  <2>1. \A i \in n - m + 1 .. n : name[i] \in DnsLabel
    BY <1>1, ElementOfSeq DEF DnsName
  <2>2. n - m + 1 \in Int /\ n \in Int
    BY <1>1
  <2> HIDE DEF m, n
  <2>3. /\ end \in Seq(DnsLabel)
        /\ Len(end) = IF n - m + 1 <= n THEN n - (n - m + 1) + 1 ELSE 0
        /\ \A i \in 1 .. n - (n - m + 1) + 1 : end[i] = name[n - m + 1 + i - 1]
    BY <2>1, <2>2, SubSeqProperties
  <2>4. n - (n - m + 1) + 1 = m /\ \A k \in 1 .. m : n - m + 1 + k - 1 = n - m + k
    BY <1>1
  <2>5. \A k \in 1 .. m : end[k] = name[n - m + k]
    BY <2>3, <2>4
  <2>6. Len(end) = m
    BY <1>1, <2>3, <2>4
  <2> HIDE DEF end
  <2> QED
    BY <2>3, <2>5, <2>6 DEF DnsName
<1> HIDE DEF end
<1>3. ASSUME \A k \in 1 .. m : name[n - m + k] = apex[k] PROVE end = apex
  BY <1>2, <1>3, SeqEqual DEF DnsName
<1> QED
  BY <1>2, <1>3

LEMMA ZoneOfSelf == ASSUME NEW name \in DnsName PROVE ZoneOf(name, name)
<1>1. Len(name) \in Nat
  BY LenProperties DEF DnsName
<1>2. \A k \in 1 .. Len(name) : Len(name) - Len(name) + k = k
  BY <1>1
<1> QED
  BY <1>1, <1>2, ZoneOfLabels

-----------------------------------------------------------------------------
(* Compiled zones.                                                         *)

FwdLabels == [digits : BOOLEAN, pre : DnsLabel, post : DnsLabel, dashed : BOOLEAN]

\* A template of which one label has digits, whose host parts fit.
Template(fwd, h) ==
    /\ fwd.labels \in Seq(FwdLabels)
    /\ fwd.digits_at \in 1 .. Len(fwd.labels)
    /\ \A i \in 1 .. Len(fwd.labels) : fwd.labels[i].digits <=> i = fwd.digits_at
    /\ fwd.labels[fwd.digits_at].dashed => h % GROUP = 0
    /\ Representable(render(fwd, Widest(h)))

\* What compile_zone guarantees.
Compiled(z) ==
    /\ z.prefix \in Address
    /\ \E n \in 1 .. ADDR_NIBBLES - 1 : z.mask = 4 * n /\ z.host_nibbles = ADDR_NIBBLES - n
    /\ Masked(z.prefix, z.mask) = z.prefix
    /\ z.ptr_zone = netmask_to_ptr_name(z.prefix, z.mask)
    /\ Template(z.fwd, z.host_nibbles)
    /\ z.fwd_parent = parent(z.fwd)

\* Which nibbles a mask keeps.
LEMMA MaskedNibbles ==
    ASSUME NEW a \in Address, NEW n \in 1 .. ADDR_NIBBLES - 1
    PROVE  \A p \in Position :
             Masked(a, 4 * n)[p] = IF p >= ADDR_NIBBLES - n THEN a[p] ELSE 0
<1>1. (4 * n) \div 4 = n
  OBVIOUS
<1> QED
  BY <1>1 DEF Masked

\* A zone contains the addresses that share the nibbles of its network.
LEMMA ContainsNibbles ==
    ASSUME NEW z, Compiled(z), NEW a \in Address,
           NEW n \in 1 .. ADDR_NIBBLES - 1, z.mask = 4 * n
    PROVE  /\ \A p \in Position : p < ADDR_NIBBLES - n => z.prefix[p] = 0
           /\ Contains(z, a) <=> \A p \in Position : p >= ADDR_NIBBLES - n => a[p] = z.prefix[p]
<1> DEFINE h == ADDR_NIBBLES - n
<1>1. z.prefix \in Address /\ Masked(z.prefix, 4 * n) = z.prefix
  BY DEF Compiled
<1>2. \A p \in Position : p \in Int
  BY DEF Position
<1>3. \A p \in Position : p < h => z.prefix[p] = 0
  <2>1. \A p \in Position :
          Masked(z.prefix, 4 * n)[p] = IF p >= h THEN z.prefix[p] ELSE 0
    BY <1>1, MaskedNibbles
  <2> QED
    BY <1>1, <1>2, <2>1
<1>4. \A p \in Position : Masked(a, 4 * n)[p] = IF p >= h THEN a[p] ELSE 0
  BY MaskedNibbles
<1>5. z.prefix = [p \in Position |-> z.prefix[p]]
      /\ Masked(a, 4 * n) = [p \in Position |-> Masked(a, 4 * n)[p]]
  BY <1>1 DEF Address, Masked
<1>6. Masked(a, 4 * n) = z.prefix <=> \A p \in Position : Masked(a, 4 * n)[p] = z.prefix[p]
  BY <1>5
<1>7. Contains(z, a) <=> \A p \in Position : p >= h => a[p] = z.prefix[p]
  BY <1>2, <1>3, <1>4, <1>6 DEF Contains
<1> QED
  BY <1>3, <1>7

\* An address is in a network exactly when its reverse name is below the
\* origin of the network.
LEMMA ReverseOrigin ==
    ASSUME NEW z, Compiled(z), NEW a \in Address
    PROVE  LET full == netmask_to_ptr_name(a, 4 * ADDR_NIBBLES)
           IN  ZoneOf(z.ptr_zone, full) <=> Contains(z, a)
<1> PICK n \in 1 .. ADDR_NIBBLES - 1 : z.mask = 4 * n
  BY DEF Compiled
<1> DEFINE full == netmask_to_ptr_name(a, 4 * ADDR_NIBBLES)
           apex == z.ptr_zone
           h == ADDR_NIBBLES - n
<1>1. /\ full \in DnsName
      /\ Len(full) = ADDR_NIBBLES + 2
      /\ \A p \in Position : full[p + 1] = HexLabel(a[p]) /\ a[p] \in Nibble
      /\ full[ADDR_NIBBLES + 1] = Ip6
      /\ full[ADDR_NIBBLES + 2] = Arpa
  BY FullNameType
<1>2. z.prefix \in Address /\ apex = netmask_to_ptr_name(z.prefix, 4 * n)
  BY DEF Compiled
<1>3. /\ apex \in DnsName
      /\ Len(apex) = n + 2
      /\ \A i \in 1 .. n : /\ apex[i] = HexLabel(z.prefix[h + i - 1])
                           /\ h + i - 1 \in Position
                           /\ z.prefix[h + i - 1] \in Nibble
      /\ apex[n + 1] = Ip6
      /\ apex[n + 2] = Arpa
  <2>1. n \in 0 .. ADDR_NIBBLES
    OBVIOUS
  <2> QED
    BY <1>2, <2>1, PtrNameType, SMTT(30)
<1> HIDE DEF full, apex
<1>4. ZoneOf(apex, full) <=> \A k \in 1 .. n + 2 : full[h + k] = apex[k]
  <2>1. Len(apex) <= Len(full) /\ Len(full) - Len(apex) = h
    BY <1>1, <1>3
  <2>2. ZoneOf(apex, full) <=>
          /\ Len(apex) <= Len(full)
          /\ \A k \in 1 .. Len(apex) : full[Len(full) - Len(apex) + k] = apex[k]
    BY <1>1, <1>3, ZoneOfLabels
  <2> QED
    BY <1>3, <2>1, <2>2
<1>5. full[h + (n + 1)] = apex[n + 1] /\ full[h + (n + 2)] = apex[n + 2]
  <2>1. h + (n + 1) = ADDR_NIBBLES + 1 /\ h + (n + 2) = ADDR_NIBBLES + 2
    OBVIOUS
  <2> QED
    BY <1>1, <1>3, <2>1
<1>6. (\A k \in 1 .. n + 2 : full[h + k] = apex[k]) <=> \A k \in 1 .. n : full[h + k] = apex[k]
  <2>1. \A k \in 1 .. n + 2 : k \in 1 .. n \/ k = n + 1 \/ k = n + 2
    OBVIOUS
  <2>2. \A k \in 1 .. n : k \in 1 .. n + 2
    OBVIOUS
  <2> QED
    BY <1>5, <2>1, <2>2
<1>7. ASSUME NEW k \in 1 .. n
      PROVE  full[h + k] = apex[k] <=> a[h + k - 1] = z.prefix[h + k - 1]
  <2>1. h + k - 1 \in Position /\ (h + k - 1) + 1 = h + k
    BY DEF Position
  <2>2. full[h + k] = HexLabel(a[h + k - 1]) /\ a[h + k - 1] \in Nibble
    BY <1>1, <2>1
  <2> QED
    BY <1>3, <2>2, HexLabelInjective
<1>8. (\A k \in 1 .. n : a[h + k - 1] = z.prefix[h + k - 1])
        <=> \A p \in Position : p >= h => a[p] = z.prefix[p]
  <2>1. ASSUME \A k \in 1 .. n : a[h + k - 1] = z.prefix[h + k - 1],
               NEW p \in Position, p >= h
        PROVE  a[p] = z.prefix[p]
    <3>1. p - h + 1 \in 1 .. n /\ h + (p - h + 1) - 1 = p
      BY <2>1 DEF Position
    <3> QED
      BY <2>1, <3>1
  <2>2. \A k \in 1 .. n : h + k - 1 \in Position /\ h + k - 1 >= h
    BY DEF Position
  <2> QED
    BY <2>1, <2>2
<1>9. Contains(z, a) <=> \A p \in Position : p >= h => a[p] = z.prefix[p]
  BY ContainsNibbles
<1> QED
  BY <1>4, <1>6, <1>7, <1>8, <1>9 DEF full, apex

-----------------------------------------------------------------------------
(* The digits label of a template.                                         *)

\* Lengths and elements of pre \o x \o post.
LEMMA AroundAt ==
    ASSUME NEW S, NEW pre \in Seq(S), NEW x \in Seq(S), NEW post \in Seq(S)
    PROVE  LET label == pre \o x \o post
           IN  /\ label \in Seq(S)
               /\ Len(label) = Len(pre) + Len(x) + Len(post)
               /\ \A i \in 1 .. Len(pre) : label[i] = pre[i]
               /\ \A i \in 1 .. Len(x) : label[Len(pre) + i] = x[i]
               /\ \A i \in 1 .. Len(post) : label[Len(pre) + Len(x) + i] = post[i]
<1> DEFINE front == pre \o x
<1>1. Len(pre) \in Nat /\ Len(x) \in Nat /\ Len(post) \in Nat
  BY LenProperties
<1>2. /\ front \in Seq(S)
      /\ Len(front) = Len(pre) + Len(x)
      /\ \A i \in 1 .. Len(pre) : front[i] = pre[i]
      /\ \A i \in 1 .. Len(x) : front[Len(pre) + i] = x[i]
  BY ConcatAt
<1> HIDE DEF front
<1>3. /\ front \o post \in Seq(S)
      /\ Len(front \o post) = Len(front) + Len(post)
      /\ \A i \in 1 .. Len(front) : (front \o post)[i] = front[i]
      /\ \A i \in 1 .. Len(post) : (front \o post)[Len(front) + i] = post[i]
  BY <1>2, ConcatAt, SMTT(30)
<1>4. \A i \in 1 .. Len(pre) : i \in 1 .. Len(front)
  BY <1>1, <1>2
<1>5. \A i \in 1 .. Len(x) : Len(pre) + i \in 1 .. Len(front)
  BY <1>1, <1>2
<1>6. \A i \in 1 .. Len(pre) : (front \o post)[i] = pre[i]
  BY <1>2, <1>3, <1>4
<1>7. \A i \in 1 .. Len(x) : (front \o post)[Len(pre) + i] = x[i]
  BY <1>2, <1>3, <1>5
<1>8. \A i \in 1 .. Len(post) : (front \o post)[Len(pre) + Len(x) + i] = post[i]
  BY <1>2, <1>3
<1>9. Len(front \o post) = Len(pre) + Len(x) + Len(post)
  BY <1>2, <1>3
<1> QED
  BY <1>3, <1>6, <1>7, <1>8, <1>9 DEF front

LEMMA AroundLabel ==
    ASSUME NEW pre \in DnsLabel, NEW x \in DnsLabel, NEW post \in DnsLabel
    PROVE  /\ pre \o x \o post \in DnsLabel
           /\ Len(pre \o x \o post) = Len(pre) + Len(x) + Len(post)
           /\ \A i \in 1 .. Len(pre) : (pre \o x \o post)[i] = pre[i]
           /\ \A i \in 1 .. Len(x) : (pre \o x \o post)[Len(pre) + i] = x[i]
           /\ \A i \in 1 .. Len(post) : (pre \o x \o post)[Len(pre) + Len(x) + i] = post[i]
BY AroundAt DEF DnsLabel

\* A part of a label, by its elements.
LEMMA SubLabel ==
    ASSUME NEW S, NEW s \in Seq(S), NEW m \in Nat, NEW k \in Nat, m + k <= Len(s)
    PROVE  LET t == SubSeq(s, m + 1, m + k)
           IN  /\ t \in Seq(S)
               /\ Len(t) = k
               /\ \A i \in 1 .. k : t[i] = s[m + i]
<1>1. Len(s) \in Nat
  BY LenProperties
<1>2. \A i \in m + 1 .. m + k : s[i] \in S
  <2> SUFFICES ASSUME NEW i \in m + 1 .. m + k PROVE s[i] \in S
    OBVIOUS
  <2>1. i \in 1 .. Len(s)
    BY <1>1
  <2> QED
    BY <2>1, ElementOfSeq
<1> DEFINE t == SubSeq(s, m + 1, m + k)
<1>3. /\ t \in Seq(S)
      /\ Len(t) = IF m + 1 <= m + k THEN (m + k) - (m + 1) + 1 ELSE 0
      /\ \A i \in 1 .. (m + k) - (m + 1) + 1 : t[i] = s[m + 1 + i - 1]
  BY <1>2, SubSeqProperties
<1> HIDE DEF t
<1>4. Len(t) = k
  BY <1>3
<1>5. (m + k) - (m + 1) + 1 = k /\ \A i \in 1 .. k : m + 1 + i - 1 = m + i
  OBVIOUS
<1>6. \A i \in 1 .. k : t[i] = s[m + i]
  BY <1>3, <1>5
<1> QED
  BY <1>3, <1>4, <1>6 DEF t

\* Stripping what stands around gives the middle,
LEMMA StripRoundTrip ==
    ASSUME NEW pre \in DnsLabel, NEW x \in DnsLabel, NEW post \in DnsLabel
    PROVE  StripAround(pre \o x \o post, pre, post) = {x}
<1> DEFINE label == pre \o x \o post
           a == Len(pre)
           b == Len(x)
           c == Len(post)
<1>1. a \in Nat /\ b \in Nat /\ c \in Nat
  BY LenProperties DEF DnsLabel
<1>2. /\ label \in DnsLabel
      /\ Len(label) = a + b + c
      /\ \A i \in 1 .. a : label[i] = pre[i]
      /\ \A i \in 1 .. b : label[a + i] = x[i]
      /\ \A i \in 1 .. c : label[a + b + i] = post[i]
  BY AroundLabel
<1> HIDE DEF label
<1>3. SubSeq(label, 1, a) = pre
  <2> DEFINE t == SubSeq(label, 0 + 1, 0 + a)
  <2>1. 0 + a <= Len(label)
    BY <1>1, <1>2
  <2>2. t \in DnsLabel /\ Len(t) = a /\ \A i \in 1 .. a : t[i] = label[0 + i]
    BY <1>1, <1>2, <2>1, SubLabel DEF DnsLabel
  <2>3. \A i \in 1 .. a : 0 + i = i
    OBVIOUS
  <2> HIDE DEF t
  <2>4. t = pre
    BY <1>2, <2>2, <2>3, SeqEqual DEF DnsLabel
  <2>5. 0 + 1 = 1 /\ 0 + a = a
    BY <1>1
  <2> QED
    BY <2>4, <2>5 DEF t
<1>4. SubSeq(label, Len(label) - c + 1, Len(label)) = post
  <2> DEFINE t == SubSeq(label, (a + b) + 1, (a + b) + c)
  <2>1. (a + b) + c <= Len(label) /\ a + b \in Nat
    BY <1>1, <1>2
  <2>2. t \in DnsLabel /\ Len(t) = c /\ \A i \in 1 .. c : t[i] = label[(a + b) + i]
    BY <1>1, <1>2, <2>1, SubLabel DEF DnsLabel
  <2> HIDE DEF t
  <2>4. t = post
    BY <1>2, <2>2, SeqEqual DEF DnsLabel
  <2>5. Len(label) - c + 1 = (a + b) + 1 /\ (a + b) + c = Len(label)
    BY <1>1, <1>2
  <2> QED
    BY <2>4, <2>5 DEF t
<1>5. SubSeq(label, a + 1, a + b) = x
  <2> DEFINE t == SubSeq(label, a + 1, a + b)
  <2>1. a + b <= Len(label)
    BY <1>1, <1>2
  <2>2. t \in DnsLabel /\ Len(t) = b /\ \A i \in 1 .. b : t[i] = label[a + i]
    BY <1>1, <1>2, <2>1, SubLabel DEF DnsLabel
  <2> HIDE DEF t
  <2>3. t = x
    BY <1>2, <2>2, SeqEqual DEF DnsLabel
  <2> QED
    BY <2>3 DEF t
<1>6. Len(label) - a - c = b /\ b >= 0
  BY <1>1, <1>2
<1> QED
  BY <1>3, <1>4, <1>5, <1>6 DEF StripAround, label

\* and only a label with this prefix and suffix has a middle.
LEMMA StripExact ==
    ASSUME NEW label \in DnsLabel, NEW pre \in DnsLabel, NEW post \in DnsLabel,
           NEW x \in StripAround(label, pre, post)
    PROVE  x \in DnsLabel /\ label = pre \o x \o post
<1> DEFINE a == Len(pre)
           c == Len(post)
           n == Len(label)
           b == n - a - c
<1>1. a \in Nat /\ c \in Nat /\ n \in Nat
  BY LenProperties DEF DnsLabel
<1>2. /\ b >= 0
      /\ SubSeq(label, 1, a) = pre
      /\ SubSeq(label, n - c + 1, n) = post
      /\ x = SubSeq(label, a + 1, a + b)
  BY DEF StripAround
<1>3. b \in Nat /\ 0 + a <= n /\ a + b <= n /\ (a + b) + c <= n /\ a + b \in Nat
  BY <1>1, <1>2
<1>4. \A i \in 1 .. a : label[i] = pre[i]
  <2>1. \A i \in 1 .. a : SubSeq(label, 0 + 1, 0 + a)[i] = label[0 + i]
    BY <1>1, <1>3, SubLabel DEF DnsLabel
  <2>2. 0 + 1 = 1 /\ 0 + a = a /\ \A i \in 1 .. a : 0 + i = i
    BY <1>1
  <2> QED
    BY <1>2, <2>1, <2>2
<1>5. \A i \in 1 .. c : label[a + b + i] = post[i]
  <2>1. \A i \in 1 .. c : SubSeq(label, (a + b) + 1, (a + b) + c)[i] = label[(a + b) + i]
    BY <1>1, <1>3, SubLabel DEF DnsLabel
  <2>2. n - c + 1 = (a + b) + 1 /\ (a + b) + c = n
    BY <1>1
  <2> QED
    BY <1>2, <2>1, <2>2
<1>6. x \in DnsLabel /\ Len(x) = b /\ \A i \in 1 .. b : x[i] = label[a + i]
  BY <1>1, <1>2, <1>3, SubLabel DEF DnsLabel
<1> DEFINE t == pre \o x \o post
<1>7. /\ t \in DnsLabel
      /\ Len(t) = a + b + c
      /\ \A i \in 1 .. a : t[i] = pre[i]
      /\ \A i \in 1 .. b : t[a + i] = x[i]
      /\ \A i \in 1 .. c : t[a + b + i] = post[i]
  <2>1. /\ t \in DnsLabel
        /\ Len(t) = a + Len(x) + c
        /\ \A i \in 1 .. a : t[i] = pre[i]
        /\ \A i \in 1 .. Len(x) : t[a + i] = x[i]
        /\ \A i \in 1 .. c : t[a + Len(x) + i] = post[i]
    BY <1>6, AroundLabel
  <2>2. Len(x) = b
    BY <1>6
  <2> HIDE DEF b, t
  <2> QED
    BY <2>1, <2>2
<1>8. a + b + c = n
  BY <1>1
<1> HIDE DEF t, a, b, c, n
<1>9. ASSUME NEW i \in 1 .. n PROVE label[i] = t[i]
  <2>1. CASE i <= a
    BY <1>4, <1>7, <2>1
  <2>2. CASE i > a /\ i <= a + b
    <3>1. i - a \in 1 .. b /\ a + (i - a) = i
      BY <1>1, <1>3, <2>2
    <3> QED
      BY <1>6, <1>7, <3>1
  <2>3. CASE i > a + b
    <3>1. i - (a + b) \in 1 .. c /\ a + b + (i - (a + b)) = i
      BY <1>1, <1>3, <1>8, <2>3
    <3> QED
      BY <1>5, <1>7, <3>1
  <2> QED
    BY <1>1, <1>3, <2>1, <2>2, <2>3
<1>10. label = t
  BY <1>7, <1>8, <1>9, SeqEqual DEF DnsLabel, n
<1> QED
  BY <1>6, <1>10 DEF t

\* A host part that a dashed template accepts is made of full groups.
LEMMA FullGroups ==
    ASSUME NEW h \in Nat \ {0}, h % GROUP = 0
    PROVE  \E m \in Nat \ {0} : h = m * GROUP
<1> USE GroupAssumption
<1>1. PICK q \in Nat : h = GROUP * q + 0
  BY DivMod
<1>2. q # 0
  <2> SUFFICES ASSUME q = 0 PROVE FALSE
    OBVIOUS
  <2>1. GROUP * q = 0
    BY SMTT(20)
  <2> QED
    BY <1>1, <2>1
<1>3. GROUP * q = q * GROUP /\ q * GROUP \in Nat
  BY SMTT(20)
<1> QED
  BY <1>1, <1>2, <1>3

\* How many symbols the digits take depends on their number alone.
LEMMA WrittenType ==
    ASSUME NEW l \in FwdLabels, NEW h \in Nat \ {0}, l.dashed => h % GROUP = 0,
           NEW d \in DnsLabel, Len(d) = h, NEW e \in DnsLabel, Len(e) = h
    PROVE  /\ Written(l, d) \in DnsLabel
           /\ Len(Written(l, d)) = Len(Written(l, e))
<1>1. CASE l.dashed
  <2> PICK m \in Nat \ {0} : h = m * GROUP
    BY <1>1, FullGroups
  <2>1. /\ dash_group(d) \in DnsLabel
        /\ Len(dash_group(d)) = m * GROUP + m - 1
        /\ Len(dash_group(e)) = m * GROUP + m - 1
    BY DashType
  <2> QED
    BY <1>1, <2>1 DEF Written
<1>2. CASE ~ l.dashed
  BY <1>2 DEF Written
<1> QED
  BY <1>1, <1>2

\* The label of an address carries its host part.
LEMMA LabelHostOf ==
    ASSUME NEW l \in FwdLabels, NEW h \in 1 .. ADDR_NIBBLES, l.dashed => h % GROUP = 0,
           NEW a \in Address
    PROVE  LabelHost(l, l.pre \o Written(l, host_digits(a, h)) \o l.post, h)
             = {[p \in Position |-> IF p < h THEN a[p] ELSE 0]}
<1> DEFINE d == host_digits(a, h)
           w == Written(l, d)
           label == l.pre \o w \o l.post
           middle == StripAround(label, l.pre, l.post)
           host == [p \in Position |-> IF p < h THEN a[p] ELSE 0]
<1>1. h \in 0 .. ADDR_NIBBLES /\ h \in Nat \ {0}
  OBVIOUS
<1>2. d \in DnsLabel /\ Len(d) = h
  BY <1>1, HostDigitsType
<1>3. digits_to_host(d, h) = {host}
  BY <1>1, DigitsOfHost
<1>4. l.pre \in DnsLabel /\ l.post \in DnsLabel
  BY DEF FwdLabels
<1> HIDE DEF d, host
<1>5. w \in DnsLabel
  BY <1>1, <1>2, WrittenType
<1> HIDE DEF w
<1>6. middle = {w}
  BY <1>4, <1>5, StripRoundTrip
<1>7. CASE l.dashed
  <2> PICK m \in Nat \ {0} : h = m * GROUP
    BY <1>1, <1>7, FullGroups
  <2>1. w = dash_group(d)
    BY <1>7 DEF w, Written
  <2>2. undash_group(w, h) = {d}
    BY <1>2, <2>1, DashRoundTrip
  <2>3. UNION {undash_group(x, h) : x \in middle} = {d}
    BY <1>6, <2>2
  <2>4. LabelHost(l, label, h) = UNION {digits_to_host(x, h) : x \in {d}}
    BY <1>7, <2>3 DEF LabelHost
  <2> QED
    BY <1>3, <2>4 DEF d, w, host
<1>8. CASE ~ l.dashed
  <2>1. w = d
    BY <1>8 DEF w, Written
  <2>2. LabelHost(l, label, h) = UNION {digits_to_host(x, h) : x \in {d}}
    BY <1>6, <1>8, <2>1 DEF LabelHost
  <2> QED
    BY <1>3, <2>2 DEF d, w, host
<1> QED
  BY <1>7, <1>8

\* A label that carries a host part is the one that is written for it.
LEMMA LabelHostExact ==
    ASSUME NEW l \in FwdLabels, NEW h \in 1 .. ADDR_NIBBLES, l.dashed => h % GROUP = 0,
           NEW label \in DnsLabel, NEW b \in LabelHost(l, label, h)
    PROVE  /\ b \in Address
           /\ \A p \in Position : p >= h => b[p] = 0
           /\ label = l.pre \o Written(l, host_digits(b, h)) \o l.post
<1>1. h \in 0 .. ADDR_NIBBLES /\ h \in Nat \ {0}
  OBVIOUS
<1>2. l.pre \in DnsLabel /\ l.post \in DnsLabel
  BY DEF FwdLabels
<1>3. \E x \in StripAround(label, l.pre, l.post) :
        \E d \in (IF l.dashed THEN undash_group(x, h) ELSE {x}) : b \in digits_to_host(d, h)
  <2>1. CASE l.dashed
    <3>1. LabelHost(l, label, h)
            = UNION {digits_to_host(d, h) :
                d \in UNION {undash_group(x, h) : x \in StripAround(label, l.pre, l.post)}}
      BY <2>1 DEF LabelHost
    <3> QED
      BY <2>1, <3>1
  <2>2. CASE ~ l.dashed
    <3>1. LabelHost(l, label, h)
            = UNION {digits_to_host(d, h) : d \in StripAround(label, l.pre, l.post)}
      BY <2>2 DEF LabelHost
    <3> QED
      BY <2>2, <3>1
  <2> QED
    BY <2>1, <2>2
<1>4. PICK x \in StripAround(label, l.pre, l.post) :
        \E d \in (IF l.dashed THEN undash_group(x, h) ELSE {x}) : b \in digits_to_host(d, h)
  BY <1>3
<1>5. x \in DnsLabel /\ label = l.pre \o x \o l.post
  <2>1. \A pre \in DnsLabel : \A post \in DnsLabel : \A y \in StripAround(label, pre, post) :
          y \in DnsLabel /\ label = pre \o y \o post
    BY StripExact
  <2> QED
    BY <1>2, <2>1
<1>6. PICK d \in (IF l.dashed THEN undash_group(x, h) ELSE {x}) : b \in digits_to_host(d, h)
  BY <1>4
<1>7. d \in DnsLabel /\ Written(l, d) = x
  <2>1. CASE l.dashed
    <3> PICK m \in Nat \ {0} : h = m * GROUP
      BY <1>1, <2>1, FullGroups
    <3>1. d \in undash_group(x, m * GROUP)
      BY <1>6, <2>1
    <3>2. d \in DnsLabel /\ dash_group(d) = x
      BY <1>5, <3>1, DashExact
    <3> QED
      BY <2>1, <3>2 DEF Written
  <2>2. CASE ~ l.dashed
    BY <1>6, <1>5, <2>2 DEF Written
  <2> QED
    BY <2>1, <2>2
<1>8. /\ b \in Address
      /\ Len(d) = h
      /\ \A p \in Position : p >= h => b[p] = 0
      /\ \A i \in 1 .. h : ToHex(b[h - i]) = d[i]
  BY <1>1, <1>6, <1>7, HostOfDigits
<1>9. host_digits(b, h) = d
  <2>1. /\ host_digits(b, h) \in DnsLabel
        /\ Len(host_digits(b, h)) = h
        /\ \A i \in 1 .. h : host_digits(b, h)[i] = ToHex(b[h - i])
    BY <1>1, <1>8, HostDigitsType
  <2>2. \A i \in 1 .. h : host_digits(b, h)[i] = d[i]
    BY <1>8, <2>1
  <2> QED
    BY <1>7, <1>8, <2>1, <2>2, SeqEqual DEF DnsLabel
<1> QED
  BY <1>5, <1>7, <1>8, <1>9

\* The label that carries a host part has a digit, so it is not an asterisk.
LEMMA NotStar ==
    ASSUME NEW l \in FwdLabels, NEW h \in 1 .. ADDR_NIBBLES, l.dashed => h % GROUP = 0,
           NEW a \in Address
    PROVE  l.pre \o Written(l, host_digits(a, h)) \o l.post # Star
<1> DEFINE d == host_digits(a, h)
           w == Written(l, d)
           label == l.pre \o w \o l.post
<1>1. h \in 0 .. ADDR_NIBBLES /\ h \in Nat \ {0}
  OBVIOUS
<1>2. /\ d \in DnsLabel /\ Len(d) = h
      /\ \A i \in 1 .. h : d[i] = ToHex(a[h - i]) /\ a[h - i] \in Nibble
  BY <1>1, HostDigitsType
<1>3. d[1] # "*"
  BY <1>1, <1>2, ToHexDigit
<1> HIDE DEF d
<1>4. w \in DnsLabel /\ Len(w) >= 1 /\ w[1] = d[1]
  <2>1. CASE l.dashed
    <3> PICK m \in Nat \ {0} : h = m * GROUP
      BY <1>1, <2>1, FullGroups
    <3> DEFINE n == m * GROUP + m - 1
    <3>1. /\ dash_group(d) \in DnsLabel
          /\ Len(dash_group(d)) = n
          /\ \A j \in 1 .. n :
               dash_group(d)[j] = IF j % (GROUP + 1) = 0 THEN "-" ELSE d[j - j \div (GROUP + 1)]
      BY <1>2, DashType
    <3>2. n \in Nat /\ n >= 1
      BY <1>1, GroupAssumption
    <3>3. 1 % (GROUP + 1) = 1 /\ 1 \div (GROUP + 1) = 0
      <4>1. GROUP + 1 \in Nat \ {0} /\ 0 \in Nat /\ 1 \in 0 .. (GROUP + 1) - 1
        BY GroupAssumption
      <4> QED
        BY <4>1, SMTT(20)
    <3> HIDE DEF n
    <3>4. dash_group(d)[1] = d[1]
      BY <3>1, <3>2, <3>3
    <3> QED
      BY <2>1, <3>1, <3>2, <3>4 DEF Written
  <2>2. CASE ~ l.dashed
    BY <1>1, <1>2, <2>2 DEF Written
  <2> QED
    BY <2>1, <2>2
<1> HIDE DEF w
<1>5. l.pre \in DnsLabel /\ l.post \in DnsLabel
  BY DEF FwdLabels
<1>6. /\ Len(label) = Len(l.pre) + Len(w) + Len(l.post)
      /\ \A i \in 1 .. Len(w) : label[Len(l.pre) + i] = w[i]
  <2>1. \A pre \in DnsLabel : \A x \in DnsLabel : \A post \in DnsLabel :
          /\ Len(pre \o x \o post) = Len(pre) + Len(x) + Len(post)
          /\ \A i \in 1 .. Len(x) : (pre \o x \o post)[Len(pre) + i] = x[i]
    BY AroundLabel
  <2> QED
    BY <1>4, <1>5, <2>1
<1>7. Len(l.pre) \in Nat /\ Len(w) \in Nat /\ Len(l.post) \in Nat
  BY <1>4, <1>5, LenProperties DEF DnsLabel
<1> HIDE DEF label
<1>8. ASSUME label = Star PROVE FALSE
  <2>1. Len(label) = 1 /\ label[1] = "*"
    BY <1>8 DEF Star
  <2>2. Len(l.pre) = 0
    <3>1. \A x \in Nat : \A y \in Nat : \A v \in Nat : y >= 1 /\ x + y + v = 1 => x = 0
      OBVIOUS
    <3>2. Len(l.pre) + Len(w) + Len(l.post) = 1
      BY <1>6, <2>1
    <3> QED
      BY <1>4, <1>7, <3>1, <3>2
  <2>3. label[1] = w[1]
    BY <1>4, <1>6, <1>7, <2>2
  <2> QED
    BY <1>3, <1>4, <2>1, <2>3
<1> QED
  BY <1>8 DEF label, w, d

-----------------------------------------------------------------------------
(* Forward names.                                                          *)

\* The labels of a rendered name.
LEMMA RenderType ==
    ASSUME NEW fwd, NEW h \in Nat \ {0}, Template(fwd, h),
           NEW d \in DnsLabel, Len(d) = h
    PROVE  LET name == render(fwd, d)
               at == fwd.digits_at
               l == fwd.labels[at]
           IN  /\ name \in DnsName
               /\ Len(name) = Len(fwd.labels)
               /\ name[at] = l.pre \o Written(l, d) \o l.post
               /\ \A i \in 1 .. Len(fwd.labels) : i # at => name[i] = fwd.labels[i].pre
<1> DEFINE n == Len(fwd.labels)
           at == fwd.digits_at
           Text(i) == IF fwd.labels[i].digits
                        THEN fwd.labels[i].pre \o Written(fwd.labels[i], d) \o fwd.labels[i].post
                        ELSE fwd.labels[i].pre
<1>1. /\ n \in Nat /\ at \in 1 .. n
      /\ \A i \in 1 .. n : fwd.labels[i].digits <=> i = at
      /\ fwd.labels[at].dashed => h % GROUP = 0
  BY LenProperties DEF Template
<1>2. \A i \in 1 .. n : fwd.labels[i] \in FwdLabels
  BY ElementOfSeq DEF Template
<1>3. render(fwd, d) = [i \in 1 .. n |-> Text(i)]
  BY DEF render
<1>4. \A i \in 1 .. n : fwd.labels[i].pre \in DnsLabel /\ fwd.labels[i].post \in DnsLabel
  BY <1>2 DEF FwdLabels
<1>5. Written(fwd.labels[at], d) \in DnsLabel
  BY <1>1, <1>2, WrittenType
<1>6. fwd.labels[at].pre \o Written(fwd.labels[at], d) \o fwd.labels[at].post \in DnsLabel
  <2>1. \A x \in DnsLabel : \A y \in DnsLabel : \A z \in DnsLabel : x \o y \o z \in DnsLabel
    BY AroundAt DEF DnsLabel
  <2> QED
    BY <1>1, <1>4, <1>5, <2>1
<1>7. /\ Text(at) = fwd.labels[at].pre \o Written(fwd.labels[at], d) \o fwd.labels[at].post
      /\ \A i \in 1 .. n : i # at => Text(i) = fwd.labels[i].pre
  BY <1>1
<1>8. \A i \in 1 .. n : Text(i) \in DnsLabel
  BY <1>4, <1>6, <1>7
<1> HIDE DEF Text, n, at
<1>9. render(fwd, d) \in DnsName /\ Len(render(fwd, d)) = n
  BY <1>1, <1>3, <1>8, IsASeq DEF DnsName
<1>10. \A i \in 1 .. n : render(fwd, d)[i] = Text(i)
  BY <1>3
<1> QED
  BY <1>1, <1>7, <1>9, <1>10 DEF n, at

\* Whether a name can be represented depends on the lengths of its labels.
LEMMA SameShape ==
    ASSUME NEW x, NEW y, Len(x) = Len(y), \A i \in 1 .. Len(x) : Len(x[i]) = Len(y[i]),
           Representable(x)
    PROVE  Representable(y)
<1>1. {{i} \X (0 .. Len(x[i])) : i \in 1 .. Len(x)} = {{i} \X (0 .. Len(y[i])) : i \in 1 .. Len(y)}
  OBVIOUS
<1>2. WireLength(x) = WireLength(y)
  BY <1>1 DEF WireLength
<1> QED
  BY <1>2 DEF Representable

LEMMA WidestType ==
    ASSUME NEW h \in Nat
    PROVE  Widest(h) \in DnsLabel /\ Len(Widest(h)) = h
<1>1. HEX_LOWER[Len(HEX_LOWER)] \in STRING
  BY HexAssumption
<1> QED
  BY <1>1, IsASeq DEF Widest, DnsLabel

\* The check of the widest rendering covers every rendering.
LEMMA AllFit ==
    ASSUME NEW fwd, NEW h \in Nat \ {0}, Template(fwd, h),
           NEW d \in DnsLabel, Len(d) = h
    PROVE  Representable(render(fwd, d))
<1> DEFINE w == Widest(h)
           x == render(fwd, w)
           y == render(fwd, d)
           at == fwd.digits_at
           l == fwd.labels[at]
           n == Len(fwd.labels)
<1>1. w \in DnsLabel /\ Len(w) = h
  BY WidestType
<1> HIDE DEF w
<1>2. /\ Len(x) = n
      /\ x[at] = l.pre \o Written(l, w) \o l.post
      /\ \A i \in 1 .. n : i # at => x[i] = fwd.labels[i].pre
  BY <1>1, RenderType
<1>3. /\ Len(y) = n
      /\ y[at] = l.pre \o Written(l, d) \o l.post
      /\ \A i \in 1 .. n : i # at => y[i] = fwd.labels[i].pre
  BY RenderType
<1>4. at \in 1 .. n /\ l \in FwdLabels /\ (l.dashed => h % GROUP = 0)
  BY ElementOfSeq DEF Template
<1>5. l.pre \in DnsLabel /\ l.post \in DnsLabel
  BY <1>4 DEF FwdLabels
<1>6. /\ Written(l, w) \in DnsLabel /\ Written(l, d) \in DnsLabel
      /\ Len(Written(l, w)) = Len(Written(l, d))
  BY <1>1, <1>4, WrittenType
<1>7. Len(x[at]) = Len(y[at])
  <2>1. \A t \in DnsLabel : Len(l.pre \o t \o l.post) = Len(l.pre) + Len(t) + Len(l.post)
    <3>1. \A p \in DnsLabel : \A q \in DnsLabel : \A t \in DnsLabel :
            Len(p \o t \o q) = Len(p) + Len(t) + Len(q)
      BY AroundAt DEF DnsLabel
    <3> QED
      BY <1>5, <3>1
  <2> QED
    BY <1>2, <1>3, <1>6, <2>1
<1>8. Representable(x)
  BY DEF Template, w
<1> HIDE DEF x, y
<1>9. \A i \in 1 .. Len(x) : Len(x[i]) = Len(y[i])
  BY <1>2, <1>3, <1>7
<1>10. Representable(y)
  BY <1>2, <1>3, <1>8, <1>9, SameShape
<1> QED
  BY <1>10 DEF y

\* Host part and network make up the address.
LEMMA OrHost ==
    ASSUME NEW z, Compiled(z), NEW a \in Address, Contains(z, a),
           NEW n \in 1 .. ADDR_NIBBLES - 1, z.mask = 4 * n
    PROVE  Or(z.prefix, [p \in Position |-> IF p < ADDR_NIBBLES - n THEN a[p] ELSE 0]) = a
<1> DEFINE h == ADDR_NIBBLES - n
           host == [p \in Position |-> IF p < h THEN a[p] ELSE 0]
<1>1. /\ \A p \in Position : p < h => z.prefix[p] = 0
      /\ \A p \in Position : p >= h => a[p] = z.prefix[p]
  BY ContainsNibbles
<1>2. ASSUME NEW p \in Position PROVE (IF z.prefix[p] = 0 THEN host[p] ELSE z.prefix[p]) = a[p]
  <2>1. p \in Int /\ h \in Int
    BY DEF Position
  <2>2. CASE p < h
    BY <1>1, <2>2
  <2>3. CASE p >= h
    BY <1>1, <2>1, <2>3
  <2> QED
    BY <2>1, <2>2, <2>3
<1>3. [p \in Position |-> IF z.prefix[p] = 0 THEN host[p] ELSE z.prefix[p]] = [p \in Position |-> a[p]]
  BY <1>2
<1>4. a = [p \in Position |-> a[p]]
  BY DEF Address
<1> QED
  BY <1>3, <1>4 DEF Or

\* Every address of a zone has a forward name, which is matched as that address
\* where no asterisk is in front.
LEMMA ForwardRoundTrip ==
    ASSUME NEW z, Compiled(z), NEW a \in Address, Contains(z, a)
    PROVE  LET name == render(z.fwd, host_digits(a, z.host_nibbles))
           IN  /\ name \in DnsName
               /\ forward_name(z, a) = {name}
               /\ ~ Starred(z) => match_zone_forward(z, name) = {a}
<1> PICK n \in 1 .. ADDR_NIBBLES - 1 : z.mask = 4 * n /\ z.host_nibbles = ADDR_NIBBLES - n
  BY DEF Compiled
<1> DEFINE h == ADDR_NIBBLES - n
           d == host_digits(a, h)
           name == render(z.fwd, d)
           at == z.fwd.digits_at
           l == z.fwd.labels[at]
           host == [p \in Position |-> IF p < h THEN a[p] ELSE 0]
<1>1. h \in 0 .. ADDR_NIBBLES /\ h \in 1 .. ADDR_NIBBLES /\ h \in Nat \ {0}
  OBVIOUS
<1>2. Template(z.fwd, h)
  BY DEF Compiled
<1>3. d \in DnsLabel /\ Len(d) = h
  BY <1>1, HostDigitsType
<1>4. l \in FwdLabels /\ (l.dashed => h % GROUP = 0)
  BY <1>2, ElementOfSeq DEF Template
<1>5. LabelHost(l, l.pre \o Written(l, d) \o l.post, h) = {host}
  BY <1>1, <1>4, LabelHostOf
<1>6. Or(z.prefix, host) = a
  BY OrHost
<1> HIDE DEF d, h, host
<1>7. /\ name \in DnsName
      /\ Len(name) = Len(z.fwd.labels)
      /\ name[at] = l.pre \o Written(l, d) \o l.post
      /\ \A i \in 1 .. Len(z.fwd.labels) : i # at => name[i] = z.fwd.labels[i].pre
  BY <1>1, <1>2, <1>3, RenderType
<1>8. Representable(name)
  BY <1>1, <1>2, <1>3, AllFit
<1>9. z.host_nibbles = h
  BY DEF h
<1>10. forward_name(z, a) = {name}
  BY <1>8, <1>9 DEF forward_name, d
<1> HIDE DEF name
<1>11. ASSUME ~ Starred(z) PROVE match_zone_forward(z, name) = {a}
  <2>1. at \in 1 .. Len(z.fwd.labels) /\ 1 \in 1 .. Len(z.fwd.labels)
    BY <1>2, LenProperties DEF Template
  <2>2. name[1] # Star
    <3>1. CASE at = 1
      BY <1>1, <1>4, <1>7, <3>1, NotStar DEF d
    <3>2. CASE at # 1
      <4>1. name[1] = z.fwd.labels[1].pre
        BY <1>7, <2>1, <3>2
      <4> QED
        BY <1>11, <3>2, <4>1 DEF Starred
    <3> QED
      BY <3>1, <3>2
  <2>3. num_labels(name) = Len(z.fwd.labels)
    BY <1>7, <2>2 DEF num_labels
  <2>4. match_zone_forward(z, name) = {Or(z.prefix, b) : b \in {host}}
    BY <1>5, <1>7, <1>9, <2>3 DEF match_zone_forward
  <2> QED
    BY <1>6, <2>4
<1> QED
  BY <1>7, <1>9, <1>10, <1>11 DEF name, d

\* Without an asterisk in front, the labels that are counted are all there are.
LEMMA MatchedLabels ==
    ASSUME NEW z, Compiled(z), ~ Starred(z), NEW qname \in DnsName,
           match_zone_forward(z, qname) # {}
    PROVE  Len(qname) = Len(z.fwd.labels)
<1> PICK n \in 1 .. ADDR_NIBBLES - 1 : z.host_nibbles = ADDR_NIBBLES - n
  BY DEF Compiled
<1> DEFINE h == ADDR_NIBBLES - n
           at == z.fwd.digits_at
           l == z.fwd.labels[at]
<1>1. h \in 1 .. ADDR_NIBBLES
  OBVIOUS
<1>2. /\ num_labels(qname) = Len(z.fwd.labels)
      /\ \A i \in 1 .. Len(z.fwd.labels) : i # at => qname[i] = z.fwd.labels[i].pre
      /\ LabelHost(l, qname[at], h) # {}
  BY DEF match_zone_forward
<1>3. /\ at \in 1 .. Len(z.fwd.labels) /\ l \in FwdLabels /\ (l.dashed => h % GROUP = 0)
      /\ Len(z.fwd.labels) \in Nat
  BY ElementOfSeq, LenProperties DEF Compiled, Template
<1>4. Len(qname) \in Nat
  BY LenProperties DEF DnsName
<1> HIDE DEF h
<1>5. ASSUME qname # <<>>, qname[1] = Star PROVE FALSE
  <2>1. CASE at = 1
    <3>1. qname[at] \in DnsLabel
      BY <1>4, <1>5, <2>1, EmptySeq, ElementOfSeq DEF DnsName
    <3>2. PICK b \in LabelHost(l, qname[at], h) : TRUE
      BY <1>2
    <3>3. b \in Address /\ qname[at] = l.pre \o Written(l, host_digits(b, h)) \o l.post
      BY <1>1, <1>3, <3>1, LabelHostExact
    <3> QED
      BY <1>1, <1>3, <1>5, <2>1, <3>3, NotStar
  <2>2. CASE at # 1
    BY <1>2, <1>3, <1>5, <2>2 DEF Starred
  <2> QED
    BY <2>1, <2>2
<1> QED
  BY <1>2, <1>5 DEF num_labels

\* A name that a zone matches is the name it gives to that address.
LEMMA ForwardMatchExact ==
    ASSUME NEW z, Compiled(z), ~ Starred(z), NEW qname \in DnsName, NEW a \in match_zone_forward(z, qname)
    PROVE  /\ a \in Address
           /\ Contains(z, a)
           /\ forward_name(z, a) = {qname}
<1> PICK n \in 1 .. ADDR_NIBBLES - 1 : z.mask = 4 * n /\ z.host_nibbles = ADDR_NIBBLES - n
  BY DEF Compiled
<1> DEFINE h == ADDR_NIBBLES - n
           at == z.fwd.digits_at
           l == z.fwd.labels[at]
<1>1. h \in 0 .. ADDR_NIBBLES /\ h \in 1 .. ADDR_NIBBLES /\ h \in Nat \ {0}
  OBVIOUS
<1>2. Template(z.fwd, h)
  BY DEF Compiled
<1>3. /\ Len(qname) = Len(z.fwd.labels)
      /\ \A i \in 1 .. Len(z.fwd.labels) : i # at => qname[i] = z.fwd.labels[i].pre
      /\ \E b \in LabelHost(l, qname[at], h) : a = Or(z.prefix, b)
  BY MatchedLabels DEF match_zone_forward
<1>4. PICK b \in LabelHost(l, qname[at], h) : a = Or(z.prefix, b)
  BY <1>3
<1>5. at \in 1 .. Len(z.fwd.labels) /\ l \in FwdLabels /\ (l.dashed => h % GROUP = 0)
  BY <1>2, ElementOfSeq DEF Template
<1>6. qname[at] \in DnsLabel
  BY <1>3, <1>5, ElementOfSeq DEF DnsName
<1>7. /\ b \in Address
      /\ \A p \in Position : p >= h => b[p] = 0
      /\ qname[at] = l.pre \o Written(l, host_digits(b, h)) \o l.post
  BY <1>1, <1>4, <1>5, <1>6, LabelHostExact
<1>8. z.prefix \in Address
  BY DEF Compiled
<1>9. \A p \in Position : a[p] = IF z.prefix[p] = 0 THEN b[p] ELSE z.prefix[p]
  BY <1>4 DEF Or
<1>10. a \in Address
  BY <1>4, <1>7, <1>8 DEF Or, Address
<1>11. \A p \in Position : p < h => z.prefix[p] = 0
  BY <1>10, ContainsNibbles
<1>12. \A p \in Position : p \in Int
  BY DEF Position
<1>13. \A p \in Position : p >= h => a[p] = z.prefix[p]
  BY <1>7, <1>9
<1>14. Contains(z, a)
  BY <1>10, <1>13, ContainsNibbles
<1>15. \A p \in Position : p < h => a[p] = b[p]
  BY <1>9, <1>11
<1>16. host_digits(a, h) = host_digits(b, h)
  <2>1. \A i \in 1 .. h : h - i \in Position /\ h - i < h
    BY <1>1 DEF Position
  <2>2. \A i \in 1 .. h : ToHex(a[h - i]) = ToHex(b[h - i])
    BY <1>15, <2>1
  <2> QED
    BY <2>2 DEF host_digits
<1> DEFINE d == host_digits(a, h)
           name == render(z.fwd, d)
<1>17. d \in DnsLabel /\ Len(d) = h
  BY <1>1, <1>10, HostDigitsType
<1> HIDE DEF d
<1>18. /\ name \in DnsName
       /\ Len(name) = Len(z.fwd.labels)
       /\ name[at] = l.pre \o Written(l, d) \o l.post
       /\ \A i \in 1 .. Len(z.fwd.labels) : i # at => name[i] = z.fwd.labels[i].pre
  BY <1>1, <1>2, <1>17, RenderType
<1>19. name[at] = qname[at]
  BY <1>7, <1>16, <1>18 DEF d
<1> HIDE DEF name
<1>20. \A i \in 1 .. Len(name) : name[i] = qname[i]
  BY <1>3, <1>18, <1>19
<1>21. name = qname
  BY <1>3, <1>18, <1>20, SeqEqual DEF DnsName
<1>22. Representable(name)
  BY <1>1, <1>2, <1>17, AllFit DEF name
<1>23. forward_name(z, a) = {name}
  BY <1>22 DEF forward_name, d, name
<1> QED
  BY <1>10, <1>14, <1>21, <1>23

\* The forward apex is a name,
LEMMA ParentType ==
    ASSUME NEW fwd, NEW h, Template(fwd, h)
    PROVE  /\ parent(fwd) \in DnsName
           /\ Len(parent(fwd)) = Len(fwd.labels) - fwd.digits_at
           /\ \A k \in 1 .. Len(fwd.labels) - fwd.digits_at :
                parent(fwd)[k] = fwd.labels[fwd.digits_at + k].pre
<1> DEFINE n == Len(fwd.labels)
           at == fwd.digits_at
           tail == SubSeq(fwd.labels, at + 1, n)
<1>1. n \in Nat /\ at \in 1 .. n /\ n - at \in Nat /\ at \in Nat /\ at + (n - at) = n
  BY LenProperties DEF Template
<1>2. \A i \in 1 .. n : fwd.labels[i] \in FwdLabels /\ fwd.labels[i].pre \in DnsLabel
  <2>1. \A i \in 1 .. n : fwd.labels[i] \in FwdLabels
    BY ElementOfSeq DEF Template
  <2> HIDE DEF n
  <2> QED
    BY <2>1 DEF FwdLabels
<1>3. Len(tail) = n - at /\ \A k \in 1 .. n - at : tail[k] = fwd.labels[at + k]
  <2>1. PICK c \in Nat : c = n - at /\ at + c = n
    BY <1>1
  <2>2. fwd.labels \in Seq(FwdLabels) /\ at + c <= Len(fwd.labels)
    BY <1>1, <2>1 DEF Template
  <2> DEFINE t == SubSeq(fwd.labels, at + 1, at + c)
  <2>3. Len(t) = c /\ \A k \in 1 .. c : t[k] = fwd.labels[at + k]
    <3>1. \A s \in Seq(FwdLabels) : \A m \in Nat : \A k \in Nat : m + k <= Len(s) =>
            /\ Len(SubSeq(s, m + 1, m + k)) = k
            /\ \A i \in 1 .. k : SubSeq(s, m + 1, m + k)[i] = s[m + i]
      BY SubLabel
    <3> HIDE DEF at, n
    <3> QED
      BY <1>1, <2>2, <3>1
  <2>4. t = tail
    BY <2>1
  <2> HIDE DEF t, tail, n, at
  <2> QED
    BY <2>1, <2>3, <2>4
<1>4. parent(fwd) = [k \in 1 .. Len(tail) |-> tail[k].pre]
  BY DEF parent
<1> HIDE DEF n, at, tail
<1>5. \A k \in 1 .. n - at : tail[k].pre \in DnsLabel /\ tail[k].pre = fwd.labels[at + k].pre
  BY <1>1, <1>2, <1>3
<1>6. parent(fwd) = [k \in 1 .. n - at |-> tail[k].pre]
  BY <1>3, <1>4
<1>7. parent(fwd) \in DnsName /\ Len(parent(fwd)) = n - at
  BY <1>1, <1>5, <1>6, IsASeq DEF DnsName
<1>8. \A k \in 1 .. n - at : parent(fwd)[k] = fwd.labels[at + k].pre
  BY <1>5, <1>6
<1> QED
  BY <1>7, <1>8 DEF n, at

\* and every name the zone matches is below it.
LEMMA MatchBelowParent ==
    ASSUME NEW z, Compiled(z), ~ Starred(z), NEW qname \in DnsName,
           match_zone_forward(z, qname) # {}
    PROVE  ZoneOf(z.fwd_parent, qname)
<1> DEFINE n == Len(z.fwd.labels)
           at == z.fwd.digits_at
           apex == z.fwd_parent
<1>1. /\ Len(qname) = n
      /\ \A i \in 1 .. n : i # at => qname[i] = z.fwd.labels[i].pre
  BY MatchedLabels DEF match_zone_forward
<1>2. n \in Nat /\ at \in 1 .. n
  BY LenProperties DEF Compiled, Template
<1>3. /\ apex \in DnsName
      /\ Len(apex) = n - at
      /\ \A k \in 1 .. n - at : apex[k] = z.fwd.labels[at + k].pre
  BY ParentType DEF Compiled
<1> HIDE DEF n, at, apex
<1>4. Len(apex) <= Len(qname) /\ Len(qname) - Len(apex) = at
  BY <1>1, <1>2, <1>3
<1>5. \A k \in 1 .. Len(apex) : qname[Len(qname) - Len(apex) + k] = apex[k]
  <2> SUFFICES ASSUME NEW k \in 1 .. n - at PROVE qname[at + k] = apex[k]
    BY <1>3, <1>4
  <2>1. at + k \in 1 .. n /\ at + k # at
    BY <1>2
  <2> QED
    BY <1>1, <1>3, <2>1 DEF n
<1> QED
  BY <1>3, <1>4, <1>5, ZoneOfLabels DEF apex

-----------------------------------------------------------------------------
(* Compiling.                                                              *)

\* The one placeholder of an accepted pattern, and where it is.
LEMMA OneHit ==
    ASSUME NEW pattern \in RawPatterns, Cardinality(Hits(pattern)) = 1
    PROVE  \E i \in 1 .. Len(pattern.segments) : \E j \in 1 .. Len(pattern.segments[i]) :
             The(Hits(pattern)) = <<i, j>>
<1>1. Hits(pattern) # {}
  BY FS_EmptySet
<1>2. The(Hits(pattern)) \in Hits(pattern)
  BY <1>1, TheMember
<1> QED
  BY <1>2 DEF Hits

\* An accepted pattern compiles to a template whose renderings fit.
LEMMA CompileTemplate ==
    ASSUME NEW pattern \in RawPatterns, NEW h, TemplateOK(pattern, h)
    PROVE  Template(compile_template(pattern), h)
<1> DEFINE segments == pattern.segments
           n == Len(segments)
           fwd == compile_template(pattern)
<1>1. segments \in DnsName /\ n \in Nat /\ \A i \in 1 .. n : segments[i] \in DnsLabel
  BY LenProperties, ElementOfSeq DEF RawPatterns, DnsName
<1>2. PICK at \in 1 .. n : \E j \in 1 .. Len(segments[at]) : The(Hits(pattern)) = <<at, j>>
  BY OneHit DEF TemplateOK
<1>3. PICK j \in 1 .. Len(segments[at]) : The(Hits(pattern)) = <<at, j>>
  BY <1>2
<1> DEFINE Label(i) ==
             IF i = at
               THEN Digits(SubSeq(segments[i], 1, j - 1), SubSeq(segments[i], j + 1, Len(segments[i])),
                           segments[i][j] = PlaceholderDashed)
               ELSE Literal(segments[i])
<1>4. fwd = [labels |-> [i \in 1 .. n |-> Label(i)], digits_at |-> at]
  BY <1>3 DEF compile_template
<1>5. ASSUME NEW i \in 1 .. n PROVE Label(i) \in FwdLabels /\ (Label(i).digits <=> i = at)
  <2>1. segments[i] \in DnsLabel
    BY <1>1
  <2>2. <<>> \in DnsLabel
    BY EmptySeq DEF DnsLabel
  <2>3. CASE i = at
    <3>1. Len(segments[i]) \in Nat /\ j \in 1 .. Len(segments[i])
      BY <2>1, <2>3, <1>3, LenProperties DEF DnsLabel
    <3>2. \A k \in 1 .. Len(segments[i]) : segments[i][k] \in STRING
      BY <2>1, ElementOfSeq DEF DnsLabel
    <3>3. SubSeq(segments[i], 1, j - 1) \in DnsLabel
      <4>1. \A k \in 1 .. j - 1 : segments[i][k] \in STRING
        BY <3>1, <3>2
      <4>2. 1 \in Int /\ j - 1 \in Int
        BY <3>1
      <4> QED
        BY <4>1, <4>2, SubSeqProperties DEF DnsLabel
    <3>4. SubSeq(segments[i], j + 1, Len(segments[i])) \in DnsLabel
      <4>1. \A k \in j + 1 .. Len(segments[i]) : segments[i][k] \in STRING
        BY <3>1, <3>2
      <4>2. j + 1 \in Int /\ Len(segments[i]) \in Int
        BY <3>1
      <4> QED
        BY <4>1, <4>2, SubSeqProperties DEF DnsLabel
    <3> QED
      BY <2>3, <3>3, <3>4 DEF Digits, FwdLabels
  <2>4. CASE i # at
    BY <2>1, <2>2, <2>4 DEF Literal, FwdLabels
  <2> QED
    BY <2>3, <2>4
<1> HIDE DEF Label, fwd, n
<1>6. fwd.labels \in Seq(FwdLabels) /\ Len(fwd.labels) = n
  BY <1>1, <1>4, <1>5, IsASeq
<1>7. fwd.digits_at = at /\ \A i \in 1 .. n : fwd.labels[i] = Label(i)
  BY <1>4
<1>8. \A i \in 1 .. n : fwd.labels[i].digits <=> i = at
  BY <1>5, <1>7
<1>9. /\ fwd.labels[fwd.digits_at].dashed => h % GROUP = 0
      /\ Representable(render(fwd, Widest(h)))
  BY DEF TemplateOK, fwd
<1> QED
  BY <1>2, <1>6, <1>7, <1>8, <1>9 DEF Template, fwd

\* The mask of an accepted network, in nibbles.
LEMMA MaskInNibbles ==
    ASSUME NEW mask \in Nat, mask <= ADDR_BITS, mask % 4 = 0, mask # 0, mask # ADDR_BITS
    PROVE  \E n \in 1 .. ADDR_NIBBLES - 1 : mask = 4 * n /\ HostNibbles(mask) = ADDR_NIBBLES - n
<1>1. PICK n \in Nat : mask = 4 * n
  BY DivMod
<1>2. n \in 1 .. ADDR_NIBBLES - 1
  BY <1>1 DEF ADDR_BITS
<1>3. HostNibbles(mask) = ADDR_NIBBLES - n
  <2>1. ADDR_BITS - mask = 4 * (ADDR_NIBBLES - n) + 0
    BY <1>1, <1>2 DEF ADDR_BITS
  <2>2. (4 * (ADDR_NIBBLES - n) + 0) \div 4 = ADDR_NIBBLES - n
    BY <1>2
  <2> QED
    BY <2>1, <2>2 DEF HostNibbles
<1> QED
  BY <1>1, <1>2, <1>3

\* An accepted zone compiles to what the rest of the code takes for granted.
LEMMA ZoneCompiled ==
    ASSUME NEW raw \in RawZones, ZoneOK(raw)
    PROVE  Compiled(compile_zone(raw))
<1> DEFINE prefix == The(raw.network.addr)
           mask == The(raw.network.mask)
           pattern == The(raw.resolves_to)
           fwd == compile_template(pattern)
           z == compile_zone(raw)
<1>1. raw.network \in RawNetworks /\ raw.resolves_to \in SUBSET RawPatterns
  BY DEF RawZones
<1>2. raw.network.addr \in SUBSET Address /\ raw.network.mask \in SUBSET Nat
  BY <1>1 DEF RawNetworks
<1>3. NetworkOK(raw.network) /\ raw.resolves_to # {} /\ TemplateOK(pattern, HostNibbles(mask))
  BY DEF ZoneOK
<1>4. prefix \in Address
  BY <1>2, <1>3, TheMember DEF NetworkOK
<1>5. mask \in Nat
  BY <1>2, <1>3, TheMember DEF NetworkOK
<1>6. pattern \in RawPatterns
  BY <1>1, <1>3, TheMember
<1>7. /\ mask <= ADDR_BITS /\ mask % 4 = 0 /\ mask # 0 /\ mask # ADDR_BITS
      /\ prefix = Masked(prefix, mask)
  BY <1>3 DEF NetworkOK
<1> HIDE DEF prefix, mask, pattern
<1>8. \E n \in 1 .. ADDR_NIBBLES - 1 : mask = 4 * n /\ HostNibbles(mask) = ADDR_NIBBLES - n
  BY <1>5, <1>7, MaskInNibbles
<1>9. Template(fwd, HostNibbles(mask))
  BY <1>3, <1>6, CompileTemplate
<1> HIDE DEF fwd
<1>10. /\ z.prefix = prefix /\ z.mask = mask /\ z.host_nibbles = HostNibbles(mask)
       /\ z.ptr_zone = netmask_to_ptr_name(prefix, mask)
       /\ z.fwd = fwd /\ z.fwd_parent = parent(fwd)
  BY DEF compile_zone, prefix, mask, pattern, fwd
<1> HIDE DEF z
<1>11. Compiled(z)
  BY <1>4, <1>7, <1>8, <1>9, <1>10 DEF Compiled
<1> QED
  BY <1>11 DEF z

\* The zones of an accepted file are compiled, and longer masks come first.
LEMMA ZonesCompiled ==
    ASSUME NEW raws \in Seq(RawZones), ZonesOK(raws)
    PROVE  LET zs == compile_zones(raws)
           IN  /\ Len(zs) \in Nat
               /\ \A i \in 1 .. Len(zs) : Compiled(zs[i])
               /\ \A i \in 1 .. Len(zs) : \A j \in 1 .. Len(zs) :
                    i <= j => zs[j].mask <= zs[i].mask
<1> DEFINE n == Len(raws)
           Z == {compile_zone(raw) : raw \in RawZones}
           ys == [i \in 1 .. n |-> compile_zone(raws[i])]
           zs == SortByMask(ys)
<1>1. n \in Nat /\ \A i \in 1 .. n : raws[i] \in RawZones /\ ZoneOK(raws[i])
  BY LenProperties, ElementOfSeq DEF ZonesOK
<1>2. \A i \in 1 .. n : compile_zone(raws[i]) \in Z /\ Compiled(compile_zone(raws[i]))
  BY <1>1, ZoneCompiled
<1>3. ys \in Seq(Z) /\ Len(ys) = n
  <2> HIDE DEF Z, n
  <2> QED
    BY <1>1, <1>2, IsASeq
<1>4. \A i \in 1 .. n : Compiled(ys[i])
  BY <1>2
<1> HIDE DEF n, Z, ys
<1>5. \A i \in 1 .. n : ys[i].mask \in Nat
  <2> SUFFICES ASSUME NEW i \in 1 .. n PROVE ys[i].mask \in Nat
    OBVIOUS
  <2>1. PICK k \in 1 .. ADDR_NIBBLES - 1 : ys[i].mask = 4 * k
    BY <1>4 DEF Compiled
  <2> QED
    BY <2>1
<1>6. /\ Len(zs) = n
      /\ \A r \in 1 .. n : \E i \in 1 .. n : zs[r] = ys[i]
      /\ \A r \in 1 .. n : \A s \in 1 .. n : r <= s => zs[s].mask <= zs[r].mask
  BY <1>3, <1>5, SortedByMask
<1> HIDE DEF zs
<1>7. \A r \in 1 .. n : Compiled(zs[r])
  BY <1>4, <1>6
<1>8. compile_zones(raws) = zs
  BY DEF compile_zones, ys, zs, n
<1> QED
  BY <1>1, <1>6, <1>7, <1>8
=============================================================================
