----------------------------- MODULE RrlProofs ------------------------------
(***************************************************************************)
(* Theorems about the rate limiter, for every set of clients and tasks,    *)
(* every burst and slip, and every counter width.                          *)
(*                                                                         *)
(* RateBounded is not inductive: a bucket with many cells left could       *)
(* exceed the bound later.  BudgetConserved adds the cells a bucket still  *)
(* holds, and is.  SlipKept needs to know how the number of drops follows  *)
(* the counter (DropsFollowCounter).                                       *)
(***************************************************************************)
EXTENDS RrlHistory, NaturalsInduction, WellFoundedInduction, TLAPS

USE BurstAssumption, SlipAssumption, CounterAssumption, ElapsedAssumption

HType ==
    /\ granted \in [Bucket -> Nat]
    /\ elapsed \in Nat
    /\ drops \in Nat

\* Between two truncations the drops are counted by the counter modulo slip.
DropsFollowCounter ==
    SLIP > 0 => /\ drops < SLIP
                /\ suppressed % SLIP # 0 => drops = (suppressed % SLIP) - 1

IInv == TypeOK /\ HType /\ BudgetConserved /\ DropsFollowCounter

\* The bucket of a response to a known client is one of the buckets.
LEMMA BucketOf == \A r \in Response : OwnBucket(r) \in Bucket
BY DEF Response, OwnBucket, Bucket, Key

\* A bucket holds at most burst cells, a forgotten one exactly that many.
LEMMA CellsType ==
    ASSUME TypeOK, NEW b \in Bucket
    PROVE  Cells(bucket[b]) \in 0 .. BURST
BY DEF TypeOK, Cells, Untracked

\* The limiter starts with nothing tracked and nothing suppressed.
LEMMA InitIInv == HInit => IInv
<1> SUFFICES ASSUME HInit PROVE IInv
  OBVIOUS
<1>1. TypeOK
  BY DEF HInit, Init, TypeOK, Decision
<1>2. HType
  BY DEF HInit, HType
<1>3. BudgetConserved
  BY DEF HInit, Init, BudgetConserved, Cells, Untracked
<1>4. DropsFollowCounter
  BY DEF HInit, Init, DropsFollowCounter
<1> QED
  BY <1>1, <1>2, <1>3, <1>4 DEF IInv

\* A response that is let through moves one cell from the bucket to the tally.
LEMMA GrantIInv == ASSUME NEW t \in Task PROVE IInv /\ HGrant(t) => IInv'
<1> SUFFICES ASSUME IInv, HGrant(t) PROVE IInv'
  OBVIOUS
<1> PICK b \in Bucket : Grant(t, b) /\ granted' = [granted EXCEPT ![b] = @ + 1]
  BY BucketOf DEF HGrant
<1>1. elapsed' = elapsed /\ drops' = drops /\ suppressed' = suppressed
  BY DEF HGrant, Grant
<1>2. TypeOK /\ HType
  BY DEF IInv
<1>3. Cells(bucket[b]) \in 1 .. BURST
  BY <1>2, CellsType DEF Grant
<1>4. /\ bucket'[b] = Cells(bucket[b]) - 1
      /\ \A d \in Bucket : d # b => bucket'[d] = bucket[d]
      /\ granted'[b] = granted[b] + 1
      /\ \A d \in Bucket : d # b => granted'[d] = granted[d]
  BY <1>2 DEF Grant, TypeOK, HType
<1>5. TypeOK'
  BY <1>2, <1>3, <1>4 DEF TypeOK, Grant, Decide, Decision
<1>6. HType'
  BY <1>1, <1>2 DEF HType
<1>7. BudgetConserved'
  <2> SUFFICES ASSUME NEW d \in Bucket
               PROVE  granted'[d] + Cells(bucket'[d]) <= BURST + elapsed
    BY <1>1 DEF BudgetConserved
  <2>1. granted[d] + Cells(bucket[d]) <= BURST + elapsed
    BY DEF IInv, BudgetConserved
  <2>2. CASE d = b
    <3>1. Cells(bucket'[b]) = Cells(bucket[b]) - 1
      BY <1>3, <1>4 DEF Cells, Untracked
    <3> QED
      BY <1>2, <1>3, <1>4, <2>1, <2>2, <3>1 DEF HType
  <2>3. CASE d # b
    BY <1>4, <2>1, <2>3
  <2> QED
    BY <2>2, <2>3
<1>8. DropsFollowCounter'
  BY <1>1 DEF IInv, DropsFollowCounter
<1> QED
  BY <1>5, <1>6, <1>7, <1>8 DEF IInv

\* Division with remainder.
LEMMA DivMod ==
    ASSUME NEW d \in Nat, d > 0, NEW n \in Nat
    PROVE  /\ n = d * (n \div d) + (n % d)
           /\ n \div d \in Int
           /\ n % d \in 0 .. d - 1
<1>1. n = d * (n \div d) + (n % d)
  BY SMTT(20)
<1> QED
  BY <1>1, SMTT(20)

\* The remainder is unique.
LEMMA ModUnique ==
    ASSUME NEW d \in Nat, d > 0, NEW n \in Nat, NEW q \in Int, NEW r \in 0 .. d - 1,
           n = d * q + r
    PROVE  n % d = r
BY SMTT(30)

\* The remainder of the successor.
LEMMA ModSucc ==
    ASSUME NEW d \in Nat, d > 0, NEW n \in Nat
    PROVE  (n + 1) % d = IF n % d = d - 1 THEN 0 ELSE (n % d) + 1
<1>1. PICK q \in Int, r \in 0 .. d - 1 : n = d * q + r /\ r = n % d
  BY DivMod
<1>2. CASE r = d - 1
  <2>1. n + 1 = d * (q + 1) + 0 /\ q + 1 \in Int /\ 0 \in 0 .. d - 1 /\ n + 1 \in Nat
    BY <1>1, <1>2
  <2>2. (n + 1) % d = 0
    BY <2>1, ModUnique
  <2> QED
    BY <1>1, <1>2, <2>2
<1>3. CASE r # d - 1
  <2>1. n + 1 = d * q + (r + 1) /\ r + 1 \in 0 .. d - 1 /\ n + 1 \in Nat
    BY <1>1, <1>3
  <2>2. (n + 1) % d = r + 1
    BY <2>1, ModUnique
  <2> QED
    BY <1>1, <1>3, <2>2
<1> QED
  BY <1>2, <1>3

\* What slip does at each value of the counter, the wrap-around included.
LEMMA CounterStep ==
    ASSUME SLIP > 0, NEW n \in 0 .. COUNTER - 1
    PROVE  /\ n % SLIP \in 0 .. SLIP - 1
           /\ (n + 1) % COUNTER \in {0, n + 1}
           /\ (n + 1) % SLIP = IF n % SLIP = SLIP - 1 THEN 0 ELSE (n % SLIP) + 1
           /\ 0 % SLIP = 0
<1>1. n \in Nat /\ n + 1 \in Nat /\ COUNTER > 0
  OBVIOUS
<1>2. (n + 1) % COUNTER = IF n + 1 = COUNTER THEN 0 ELSE n + 1
  <2>1. CASE n + 1 = COUNTER
    <3>1. n + 1 = COUNTER * 1 + 0 /\ 0 \in 0 .. COUNTER - 1
      BY <2>1
    <3>2. (n + 1) % COUNTER = 0
      BY <1>1, <3>1, ModUnique
    <3> QED
      BY <2>1, <3>2
  <2>2. CASE n + 1 # COUNTER
    <3>1. n + 1 = COUNTER * 0 + (n + 1) /\ n + 1 \in 0 .. COUNTER - 1
      BY <2>2
    <3>2. (n + 1) % COUNTER = n + 1
      BY <1>1, <3>1, ModUnique
    <3> QED
      BY <2>2, <3>2
  <2> QED
    BY <2>1, <2>2
<1>3. 0 % SLIP = 0
  BY ModUnique
<1> QED
  BY <1>1, <1>2, <1>3, DivMod, ModSucc

\* A suppressed response: a truncated one starts the count of drops again.
LEMMA SuppressIInv == ASSUME NEW t \in Task PROVE IInv /\ HSuppress(t) => IInv'
<1> SUFFICES ASSUME IInv, HSuppress(t) PROVE IInv'
  OBVIOUS
<1> USE DEF HSuppress, Suppress
<1>1. TypeOK /\ HType /\ BudgetConserved /\ DropsFollowCounter
  BY DEF IInv
<1>2. suppressed \in 0 .. COUNTER - 1 /\ suppressed' \in 0 .. COUNTER - 1
  BY <1>1 DEF TypeOK
<1>3. TypeOK'
  BY <1>1, <1>2 DEF TypeOK, Decide, Decision
<1>4. HType'
  BY <1>1 DEF HType
<1>5. BudgetConserved'
  BY <1>1 DEF BudgetConserved
<1>6. DropsFollowCounter'
  <2> SUFFICES ASSUME SLIP > 0
               PROVE  /\ drops' < SLIP
                      /\ suppressed' % SLIP # 0 => drops' = (suppressed' % SLIP) - 1
    BY DEF DropsFollowCounter
  <2>1. /\ drops \in Nat
        /\ drops < SLIP
        /\ suppressed % SLIP # 0 => drops = (suppressed % SLIP) - 1
    BY <1>1 DEF DropsFollowCounter, HType
  <2>2. CASE suppressed % SLIP = 0
    <3>1. drops' = 0
      BY <2>2 DEF Slips
    <3>2. suppressed' \in {0, suppressed + 1}
      BY <1>2, CounterStep
    <3>3. (suppressed + 1) % SLIP \in {0, 1} /\ 0 % SLIP = 0
      BY <1>2, <2>2, CounterStep
    <3> QED
      BY <3>1, <3>2, <3>3
  <2>3. CASE suppressed % SLIP # 0
    BY <1>2, <2>1, <2>3, CounterStep DEF Slips
  <2> QED
    BY <2>2, <2>3
<1> QED
  BY <1>3, <1>4, <1>5, <1>6 DEF IInv

\* Time gives every bucket at most one cell, and lengthens the window by one.
LEMMA TickIInv == IInv /\ HTick => IInv'
<1> SUFFICES ASSUME IInv, HTick PROVE IInv'
  OBVIOUS
<1> USE DEF HTick, Tick
<1>1. TypeOK /\ HType /\ BudgetConserved /\ DropsFollowCounter
  BY DEF IInv
<1>2. TypeOK'
  BY <1>1 DEF TypeOK, Refill, Untracked
<1>3. HType'
  BY <1>1 DEF HType
<1>4. BudgetConserved'
  <2> SUFFICES ASSUME NEW b \in Bucket
               PROVE  granted'[b] + Cells(bucket'[b]) <= BURST + elapsed'
    BY DEF BudgetConserved
  <2>1. Cells(bucket'[b]) <= Cells(bucket[b]) + 1 /\ Cells(bucket'[b]) \in Nat
    BY <1>1 DEF TypeOK, Cells, Refill, Untracked
  <2> QED
    BY <1>1, <2>1, CellsType DEF BudgetConserved, HType
<1>5. DropsFollowCounter'
  BY <1>1 DEF DropsFollowCounter
<1> QED
  BY <1>2, <1>3, <1>4, <1>5 DEF IInv

\* retain_recent changes no bucket's cells: it forgets only full ones.
LEMMA RetainKeepsCells ==
    ASSUME NEW kind \in Kind, TypeOK, RetainRecent(kind)
    PROVE  /\ bucket' \in [Bucket -> {Untracked} \cup 0 .. BURST]
           /\ \A b \in Bucket : Cells(bucket'[b]) = Cells(bucket[b])
BY DEF TypeOK, RetainRecent, Cells, Untracked

\* The sweep is invisible to the budget.
LEMMA SweepIInv == IInv /\ HSweep => IInv'
<1> SUFFICES ASSUME IInv, HSweep PROVE IInv'
  OBVIOUS
<1>1. TypeOK /\ HType /\ BudgetConserved /\ DropsFollowCounter
  BY DEF IInv
<1>2. \E kind \in Kind : RetainRecent(kind)
  BY DEF HSweep, SweepAnswers, SweepNegatives, Kind
<1>3. /\ bucket' \in [Bucket -> {Untracked} \cup 0 .. BURST]
      /\ \A b \in Bucket : Cells(bucket'[b]) = Cells(bucket[b])
  BY <1>1, <1>2, RetainKeepsCells
<1>4. TypeOK'
  BY <1>1, <1>3 DEF TypeOK, HSweep, SweepAnswers, SweepNegatives
<1>5. HType'
  BY <1>1 DEF HType, HSweep
<1>6. BudgetConserved'
  BY <1>1, <1>3 DEF BudgetConserved, HSweep
<1>7. DropsFollowCounter'
  BY <1>1 DEF DropsFollowCounter, HSweep, SweepAnswers, SweepNegatives
<1> QED
  BY <1>4, <1>5, <1>6, <1>7 DEF IInv

\* A new window may be opened at any moment: no bucket holds more than burst.
LEMMA StartWindowIInv == IInv /\ StartWindow => IInv'
<1> SUFFICES ASSUME IInv, StartWindow PROVE IInv'
  OBVIOUS
<1> USE DEF IInv, StartWindow, vars
<1>1. TypeOK'
  BY DEF TypeOK
<1>2. HType'
  BY DEF HType
<1>3. BudgetConserved'
  BY CellsType DEF BudgetConserved
<1>4. DropsFollowCounter'
  BY DEF DropsFollowCounter
<1> QED
  BY <1>1, <1>2, <1>3, <1>4

\* Being exempt, or being found over budget, changes nothing that is counted.
LEMMA UncountedIInv == ASSUME NEW t \in Task PROVE IInv /\ (HExempt(t) \/ HExceed(t)) => IInv'
<1> SUFFICES ASSUME IInv, HExempt(t) \/ HExceed(t) PROVE IInv'
  OBVIOUS
<1>1. /\ UNCHANGED <<bucket, suppressed, sweeper, granted, elapsed, drops>>
      /\ \E d \in {"Allow", "over"} : Decide(t, d)
  BY DEF HExempt, HExceed, Exempt, Exceed
<1> QED
  BY <1>1 DEF IInv, TypeOK, HType, BudgetConserved, DropsFollowCounter, Decide, Decision

\* The inductive invariant holds throughout every behaviour.
THEOREM Invariance == HSpec => []IInv
<1>1. ASSUME IInv, [HNext]_hvars PROVE IInv'
  <2>1. CASE HNext
    BY <1>1, <2>1, GrantIInv, SuppressIInv, UncountedIInv, TickIInv, SweepIInv,
       StartWindowIInv DEF HNext
  <2>2. CASE UNCHANGED hvars
    BY <1>1, <2>2 DEF IInv, TypeOK, HType, BudgetConserved, DropsFollowCounter, hvars, vars
  <2> QED
    BY <1>1, <2>1, <2>2
<1> QED
  BY InitIInv, <1>1, PTL DEF HSpec

\* In every window a client prefix gets at most burst responses of one kind
\* plus one per replenishment interval, however decide, the clock and the
\* sweep task interleave.
THEOREM RateTheorem == HSpec => []RateBounded
<1>1. IInv => RateBounded
  <2> SUFFICES ASSUME IInv, NEW b \in Bucket PROVE granted[b] <= BURST + elapsed
    BY DEF RateBounded
  <2>1. Cells(bucket[b]) \in 0 .. BURST
    BY CellsType DEF IInv
  <2> QED
    BY <2>1 DEF IInv, HType, BudgetConserved
<1> QED
  BY Invariance, <1>1, PTL

\* Fewer than slip responses in a row are dropped, for every slip and every
\* width of the counter, whether or not slip divides 2^64.
THEOREM SlipTheorem == HSpec => []SlipKept
<1>1. IInv => SlipKept
  BY DEF IInv, DropsFollowCounter, SlipKept
<1> QED
  BY Invariance, <1>1, PTL

-----------------------------------------------------------------------------
(* The limiter implements buckets that are never forgotten.                *)

\* Every step of the limiter keeps the types.
LEMMA TypeStep == ASSUME TypeOK, [Next]_vars PROVE TypeOK'
<1>1. ASSUME NEW t \in Task, Exempt(t) \/ (\E b \in Bucket : Exceed(t, b)) PROVE TypeOK'
  <2>1. \E d \in {"Allow", "over"} : Decide(t, d)
    BY <1>1 DEF Exempt, Exceed
  <2> QED
    BY <1>1, <2>1 DEF TypeOK, Exempt, Exceed, Decide, Decision
<1>2. ASSUME NEW t \in Task, NEW b \in Bucket, Grant(t, b) PROVE TypeOK'
  <2>1. Cells(bucket[b]) - 1 \in 0 .. BURST
    BY <1>2, CellsType DEF Grant
  <2> QED
    BY <1>2, <2>1 DEF TypeOK, Grant, Decide, Decision
<1>3. ASSUME NEW t \in Task, Suppress(t) PROVE TypeOK'
  <2>1. suppressed' \in 0 .. COUNTER - 1
    BY <1>3, DivMod DEF TypeOK, Suppress
  <2> QED
    BY <1>3, <2>1 DEF TypeOK, Suppress, Decide, Decision
<1>4. CASE SweepAnswers \/ SweepNegatives
  <2>1. \E kind \in Kind : RetainRecent(kind)
    BY <1>4 DEF SweepAnswers, SweepNegatives, Kind
  <2>2. bucket' \in [Bucket -> {Untracked} \cup 0 .. BURST]
    BY <2>1, RetainKeepsCells
  <2> QED
    BY <1>4, <2>2 DEF TypeOK, SweepAnswers, SweepNegatives
<1>5. CASE Tick
  BY <1>5 DEF TypeOK, Tick, Refill, Untracked
<1>6. CASE UNCHANGED vars
  BY <1>6 DEF TypeOK, vars
<1> QED
  BY <1>1, <1>2, <1>3, <1>4, <1>5, <1>6, BucketOf DEF Next, Limited

\* Type correctness of the limiter itself.
THEOREM TypeCorrect == Spec => []TypeOK
<1>1. Init => TypeOK
  BY DEF Init, TypeOK, Decision
<1>2. TypeOK /\ [Next]_vars => TypeOK'
  BY TypeStep
<1> QED
  BY <1>1, <1>2, PTL DEF Spec

\* Every step of the limiter is a step of the plain buckets, or none.
LEMMA BudgetStep == IInv /\ [HNext]_hvars => [Promise!BNext]_(Promise!bvars)
<1> SUFFICES ASSUME IInv, [HNext]_hvars
             PROVE  [Promise!BNext]_(Promise!bvars)
  OBVIOUS
<1> DEFINE cs == [b \in Bucket |-> Cells(bucket[b])]
           vd == [t \in Task |-> IF decision[t] = "Allow" THEN "pass" ELSE "refuse"]
           own == [r \in Response |-> OwnBucket(r)]
<1>0. TypeOK
  BY DEF IInv
<1>1. ASSUME NEW t \in Task, NEW d, Decide(t, d)
      PROVE  vd' = [vd EXCEPT ![t] = IF d = "Allow" THEN "pass" ELSE "refuse"]
  BY <1>0, <1>1 DEF Decide, TypeOK
<1>2. ASSUME NEW t \in Task, HExempt(t) PROVE Promise!BNext
  <2>1. cs' = cs /\ vd' = [vd EXCEPT ![t] = "pass"]
    BY <1>1, <1>2 DEF HExempt, Exempt
  <2>2. withheld' = [withheld EXCEPT ![t] = Promise!NoResponse]
    BY <1>2 DEF HExempt, NoResponse, Promise!NoResponse
  <2> QED
    BY <2>1, <2>2 DEF Promise!BNext, Promise!Exempted, Promise!Says
<1>3. ASSUME NEW t \in Task, HGrant(t) PROVE Promise!BNext
  <2>1. PICK r \in Response : Grant(t, OwnBucket(r))
    BY <1>3 DEF HGrant
  <2>2. PICK b \in Bucket : b = OwnBucket(r) /\ b = own[r]
    BY BucketOf
  <2>3. vd' = [vd EXCEPT ![t] = "pass"]
    BY <1>1, <2>1 DEF Grant
  <2>4. Cells(bucket[b]) \in 1 .. BURST
    BY <1>0, <2>1, <2>2, CellsType DEF Grant
  <2>5. /\ Cells(bucket'[b]) = Cells(bucket[b]) - 1
        /\ \A d \in Bucket : d # b => bucket'[d] = bucket[d]
    BY <1>0, <2>1, <2>2, <2>4 DEF Grant, TypeOK, Cells, Untracked
  <2>6. cs' = [cs EXCEPT ![own[r]] = @ - 1]
    BY <2>2, <2>5
  <2>7. cs[own[r]] > 0
    BY <2>2, <2>4
  <2>8. withheld' = [withheld EXCEPT ![t] = Promise!NoResponse]
    BY <1>3 DEF HGrant, NoResponse, Promise!NoResponse
  <2> QED
    BY <2>3, <2>6, <2>7, <2>8 DEF Promise!BNext, Promise!Passed, Promise!Says
<1>4. ASSUME NEW t \in Task, HExceed(t) PROVE Promise!BNext
  <2>1. PICK r \in Response : Exceed(t, OwnBucket(r)) /\ withheld' = [withheld EXCEPT ![t] = r]
    BY <1>4 DEF HExceed
  <2>2. cs' = cs /\ vd' = [vd EXCEPT ![t] = "refuse"]
    BY <1>1, <2>1 DEF Exceed
  <2>3. cs[own[r]] = 0
    BY <2>1, BucketOf DEF Exceed
  <2> QED
    BY <2>1, <2>2, <2>3 DEF Promise!BNext, Promise!Refused, Promise!Says
<1>5. ASSUME NEW t \in Task, HSuppress(t) PROVE UNCHANGED Promise!bvars
  <2>1. vd' = [vd EXCEPT ![t] = "refuse"] /\ vd[t] = "refuse"
    BY <1>1, <1>5 DEF HSuppress, Suppress
  <2>2. vd' = vd /\ cs' = cs /\ withheld' = withheld
    BY <1>5, <2>1 DEF HSuppress, Suppress
  <2> QED
    BY <2>2 DEF Promise!bvars
<1>6. CASE HSweep
  <2>1. \E kind \in Kind : RetainRecent(kind)
    BY <1>6 DEF HSweep, SweepAnswers, SweepNegatives, Kind
  <2>2. cs' = cs
    BY <1>0, <2>1, RetainKeepsCells
  <2>3. vd' = vd /\ withheld' = withheld
    BY <1>6 DEF HSweep, SweepAnswers, SweepNegatives
  <2> QED
    BY <2>2, <2>3 DEF Promise!bvars
<1>7. CASE HTick
  <2>1. \A b \in Bucket : Cells(bucket'[b]) = IF Cells(bucket[b]) < BURST
                                                THEN Cells(bucket[b]) + 1
                                                ELSE Cells(bucket[b])
    BY <1>0, <1>7 DEF HTick, Tick, TypeOK, Cells, Refill, Untracked
  <2>2. vd' = vd /\ withheld' = withheld
    BY <1>7 DEF HTick, Tick
  <2>3. Promise!Refilled
    BY <2>1, <2>2 DEF Promise!Refilled
  <2> QED
    BY <2>3 DEF Promise!BNext
<1>8. CASE StartWindow \/ UNCHANGED hvars
  BY <1>8 DEF StartWindow, hvars, vars, Promise!bvars
<1> QED
  BY <1>2, <1>3, <1>4, <1>5, <1>6, <1>7, <1>8 DEF HNext

\* Sweeping is invisible, and a response is held back only when the bucket of
\* its own kind and prefix is empty, for every instance.
THEOREM BudgetRefinement == HSpec => ImplementsBudget
<1>1. HInit => Promise!BInit
  <2> SUFFICES ASSUME HInit PROVE Promise!BInit
    OBVIOUS
  <2>1. \A b \in Bucket : Cells(bucket[b]) = BURST
    BY DEF HInit, Init, Cells
  <2>2. \A t \in Task : decision[t] = "Allow"
    BY DEF HInit, Init
  <2>3. withheld = [t \in Task |-> Promise!NoResponse]
    BY DEF HInit, NoResponse, Promise!NoResponse
  <2> QED
    BY <2>1, <2>2, <2>3 DEF Promise!BInit
<1> QED
  BY <1>1, Invariance, BudgetStep, PTL DEF HSpec, ImplementsBudget, Promise!BSpec

-----------------------------------------------------------------------------
(* What ClientKey::new keeps of an address: its family and leading bits.   *)

\* A product grows with its factor.
LEMMA Monotone ==
    ASSUME NEW d \in Nat, NEW x \in Nat, NEW y \in Nat, x <= y
    PROVE  d * x <= d * y
BY SMTT(20)

LEMMA DivNat ==
    ASSUME NEW d \in Nat \ {0}, NEW n \in Nat
    PROVE  n \div d \in Nat
BY SMTT(20)

\* The quotient is unique.
LEMMA DivUnique ==
    ASSUME NEW d \in Nat \ {0}, NEW n \in Nat, NEW q \in Nat, NEW r \in 0 .. d - 1, n = d * q + r
    PROVE  n \div d = q
<1>1. PICK e \in Nat, f \in 0 .. d - 1 : n = d * e + f /\ e = n \div d
  BY DivMod, DivNat
<1>2. ~ (e < q)
  <2> SUFFICES ASSUME e + 1 <= q PROVE FALSE
    OBVIOUS
  <2>1. d * (e + 1) <= d * q /\ d * (e + 1) = d * e + d
    BY Monotone, SMTT(20)
  <2> QED
    BY <1>1, <2>1, SMTT(20)
<1>3. ~ (q < e)
  <2> SUFFICES ASSUME q + 1 <= e PROVE FALSE
    OBVIOUS
  <2>1. d * (q + 1) <= d * e /\ d * (q + 1) = d * q + d
    BY Monotone, SMTT(20)
  <2> QED
    BY <1>1, <2>1, SMTT(20)
<1> QED
  BY <1>1, <1>2, <1>3

\* To shift by one bit more is to halve.
LEMMA DivTwice ==
    ASSUME NEW x \in Nat, NEW q \in Nat \ {0}
    PROVE  x \div (2 * q) = (x \div q) \div 2
<1>1. PICK d \in Nat, r \in 0 .. q - 1 : x = q * d + r /\ d = x \div q
  BY DivMod, DivNat
<1>2. PICK e \in Nat, f \in 0 .. 1 : d = 2 * e + f /\ e = d \div 2
  <2>1. 2 \in Nat /\ 2 > 0
    OBVIOUS
  <2> QED
    BY <2>1, DivMod, DivNat
<1>3. q * f \in {0, q}
  BY <1>2
<1>4. PICK g \in Nat : g = q * f + r /\ g \in 0 .. 2 * q - 1
  BY <1>3
<1>5. x = (2 * q) * e + g
  <2>1. q * d = q * (2 * e) + q * f
    BY <1>2, SMTT(20)
  <2>2. q * (2 * e) = (2 * q) * e
    BY SMTT(20)
  <2>3. q * d \in Nat /\ q * f \in Nat /\ (2 * q) * e \in Nat
    BY SMTT(20)
  <2> QED
    BY <1>1, <1>4, <2>1, <2>2, <2>3
<1>6. 2 * q \in Nat \ {0}
  OBVIOUS
<1>7. x \div (2 * q) = e
  BY <1>4, <1>5, <1>6, DivUnique
<1> QED
  BY <1>1, <1>2, <1>7

LEMMA LeastNat ==
    ASSUME NEW S \in SUBSET Nat, S # {}
    PROVE  \E i \in S : \A j \in S : i <= j
<1>1. PICK i \in S : \A j \in S : ~ (<<j, i>> \in OpToRel(<, Nat))
  BY NatLessThanWellFounded, WFMin
<1>2. \A j \in S : ~ (j < i)
  BY <1>1 DEF OpToRel
<1> QED
  BY <1>2

\* The widths of addresses.
Widths == 0 .. V4_BITS + V6_BITS

LEMMA PowerOf ==
    ASSUME NEW n \in Widths
    PROVE  2^n \in Nat \ {0} /\ 2^(n + 1) = 2 * 2^n
BY PowerAssumption DEF Widths

\* Two numbers of w bits agree on their first j bits if and only if they are
\* the same when shifted by the others: the least j for which that fails is
\* not 0, and not the successor of one for which it holds.
LEMMA LeadingBits ==
    ASSUME NEW w \in Widths, NEW x \in 0 .. 2^w - 1, NEW y \in 0 .. 2^w - 1, NEW j \in 0 .. w
    PROVE  x \div 2^(w - j) = y \div 2^(w - j)
             <=> \A i \in 1 .. j : (x \div 2^(w - i)) % 2 = (y \div 2^(w - i)) % 2
<1> DEFINE Shifted(k) == x \div 2^(w - k) = y \div 2^(w - k)
           SameBit(i) == (x \div 2^(w - i)) % 2 = (y \div 2^(w - i)) % 2
           Bad == {k \in 0 .. w : ~ (Shifted(k) <=> \A i \in 1 .. k : SameBit(i))}
<1>0. w \in Nat /\ x \in Nat /\ y \in Nat
  BY WidthAssumption, PowerOf DEF Widths
<1>1. SUFFICES Bad = {}
  OBVIOUS
<1>2. Shifted(0)
  <2>1. 2^w \in Nat \ {0} /\ w - 0 = w
    BY <1>0, PowerOf
  <2>2. PICK p \in Nat \ {0} : p = 2^w
    BY <2>1
  <2>3. x \div p = 0 /\ y \div p = 0
    <3>1. x = p * 0 + x /\ y = p * 0 + y /\ x \in 0 .. p - 1 /\ y \in 0 .. p - 1
      BY <1>0, <2>2
    <3> QED
      BY <1>0, <3>1, DivUnique
  <2> QED
    BY <2>1, <2>2, <2>3
<1>3. ASSUME NEW k \in 0 .. w, k # 0 PROVE Shifted(k) <=> Shifted(k - 1) /\ SameBit(k)
  <2>1. PICK p \in Nat \ {0} : p = 2^(w - k) /\ 2 * p = 2^(w - (k - 1))
    <3>1. w - k \in Widths /\ (w - k) + 1 = w - (k - 1)
      BY <1>0, <1>3, WidthAssumption DEF Widths
    <3> QED
      BY <3>1, PowerOf
  <2>2. x \div (2 * p) = (x \div p) \div 2 /\ y \div (2 * p) = (y \div p) \div 2
    BY <1>0, DivTwice
  <2>3. PICK a \in Nat, b \in Nat : a = x \div p /\ b = y \div p
    BY <1>0, DivNat
  <2>4. a = b <=> a \div 2 = b \div 2 /\ a % 2 = b % 2
    <3>1. a = 2 * (a \div 2) + (a % 2) /\ b = 2 * (b \div 2) + (b % 2)
      BY DivMod
    <3> QED
      BY <3>1
  <2> QED
    BY <2>1, <2>2, <2>3, <2>4
<1> HIDE DEF Shifted, SameBit
<1>4. ASSUME Bad # {} PROVE FALSE
  <2>1. Bad \in SUBSET Nat
    BY <1>0
  <2>2. PICK k \in Bad : \A i \in Bad : k <= i
    BY <1>4, <2>1, LeastNat
  <2>3. k \in 0 .. w /\ ~ (Shifted(k) <=> \A i \in 1 .. k : SameBit(i))
    OBVIOUS
  <2>4. k # 0
    BY <1>2, <2>3
  <2>5. k - 1 \in 0 .. w /\ k - 1 \notin Bad
    BY <1>0, <2>2, <2>3, <2>4
  <2>6. Shifted(k - 1) <=> \A i \in 1 .. k - 1 : SameBit(i)
    BY <2>5
  <2>7. \A i : i \in 1 .. k <=> i \in 1 .. k - 1 \/ i = k
    BY <1>0, <2>3, <2>4
  <2> QED
    BY <1>3, <2>3, <2>4, <2>6, <2>7
<1> QED
  BY <1>4

\* To shift twice is to shift by the sum.
LEMMA ShiftTwice ==
    ASSUME NEW x \in Nat, NEW l \in Nat, NEW m \in Nat, NEW s \in Widths, s = l + m
    PROVE  (x \div 2^l) \div 2^m = x \div 2^s
<1> DEFINE Bad == {k \in 0 .. m : (x \div 2^l) \div 2^k # x \div 2^(l + k)}
<1>0. V4_BITS + V6_BITS \in Nat /\ m \in 0 .. m
  BY WidthAssumption
<1>1. SUFFICES Bad = {}
  BY <1>0
<1>2. ASSUME Bad # {} PROVE FALSE
  <2>1. Bad \in SUBSET Nat
    OBVIOUS
  <2>2. PICK k \in Bad : \A i \in Bad : k <= i
    BY <1>2, <2>1, LeastNat
  <2>3. k \in 0 .. m /\ (x \div 2^l) \div 2^k # x \div 2^(l + k)
    OBVIOUS
  <2>4. PICK z \in Nat : z = x \div 2^l
    <3>1. l \in Widths
      BY <1>0 DEF Widths
    <3> QED
      BY <3>1, PowerOf, DivNat
  <2>5. k # 0
    <3>1. 2^0 = 1 /\ l + 0 = l
      OBVIOUS
    <3>2. z \div 1 = z
      OBVIOUS
    <3> QED
      BY <2>3, <2>4, <3>1, <3>2
  <2>6. z \div 2^(k - 1) = x \div 2^(l + (k - 1))
    <3>1. k - 1 \in 0 .. m /\ k - 1 \notin Bad
      BY <2>2, <2>3, <2>5
    <3> QED
      BY <2>4, <3>1
  <2>7. PICK p \in Nat \ {0} : p = 2^(k - 1) /\ 2^k = 2 * p
    <3>1. k - 1 \in Widths /\ (k - 1) + 1 = k
      BY <1>0, <2>3, <2>5 DEF Widths
    <3> QED
      BY <3>1, PowerOf
  <2>8. PICK q \in Nat \ {0} : q = 2^(l + (k - 1)) /\ 2^(l + k) = 2 * q
    <3>1. l + (k - 1) \in Widths /\ (l + (k - 1)) + 1 = l + k
      BY <1>0, <2>3, <2>5 DEF Widths
    <3> QED
      BY <3>1, PowerOf
  <2>9. z \div (2 * p) = (z \div p) \div 2 /\ x \div (2 * q) = (x \div q) \div 2
    BY DivTwice
  <2> QED
    BY <2>3, <2>4, <2>6, <2>7, <2>8, <2>9
<1> QED
  BY <1>2

\* Two aggregates are the same if and only if the shifted numbers are.
LEMMA AggregateShift ==
    ASSUME NEW w \in Widths, NEW p \in Nat, NEW x \in Nat, NEW y \in Nat,
           NEW j, j = Smaller(p, w)
    PROVE  Aggregate(x, w, p) = Aggregate(y, w, p) <=> x \div 2^(w - j) = y \div 2^(w - j)
<1>1. w - j \in Widths
  BY WidthAssumption DEF Widths, Smaller
<1>2. PICK q \in Nat \ {0} : q = 2^(w - j)
  BY <1>1, PowerOf
<1>3. PICK a \in Nat, b \in Nat : a = x \div q /\ b = y \div q
  BY <1>2, DivNat
<1>4. a * q = b * q <=> a = b
  <2>1. ASSUME NEW c \in Nat PROVE c * q \in Nat /\ c * q = q * c + 0 /\ (c * q) \div q = c
    <3>1. c * q \in Nat /\ c * q = q * c + 0 /\ 0 \in 0 .. q - 1
      BY SMTT(20)
    <3> QED
      BY <3>1, DivUnique
  <2> QED
    BY <2>1
<1> QED
  BY <1>2, <1>3, <1>4 DEF Aggregate

\* ClientKey::new tells two addresses apart exactly by the prefix.
LEMMA KeyMeans ==
    ASSUME NEW a \in Addr, NEW b \in Addr
    PROVE  ClientKey(a) = ClientKey(b) <=> SamePrefix(a, b)
<1>0. /\ V4_BITS \in Nat /\ V6_BITS \in Nat /\ V6_LOW \in Nat /\ V6_LOW <= V6_BITS
      /\ IPV4_PREFIX \in Nat /\ IPV6_PREFIX \in Nat
  BY WidthAssumption
<1>1. /\ a \in Address /\ b \in Address
      /\ a.family \in {"V4", "V6"} /\ b.family \in {"V4", "V6"}
  BY AddrAssumption DEF Address
<1>2. CASE a.family # b.family
  BY <1>1, <1>2 DEF ClientKey, SamePrefix
<1>3. CASE a.family = "V4" /\ b.family = "V4"
  <2> DEFINE w == V4_BITS
             j == Smaller(IPV4_PREFIX, w)
  <2>1. w \in Widths /\ j \in 0 .. w /\ 2^w \in Nat
    BY <1>0, PowerOf DEF Widths, Smaller
  <2>2. a.bits \in 0 .. 2^w - 1 /\ b.bits \in 0 .. 2^w - 1
    BY <1>1, <1>3 DEF Address
  <2>3. a.bits \in Nat /\ b.bits \in Nat
    BY <2>1, <2>2
  <2>4. ClientKey(a) = ClientKey(b)
          <=> Aggregate(a.bits, w, IPV4_PREFIX) = Aggregate(b.bits, w, IPV4_PREFIX)
    BY <1>3 DEF ClientKey
  <2>5. Aggregate(a.bits, w, IPV4_PREFIX) = Aggregate(b.bits, w, IPV4_PREFIX)
          <=> a.bits \div 2^(w - j) = b.bits \div 2^(w - j)
    BY <1>0, <2>1, <2>3, AggregateShift
  <2>6. SamePrefix(a, b) <=>
          \A i \in 1 .. j : (a.bits \div 2^(w - i)) % 2 = (b.bits \div 2^(w - i)) % 2
    BY <1>3 DEF SamePrefix, KeyBits, Bit, Width
  <2> HIDE DEF w, j
  <2> QED
    BY <2>1, <2>2, <2>4, <2>5, <2>6, LeadingBits
<1>4. CASE a.family = "V6" /\ b.family = "V6"
  <2> DEFINE w == V6_BITS
             v == V6_BITS - V6_LOW
             j == Smaller(IPV6_PREFIX, v)
             x == a.bits \div 2^V6_LOW
             y == b.bits \div 2^V6_LOW
  <2>1. /\ w \in Widths /\ v \in Widths /\ V6_LOW \in Widths /\ j \in 0 .. v /\ j \in 0 .. w
        /\ v - j \in Nat /\ V6_LOW + (v - j) = w - j /\ w - j \in Widths /\ 2^w \in Nat
    BY <1>0, PowerOf DEF Widths, Smaller
  <2>2. a.bits \in 0 .. 2^w - 1 /\ b.bits \in 0 .. 2^w - 1
    BY <1>1, <1>4 DEF Address
  <2>3. a.bits \in Nat /\ b.bits \in Nat
    BY <2>1, <2>2
  <2>4. x \in Nat /\ y \in Nat
    BY <2>1, <2>3, PowerOf, DivNat
  <2>5. ClientKey(a) = ClientKey(b)
          <=> Aggregate(x, v, IPV6_PREFIX) = Aggregate(y, v, IPV6_PREFIX)
    BY <1>4 DEF ClientKey
  <2>6. Aggregate(x, v, IPV6_PREFIX) = Aggregate(y, v, IPV6_PREFIX)
          <=> x \div 2^(v - j) = y \div 2^(v - j)
    BY <1>0, <2>1, <2>4, AggregateShift
  <2>7. /\ x \div 2^(v - j) = a.bits \div 2^(w - j)
        /\ y \div 2^(v - j) = b.bits \div 2^(w - j)
    <3> HIDE DEF v, w, j
    <3>1. PICK m \in Nat : m = v - j
      BY <2>1
    <3>2. PICK s \in Widths : s = w - j /\ s = V6_LOW + m
      BY <2>1, <3>1
    <3>3. ASSUME NEW n \in Nat PROVE (n \div 2^V6_LOW) \div 2^m = n \div 2^s
      <4>1. V6_LOW \in Nat /\ s = V6_LOW + m
        BY <1>0, <3>2
      <4>2. \A l \in Nat : \A k \in Nat : \A r \in Widths :
              r = l + k => (n \div 2^l) \div 2^k = n \div 2^r
        BY ShiftTwice
      <4> QED
        BY <4>1, <4>2
    <3> QED
      BY <2>3, <3>1, <3>2, <3>3
  <2>8. SamePrefix(a, b) <=>
          \A i \in 1 .. j : (a.bits \div 2^(w - i)) % 2 = (b.bits \div 2^(w - i)) % 2
    BY <1>4 DEF SamePrefix, KeyBits, Bit, Width
  <2> HIDE DEF w, v, j, x, y
  <2> QED
    BY <2>1, <2>2, <2>5, <2>6, <2>7, <2>8, LeadingBits
<1> QED
  BY <1>1, <1>2, <1>3, <1>4

\* A response is charged to exactly the clients that share the family and the
\* leading bits of its own, for all widths and prefixes: only a grant lowers
\* the cells of a bucket, only those of its own, and ClientKey::new gives two
\* addresses the same key if and only if their prefixes are the same.
THEOREM PrefixTheorem == Spec => ChargesPrefix
<1>1. ASSUME TypeOK, [Next]_vars, NEW k \in Kind, NEW a \in Addr, Charged(k, a)
      PROVE  \A b \in Addr : Charged(k, b) <=> SamePrefix(a, b)
  <2> DEFINE own == <<k, ClientKey(a)>>
  <2>0. own \in Bucket
    BY DEF Bucket, Key
  <2>1. PICK t \in Task, g \in Bucket : Grant(t, g)
    <3>1. ASSUME \A d \in Bucket : Cells(bucket'[d]) >= Cells(bucket[d]) PROVE FALSE
      <4>1. Cells(bucket[own]) \in Int
        BY <1>1, <2>0, CellsType
      <4>2. Cells(bucket'[own]) < Cells(bucket[own]) /\ Cells(bucket'[own]) >= Cells(bucket[own])
        BY <1>1, <2>0, <3>1 DEF Charged
      <4>3. TypeOK'
        BY <1>1, TypeStep
      <4>4. Cells(bucket'[own]) \in Int
        BY <2>0, <4>3 DEF TypeOK, Cells, Untracked
      <4> QED
        BY <4>1, <4>2, <4>4
    <3>2. CASE bucket' = bucket
      BY <1>1, <3>1, <3>2, CellsType
    <3>3. CASE SweepAnswers \/ SweepNegatives
      <4>1. \E kind \in Kind : RetainRecent(kind)
        BY <3>3 DEF SweepAnswers, SweepNegatives, Kind
      <4> QED
        BY <1>1, <3>1, <4>1, RetainKeepsCells, CellsType
    <3>4. CASE Tick
      BY <1>1, <3>1, <3>4 DEF Tick, TypeOK, Cells, Refill, Untracked
    <3> QED
      BY <1>1, <3>2, <3>3, <3>4, BucketOf DEF Next, Limited, Exempt, Exceed, Suppress, vars
  <2>2. /\ Cells(bucket'[g]) < Cells(bucket[g])
        /\ \A d \in Bucket : d # g => bucket'[d] = bucket[d]
    BY <1>1, <2>1, CellsType DEF Grant, TypeOK, Cells, Untracked
  <2>3. \A d \in Bucket : Cells(bucket'[d]) < Cells(bucket[d]) <=> d = g
    BY <1>1, <2>2, CellsType
  <2>4. own = g
    BY <1>1, <2>0, <2>3 DEF Charged
  <2> TAKE b \in Addr
  <2>5. Charged(k, b) <=> <<k, ClientKey(b)>> = g
    BY <2>3 DEF Charged, Bucket, Key
  <2>6. Charged(k, b) <=> ClientKey(a) = ClientKey(b)
    BY <2>4, <2>5
  <2> QED
    BY <2>6, KeyMeans
<1>2. TypeOK /\ [Next]_vars =>
        [\A k \in Kind, a \in Addr :
           Charged(k, a) => \A b \in Addr : Charged(k, b) <=> SamePrefix(a, b)]_vars
  BY <1>1
<1> QED
  BY <1>2, TypeCorrect, PTL DEF Spec, ChargesPrefix
=============================================================================
