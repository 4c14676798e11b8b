--------------------------- MODULE UpstreamProofs ---------------------------
(***************************************************************************)
(* Theorems about Upstream, for every number of tasks and reloads and      *)
(* every value of the limits.                                              *)
(*                                                                         *)
(* The four invariants are proved together: the range of `permits` needs   *)
(* PermitsConserved (a returning task can only give back a permit that is  *)
(* missing), PermitsConserved needs the types, and FailuresBounded needs   *)
(* BreakerCoherent at the step where a closed breaker admits a lookup.     *)
(***************************************************************************)
EXTENDS UpstreamHistory, FiniteSetTheorems, TLAPS

IInv == TypeOK /\ PermitsConserved /\ BreakerCoherent /\ FailuresBounded

USE TaskAssumption, InflightAssumption, ThresholdAssumption,
    CooldownAssumption, TimeoutAssumption, ReloadsAssumption

-----------------------------------------------------------------------------
(* Counting tasks.                                                         *)

\* A set of tasks is finite and has at most as many members as Task.
LEMMA TaskSubset ==
    ASSUME NEW S \in SUBSET Task
    PROVE  /\ IsFiniteSet(S)
           /\ Cardinality(S) \in Nat
           /\ Cardinality(Task) \in Nat
           /\ Cardinality(S) <= Cardinality(Task)
BY FS_Subset, FS_CardinalityType

\* A task that joins a set of tasks makes it one larger.
LEMMA TaskJoins ==
    ASSUME NEW S \in SUBSET Task, NEW t \in Task, t \notin S
    PROVE  Cardinality(S \cup {t}) = Cardinality(S) + 1
BY TaskSubset, FS_AddElement

\* A task that leaves a set of tasks makes it one smaller.
LEMMA TaskLeaves ==
    ASSUME NEW S \in SUBSET Task, NEW t \in S
    PROVE  /\ Cardinality(S) >= 1
           /\ Cardinality(S \ {t}) = Cardinality(S) - 1
<1>1. IsFiniteSet(S) /\ Cardinality(S) \in Nat /\ Cardinality(S \ {t}) \in Nat
  BY TaskSubset
<1>2. Cardinality(S \ {t}) = Cardinality(S) - 1
  BY <1>1, FS_RemoveElement
<1> QED
  BY <1>1, <1>2

-----------------------------------------------------------------------------
(* The initial states.                                                     *)

\* The process starts with closed breakers, full semaphores and idle tasks.
LEMMA InitIInv == Init => IInv
<1> SUFFICES ASSUME Init PROVE IInv
  OBVIOUS
<1>1. TypeOK
  BY DEF Init, TypeOK, Client, BreakerState, Default, Point, None
<1>2. \A c \in Client : Holders(c) = {} /\ Outstanding(c) = {}
  BY DEF Init, Holders, Outstanding
<1>3. Cardinality({}) = 0
  BY FS_EmptySet
<1>4. PermitsConserved
  BY <1>2, <1>3 DEF PermitsConserved, Init
<1>5. BreakerCoherent
  BY DEF BreakerCoherent, Init, Default, None
<1>6. FailuresBounded
  <2>1. Cardinality(Task) \in Nat
    BY FS_CardinalityType
  <2> QED
    BY <1>2, <1>3, <2>1 DEF FailuresBounded, Init, Default
<1> QED
  BY <1>1, <1>4, <1>5, <1>6 DEF IInv
-----------------------------------------------------------------------------
(* One lemma per action: it preserves the inductive invariant.             *)

\* An action that leaves pc, client and breaker alone keeps the two counts.
LEMMA ReloadIInv == IInv /\ Reload => IInv'
<1> SUFFICES ASSUME IInv, Reload PROVE IInv'
  OBVIOUS
<1> USE DEF IInv, Reload
<1>1. TypeOK'
  BY DEF TypeOK, Client
<1>2. \A c \in Client : Holders(c)' = Holders(c) /\ Outstanding(c)' = Outstanding(c)
  BY DEF Holders, Outstanding
<1> QED
  BY <1>1, <1>2 DEF PermitsConserved, BreakerCoherent, FailuresBounded

\* Time moves deadlines only: an open breaker may reach 0 but not None.
LEMMA TickIInv == IInv /\ Tick => IInv'
<1> SUFFICES ASSUME IInv, Tick PROVE IInv'
  OBVIOUS
<1> USE DEF IInv, Tick
<1>1. \A c \in Client :
        /\ breaker'[c].consecutive_failures = breaker[c].consecutive_failures
        /\ breaker'[c].open_until = Countdown(breaker[c].open_until)
        /\ breaker'[c] \in BreakerState
  BY SMTT(30) DEF TypeOK, BreakerState, Countdown, None
<1>2. TypeOK'
  <2>1. breaker' \in [Client -> BreakerState]
    BY <1>1
  <2>2. timer' \in [Task -> 0 .. TIMEOUT]
    BY DEF TypeOK, Countdown
  <2> QED
    BY <2>1, <2>2 DEF TypeOK
<1>3. \A c \in Client : Holders(c)' = Holders(c) /\ Outstanding(c)' = Outstanding(c)
  BY DEF Holders, Outstanding
<1>4. BreakerCoherent'
  BY <1>1 DEF BreakerCoherent, TypeOK, BreakerState, Countdown, None
<1> QED
  BY <1>1, <1>2, <1>3, <1>4 DEF PermitsConserved, FailuresBounded

\* Entering lookup_ptr changes the client of a task that is in neither count.
LEMMA CallIInv == ASSUME NEW t \in Task PROVE IInv /\ Call(t) => IInv'
<1> SUFFICES ASSUME IInv, Call(t) PROVE IInv'
  OBVIOUS
<1> USE DEF IInv, Call, Goto
<1>1. TypeOK'
  BY DEF TypeOK, Point
<1>2. \A c \in Client : Holders(c)' = Holders(c) /\ Outstanding(c)' = Outstanding(c)
  BY DEF Holders, Outstanding, TypeOK
<1> QED
  BY <1>1, <1>2 DEF PermitsConserved, BreakerCoherent, FailuresBounded

\* is_open: the only action that admits; it does so on a closed breaker, or
\* on one it has just reset.
LEMMA CheckBreakerIInv == ASSUME NEW t \in Task PROVE IInv /\ CheckBreaker(t) => IInv'
<1> SUFFICES ASSUME IInv, CheckBreaker(t) PROVE IInv'
  OBVIOUS
<1> DEFINE k == client[t]
<1> USE DEF IInv, CheckBreaker, Goto
<1>1. /\ k \in Client
      /\ breaker[k] \in BreakerState
      /\ Default \in BreakerState
  BY DEF TypeOK, BreakerState, Default, None
<1>2. AfterIsOpen(breaker[k]) \in BreakerState
  BY <1>1 DEF AfterIsOpen
<1>3. TypeOK'
  BY <1>1, <1>2 DEF TypeOK, Point
<1>4. \A c \in Client : Holders(c)' = Holders(c)
  BY DEF Holders, TypeOK
<1>5. PermitsConserved'
  BY <1>4 DEF PermitsConserved
<1>6. BreakerCoherent'
  BY <1>1 DEF BreakerCoherent, TypeOK, AfterIsOpen, Default, None
<1>7. FailuresBounded'
  <2> SUFFICES ASSUME NEW c \in Client
               PROVE  breaker'[c].consecutive_failures + Cardinality(Outstanding(c)')
                        < BREAKER_THRESHOLD + Cardinality(Task)
    BY DEF FailuresBounded
  <2>1. /\ Outstanding(c)' \in SUBSET Task
        /\ Outstanding(c) \in SUBSET Task
    BY DEF Outstanding
  <2>2. /\ Cardinality(Outstanding(c)') \in Nat
        /\ Cardinality(Task) \in Nat
        /\ Cardinality(Outstanding(c)') <= Cardinality(Task)
    BY <2>1, TaskSubset
  <2>3. CASE c # k
    <3>1. Outstanding(c)' = Outstanding(c)
      BY <2>3 DEF Outstanding, TypeOK
    <3> QED
      BY <2>3, <3>1 DEF FailuresBounded, TypeOK
  <2>4. CASE c = k /\ IsOpen(breaker[k])
    <3>1. Outstanding(c)' = Outstanding(c)
      BY <2>4 DEF Outstanding, TypeOK
    <3>2. AfterIsOpen(breaker[k]) = breaker[k]
      BY <2>4, <1>1 DEF AfterIsOpen, IsOpen, BreakerState
    <3> QED
      BY <2>4, <3>1, <3>2 DEF FailuresBounded, TypeOK
  <2>5. CASE c = k /\ ~ IsOpen(breaker[k])
    <3>1. breaker'[k] = AfterIsOpen(breaker[k])
      BY <1>1 DEF TypeOK
    <3>2. AfterIsOpen(breaker[k]).open_until = None
      BY <2>5, <1>1 DEF AfterIsOpen, IsOpen, BreakerState, Default, None
    <3>3. breaker'[k].consecutive_failures < BREAKER_THRESHOLD
      BY <1>1, <1>6, <3>1, <3>2 DEF BreakerCoherent
    <3>4. breaker'[k].consecutive_failures \in Nat
      BY <1>2, <3>1 DEF BreakerState
    <3> QED
      BY <2>5, <3>3, <3>4, <2>2
  <2> QED
    BY <2>3, <2>4, <2>5
<1> QED
  BY <1>3, <1>5, <1>6, <1>7

\* try_acquire_owned: a permit less, a holder more.
LEMMA AcquirePermitIInv == ASSUME NEW t \in Task PROVE IInv /\ AcquirePermit(t) => IInv'
<1> SUFFICES ASSUME IInv, AcquirePermit(t) PROVE IInv'
  OBVIOUS
<1> DEFINE k == client[t]
<1> USE DEF IInv, AcquirePermit, Goto
<1>1. k \in Client /\ permits[k] \in 1 .. MAX_INFLIGHT
  BY DEF TypeOK
<1>2. TypeOK'
  BY <1>1 DEF TypeOK, Point
<1>3. /\ Holders(k) \in SUBSET Task
      /\ t \notin Holders(k)
      /\ Holders(k)' = Holders(k) \cup {t}
      /\ \A c \in Client : c # k => Holders(c)' = Holders(c)
  BY DEF Holders, TypeOK
<1>4. Cardinality(Holders(k)') = Cardinality(Holders(k)) + 1
  BY <1>3, TaskJoins
<1>5. Cardinality(Holders(k)) \in Nat
  BY <1>3, TaskSubset
<1>6. PermitsConserved'
  <2>1. permits'[k] = permits[k] - 1 /\ \A c \in Client : c # k => permits'[c] = permits[c]
    BY <1>1 DEF TypeOK
  <2> SUFFICES ASSUME NEW c \in Client
               PROVE  permits'[c] + Cardinality(Holders(c)') = MAX_INFLIGHT
    BY DEF PermitsConserved
  <2>2. permits[c] + Cardinality(Holders(c)) = MAX_INFLIGHT
    BY DEF PermitsConserved
  <2>3. CASE c = k
    BY <1>1, <1>4, <1>5, <2>1, <2>2, <2>3
  <2>4. CASE c # k
    BY <1>3, <2>1, <2>2, <2>4
  <2> QED
    BY <2>3, <2>4
<1>7. \A c \in Client : Outstanding(c)' = Outstanding(c)
  BY DEF Outstanding, TypeOK
<1> QED
  BY <1>2, <1>6, <1>7 DEF BreakerCoherent, FailuresBounded

\* A task that leaves lookup_ptr without a permit lowers Outstanding only.
LEMMA SaturatedIInv == ASSUME NEW t \in Task PROVE IInv /\ Saturated(t) => IInv'
<1> SUFFICES ASSUME IInv, Saturated(t) PROVE IInv'
  OBVIOUS
<1> USE DEF IInv, Saturated, Goto
<1>1. TypeOK'
  BY DEF TypeOK, Point
<1>2. \A c \in Client : Holders(c)' = Holders(c)
  BY DEF Holders, TypeOK
<1>3. FailuresBounded'
  <2> SUFFICES ASSUME NEW c \in Client
               PROVE  breaker[c].consecutive_failures + Cardinality(Outstanding(c)')
                        < BREAKER_THRESHOLD + Cardinality(Task)
    BY DEF FailuresBounded
  <2>1. Outstanding(c)' \in SUBSET Outstanding(c) /\ Outstanding(c) \in SUBSET Task
    BY DEF Outstanding, TypeOK
  <2>2. Cardinality(Outstanding(c)') <= Cardinality(Outstanding(c))
    BY <2>1, TaskSubset, FS_Subset
  <2>3. /\ Cardinality(Outstanding(c)) \in Nat
        /\ Cardinality(Outstanding(c)') \in Nat
        /\ Cardinality(Task) \in Nat
        /\ breaker[c].consecutive_failures \in Nat
    BY <2>1, TaskSubset DEF TypeOK, BreakerState
  <2> QED
    BY <2>2, <2>3 DEF FailuresBounded
<1> QED
  BY <1>1, <1>2, <1>3 DEF PermitsConserved, BreakerCoherent

\* record_success resets the breaker; the permit is still held.
LEMMA LookupDoneIInv == ASSUME NEW t \in Task PROVE IInv /\ LookupDone(t) => IInv'
<1> SUFFICES ASSUME IInv, LookupDone(t) PROVE IInv'
  OBVIOUS
<1> DEFINE k == client[t]
<1> USE DEF IInv, LookupDone, Goto, AfterRecordSuccess
<1>1. k \in Client /\ Default \in BreakerState
  BY DEF TypeOK, BreakerState, Default, None
<1>2. TypeOK'
  BY <1>1 DEF TypeOK, Point
<1>3. \A c \in Client : Holders(c)' = Holders(c)
  BY DEF Holders, TypeOK
<1>4. BreakerCoherent'
  BY <1>1 DEF BreakerCoherent, TypeOK, Default, None
<1>5. FailuresBounded'
  <2> SUFFICES ASSUME NEW c \in Client
               PROVE  breaker'[c].consecutive_failures + Cardinality(Outstanding(c)')
                        < BREAKER_THRESHOLD + Cardinality(Task)
    BY DEF FailuresBounded
  <2>1. Outstanding(c)' \in SUBSET Task
    BY DEF Outstanding
  <2>2. /\ Cardinality(Outstanding(c)') \in Nat
        /\ Cardinality(Task) \in Nat
        /\ Cardinality(Outstanding(c)') <= Cardinality(Task)
    BY <2>1, TaskSubset
  <2>3. CASE c = k
    BY <2>2, <2>3, <1>1 DEF TypeOK, Default
  <2>4. CASE c # k
    <3>1. Outstanding(c)' = Outstanding(c)
      BY <2>4 DEF Outstanding, TypeOK
    <3> QED
      BY <2>4, <3>1 DEF FailuresBounded, TypeOK
  <2> QED
    BY <2>3, <2>4
<1> QED
  BY <1>2, <1>3, <1>4, <1>5 DEF PermitsConserved

\* record_failure: the failure counted is that of a lookup that leaves
\* Outstanding, so their sum does not grow, and the breaker opens exactly
\* when the count reaches the threshold.
LEMMA ElapsedIInv == ASSUME NEW t \in Task PROVE IInv /\ Elapsed(t) => IInv'
<1> SUFFICES ASSUME IInv, Elapsed(t) PROVE IInv'
  OBVIOUS
<1> DEFINE k == client[t]
           b == breaker[k]
<1> USE DEF IInv, Elapsed, Goto
<1>1. k \in Client /\ b \in BreakerState
  BY DEF TypeOK
<1>2. /\ AfterRecordFailure(b) \in BreakerState
      /\ AfterRecordFailure(b).consecutive_failures = b.consecutive_failures + 1
      /\ AfterRecordFailure(b).open_until
           = IF Trips(b) THEN BREAKER_COOLDOWN ELSE b.open_until
  BY <1>1 DEF AfterRecordFailure, BreakerState
<1>3. /\ breaker'[k] = AfterRecordFailure(b)
      /\ \A c \in Client : c # k => breaker'[c] = breaker[c]
  BY <1>1 DEF TypeOK
<1>4. TypeOK'
  BY <1>1, <1>2 DEF TypeOK, Point
<1>5. \A c \in Client : Holders(c)' = Holders(c)
  BY DEF Holders, TypeOK
<1>6. BreakerCoherent'
  <2>1. AfterRecordFailure(b).open_until = None
          <=> AfterRecordFailure(b).consecutive_failures < BREAKER_THRESHOLD
    <3>1. b.open_until = None <=> b.consecutive_failures < BREAKER_THRESHOLD
      BY <1>1 DEF BreakerCoherent
    <3>2. b.consecutive_failures \in Nat
      BY <1>1 DEF BreakerState
    <3> QED
      BY <1>2, <3>1, <3>2 DEF Trips, None
  <2> QED
    BY <1>3, <2>1 DEF BreakerCoherent
<1>7. FailuresBounded'
  <2> SUFFICES ASSUME NEW c \in Client
               PROVE  breaker'[c].consecutive_failures + Cardinality(Outstanding(c)')
                        < BREAKER_THRESHOLD + Cardinality(Task)
    BY DEF FailuresBounded
  <2>1. CASE c # k
    <3>1. Outstanding(c)' = Outstanding(c)
      BY <2>1 DEF Outstanding, TypeOK
    <3> QED
      BY <1>3, <2>1, <3>1 DEF FailuresBounded
  <2>2. CASE c = k
    <3>1. /\ Outstanding(k) \in SUBSET Task
          /\ t \in Outstanding(k)
          /\ Outstanding(k)' = Outstanding(k) \ {t}
      BY DEF Outstanding, TypeOK
    <3>2. /\ Cardinality(Outstanding(k)) \in Nat
          /\ Cardinality(Task) \in Nat
          /\ b.consecutive_failures \in Nat
      BY <3>1, <1>1, TaskSubset DEF BreakerState
    <3>3. Cardinality(Outstanding(k)') = Cardinality(Outstanding(k)) - 1
      BY <3>1, TaskLeaves
    <3>4. b.consecutive_failures + Cardinality(Outstanding(k))
            < BREAKER_THRESHOLD + Cardinality(Task)
      BY <1>1 DEF FailuresBounded
    <3> QED
      BY <1>2, <1>3, <2>2, <3>2, <3>3, <3>4
  <2> QED
    BY <2>1, <2>2
<1> QED
  BY <1>4, <1>5, <1>6, <1>7 DEF PermitsConserved

\* Dropping _permit: a permit more, a holder less.
LEMMA ReleaseIInv ==
    ASSUME NEW t \in Task, Return(t) \/ Unwind(t), IInv
    PROVE  IInv'
<1> DEFINE k == client[t]
<1> USE DEF IInv, Return, Unwind, Goto
<1>1. /\ k \in Client
      /\ t \in Holders(k)
      /\ Holders(k) \in SUBSET Task
      /\ Holders(k)' = Holders(k) \ {t}
      /\ \A c \in Client : c # k => Holders(c)' = Holders(c)
  BY DEF Holders, TypeOK
<1>2. /\ Cardinality(Holders(k)) \in Nat
      /\ Cardinality(Holders(k)) >= 1
      /\ Cardinality(Holders(k)') = Cardinality(Holders(k)) - 1
  BY <1>1, TaskSubset, TaskLeaves
<1>3. permits[k] \in Nat /\ permits[k] + 1 <= MAX_INFLIGHT
  BY <1>1, <1>2 DEF PermitsConserved, TypeOK
<1>4. TypeOK'
  BY <1>1, <1>3 DEF TypeOK, Point
<1>5. PermitsConserved'
  <2>1. permits'[k] = permits[k] + 1 /\ \A c \in Client : c # k => permits'[c] = permits[c]
    BY <1>1 DEF TypeOK
  <2> SUFFICES ASSUME NEW c \in Client
               PROVE  permits'[c] + Cardinality(Holders(c)') = MAX_INFLIGHT
    BY DEF PermitsConserved
  <2>2. permits[c] + Cardinality(Holders(c)) = MAX_INFLIGHT
    BY DEF PermitsConserved
  <2>3. CASE c = k
    <3>1. Holders(c)' = Holders(k)'
      BY <2>3 DEF Holders
    <3>2. Cardinality(Holders(c)') = Cardinality(Holders(c)) - 1
      BY <1>2, <2>3, <3>1
    <3> QED
      BY <1>2, <1>3, <2>1, <2>2, <2>3, <3>2
  <2>4. CASE c # k
    BY <1>1, <2>1, <2>2, <2>4
  <2> QED
    BY <2>3, <2>4
<1>6. FailuresBounded'
  <2> SUFFICES ASSUME NEW c \in Client
               PROVE  breaker[c].consecutive_failures + Cardinality(Outstanding(c)')
                        < BREAKER_THRESHOLD + Cardinality(Task)
    BY DEF FailuresBounded
  <2>1. Outstanding(c)' \in SUBSET Outstanding(c) /\ Outstanding(c) \in SUBSET Task
    BY DEF Outstanding, TypeOK
  <2>2. Cardinality(Outstanding(c)') <= Cardinality(Outstanding(c))
    BY <2>1, TaskSubset, FS_Subset
  <2>3. /\ Cardinality(Outstanding(c)) \in Nat
        /\ Cardinality(Outstanding(c)') \in Nat
        /\ Cardinality(Task) \in Nat
        /\ breaker[c].consecutive_failures \in Nat
    BY <2>1, TaskSubset DEF TypeOK, BreakerState
  <2> QED
    BY <2>2, <2>3 DEF FailuresBounded
<1> QED
  BY <1>4, <1>5, <1>6 DEF BreakerCoherent

\* Every step, and every stutter, preserves the invariant.
LEMMA NextIInv == IInv /\ [Next]_vars => IInv'
<1> SUFFICES ASSUME IInv, [Next]_vars PROVE IInv'
  OBVIOUS
<1>1. CASE Reload
  BY <1>1, ReloadIInv
<1>2. CASE Tick
  BY <1>2, TickIInv
<1>3. ASSUME NEW t \in Task, Step(t) PROVE IInv'
  BY <1>3, CallIInv, CheckBreakerIInv, AcquirePermitIInv, SaturatedIInv,
     LookupDoneIInv, ElapsedIInv, ReleaseIInv DEF Step
<1>4. CASE UNCHANGED vars
  <2> USE <1>4 DEF vars, IInv
  <2>1. \A c \in Client : Holders(c)' = Holders(c) /\ Outstanding(c)' = Outstanding(c)
    BY DEF Holders, Outstanding
  <2> QED
    BY <2>1 DEF TypeOK, PermitsConserved, BreakerCoherent, FailuresBounded
<1> QED
  BY <1>1, <1>2, <1>3, <1>4 DEF Next

\* The inductive invariant holds throughout every behaviour.
THEOREM Invariance == Spec => []IInv
BY InitIInv, NextIInv, PTL DEF Spec

\* Type correctness, the range of the permit counters included: the semaphore
\* never goes below zero nor above the permits it was made with.
THEOREM TypeCorrect == Spec => []TypeOK
<1>1. IInv => TypeOK
  BY DEF IInv
<1> QED
  BY Invariance, <1>1, PTL

\* lookup_ptr never leaks a permit, whichever way it ends.
THEOREM PermitsNeverLeak == Spec => []PermitsConserved
<1>1. IInv => PermitsConserved
  BY DEF IInv
<1> QED
  BY Invariance, <1>1, PTL

\* The breaker is open exactly when its failure count is full.
THEOREM BreakerStaysCoherent == Spec => []BreakerCoherent
<1>1. IInv => BreakerCoherent
  BY DEF IInv
<1> QED
  BY Invariance, <1>1, PTL

\* The failure count stays within |Task| of the threshold.
THEOREM FailuresStayBounded == Spec => []FailuresBounded
<1>1. IInv => FailuresBounded
  BY DEF IInv
<1> QED
  BY Invariance, <1>1, PTL

-----------------------------------------------------------------------------
(* What a single step may never do.                                        *)

\* A breaker that is open is never given a later deadline.
THEOREM CooldownTheorem == Spec => CooldownNeverExtended
<1>1. ASSUME IInv, [Next]_vars
      PROVE  [\A c \in Client : breaker[c].open_until # None
                => breaker'[c].open_until <= breaker[c].open_until]_vars
  <2> SUFFICES ASSUME Next, NEW c \in Client, breaker[c].open_until # None
               PROVE  breaker'[c].open_until <= breaker[c].open_until
    BY <1>1
  <2>0. breaker[c] \in BreakerState /\ breaker[c].open_until \in 0 .. BREAKER_COOLDOWN
    BY <1>1 DEF IInv, TypeOK, BreakerState
  <2>1. CASE breaker' = breaker
    BY <2>0, <2>1
  <2>2. CASE Tick
    BY <2>0, <2>2 DEF Tick, Countdown, BreakerState
  <2>3. ASSUME NEW t \in Task, CheckBreaker(t) \/ LookupDone(t) \/ Elapsed(t)
        PROVE  breaker'[c].open_until <= breaker[c].open_until
    <3>1. breaker \in [Client -> BreakerState] /\ client[t] \in Client
      BY <1>1 DEF IInv, TypeOK
    <3>2. CASE CheckBreaker(t)
      BY <2>0, <3>1, <3>2 DEF CheckBreaker, AfterIsOpen, Default, None
    <3>3. CASE LookupDone(t)
      BY <2>0, <3>1, <3>3 DEF LookupDone, AfterRecordSuccess, Default, None
    <3>4. CASE Elapsed(t)
      BY <2>0, <3>1, <3>4 DEF Elapsed, AfterRecordFailure, Trips, None
    <3> QED
      BY <2>3, <3>2, <3>3, <3>4
  <2> QED
    BY <2>1, <2>2, <2>3 DEF Next, Step, Reload, Call, AcquirePermit, Saturated,
                            Return, Unwind
<1> QED
  BY Invariance, <1>1, PTL DEF Spec, CooldownNeverExtended

\* Only CheckBreaker makes a task outstanding, and never on an open breaker.
THEOREM OpenDrainsTheorem == Spec => OpenDrains
<1>1. ASSUME IInv, [Next]_vars
      PROVE  [\A c \in Client : IsOpen(breaker[c]) /\ IsOpen(breaker'[c])
                => Outstanding(c)' \subseteq Outstanding(c)]_vars
  <2> SUFFICES ASSUME Next, NEW c \in Client, IsOpen(breaker[c])
               PROVE  Outstanding(c)' \subseteq Outstanding(c)
    BY <1>1
  <2> USE <1>1 DEF IInv, TypeOK, Goto
  <2>1. CASE Reload \/ Tick
    BY <2>1 DEF Reload, Tick, Outstanding
  <2>2. ASSUME NEW t \in Task, Call(t)
        PROVE  Outstanding(c)' \subseteq Outstanding(c)
    BY <2>2 DEF Call, Outstanding
  <2>3. ASSUME NEW t \in Task, CheckBreaker(t)
        PROVE  Outstanding(c)' \subseteq Outstanding(c)
    BY <2>3 DEF CheckBreaker, Outstanding
  <2>4. ASSUME NEW t \in Task, AcquirePermit(t) \/ Saturated(t)
        PROVE  Outstanding(c)' \subseteq Outstanding(c)
    BY <2>4 DEF AcquirePermit, Saturated, Outstanding
  <2>5. ASSUME NEW t \in Task,
               LookupDone(t) \/ Elapsed(t) \/ Return(t) \/ Unwind(t)
        PROVE  Outstanding(c)' \subseteq Outstanding(c)
    BY <2>5 DEF LookupDone, Elapsed, Return, Unwind, Outstanding
  <2> QED
    BY <2>1, <2>2, <2>3, <2>4, <2>5 DEF Next, Step
<1> QED
  BY Invariance, <1>1, PTL DEF Spec, OpenDrains

-----------------------------------------------------------------------------
(* The safety part of the contract.                                        *)

\* The initial state is an initial state of the contract.
LEMMA ContractInit == Init => Contract!CInit
<1> SUFFICES ASSUME Init PROVE Contract!CInit
  OBVIOUS
<1>1. 0 \in Client
  BY DEF Client
<1>2. \A t \in Task : PhaseOf(t) = "out"
  BY DEF Init, PhaseOf
<1>3. client = [t \in Task |-> 0]
  BY DEF Init
<1> QED
  BY <1>1, <1>2, <1>3 DEF Contract!CInit

\* The contract counts with the same Cardinality.
LEMMA SameCardinality == \A S : Contract!Cardinality(S) = Cardinality(S)
BY DEF Contract!Cardinality, Cardinality

\* Every step is a step of the contract or changes nothing it mentions; that
\* a permit is free means that fewer than MAX_INFLIGHT lookups are in flight.
LEMMA ContractNext == IInv /\ [Next]_vars => [Contract!CNext]_(Contract!cvars)
<1> SUFFICES ASSUME IInv, [Next]_vars
             PROVE  [Contract!CNext]_(Contract!cvars)
  OBVIOUS
<1> DEFINE ph == [t \in Task |-> PhaseOf(t)]
<1>0. TypeOK
  BY DEF IInv
<1>1. CASE pc' = pc /\ client' = client
  BY <1>1 DEF Contract!cvars, PhaseOf
<1>2. ASSUME NEW t \in Task, NEW p, Step(t), PhaseOf(t)' = p
      PROVE  ph' = [ph EXCEPT ![t] = p]
  <2>1. \A u \in Task : u # t => pc'[u] = pc[u]
    BY <1>0, <1>2 DEF TypeOK, Step, Call, CheckBreaker, AcquirePermit, Saturated,
                LookupDone, Elapsed, Return, Unwind, Goto
  <2>2. \A u \in Task : u # t => PhaseOf(u)' = PhaseOf(u)
    BY <2>1 DEF PhaseOf
  <2> QED
    BY <1>2, <2>2
<1>3. ASSUME NEW t \in Task, Call(t) PROVE Contract!CNext
  <2>1. PhaseOf(t) = "out" /\ PhaseOf(t)' = "deciding"
    BY <1>0, <1>3 DEF Call, Goto, PhaseOf, TypeOK
  <2>2. ph' = [ph EXCEPT ![t] = "deciding"]
    BY <1>2, <1>3, <2>1 DEF Step
  <2>3. served \in Client /\ client' = [client EXCEPT ![t] = served]
    BY <1>0, <1>3 DEF Call, TypeOK
  <2>4. Contract!Enter(t, served)
    BY <2>1, <2>2, <2>3 DEF Contract!Enter
  <2> QED
    BY <2>3, <2>4 DEF Contract!CNext
<1>4. ASSUME NEW t \in Task, CheckBreaker(t) \/ Saturated(t)
      PROVE  [Contract!CNext]_(Contract!cvars)
  <2>1. client' = client /\ PhaseOf(t) = "deciding"
    BY <1>0, <1>4 DEF CheckBreaker, Saturated, Goto, PhaseOf
  <2>2. CASE PhaseOf(t)' = "out"
    <3>1. ph' = [ph EXCEPT ![t] = "out"]
      BY <1>2, <1>4, <2>2 DEF Step
    <3>2. Contract!Skip(t)
      BY <2>1, <3>1 DEF Contract!Skip
    <3> QED
      BY <3>2 DEF Contract!CNext
  <2>3. CASE PhaseOf(t)' = "deciding"
    <3>1. ph' = [ph EXCEPT ![t] = "deciding"]
      BY <1>2, <1>4, <2>3 DEF Step
    <3>2. ph' = ph
      BY <2>1, <3>1
    <3> QED
      BY <2>1, <3>2 DEF Contract!cvars
  <2> QED
    BY <1>0, <1>4, <2>2, <2>3 DEF CheckBreaker, Saturated, Goto, PhaseOf, TypeOK
<1>5. ASSUME NEW t \in Task, AcquirePermit(t) PROVE Contract!CNext
  <2>1. /\ PhaseOf(t) = "deciding" /\ PhaseOf(t)' = "inflight"
        /\ client' = client /\ client[t] \in Client
        /\ permits[client[t]] \in 1 .. MAX_INFLIGHT
    BY <1>0, <1>5 DEF AcquirePermit, Goto, PhaseOf, TypeOK
  <2>2. ph' = [ph EXCEPT ![t] = "inflight"]
    BY <1>2, <1>5, <2>1 DEF Step
  <2>3. \A c : Contract!Inflight(c) = Holders(c)
    BY <1>0 DEF Contract!Inflight, Holders, PhaseOf, TypeOK, Point
  <2>4. Cardinality(Holders(client[t])) \in Nat
    BY TaskSubset DEF Holders
  <2>5. Cardinality(Contract!Inflight(client[t])) < MAX_INFLIGHT
    BY <2>1, <2>3, <2>4 DEF IInv, PermitsConserved
  <2>6. Contract!Send(t)
    BY <2>1, <2>2, <2>5, SameCardinality DEF Contract!Send
  <2> QED
    BY <2>6 DEF Contract!CNext
<1>6. ASSUME NEW t \in Task, LookupDone(t) \/ Elapsed(t)
      PROVE  UNCHANGED Contract!cvars
  <2>1. client' = client /\ PhaseOf(t) = "inflight" /\ PhaseOf(t)' = "inflight"
    BY <1>0, <1>6 DEF LookupDone, Elapsed, Goto, PhaseOf, TypeOK
  <2>2. ph' = [ph EXCEPT ![t] = "inflight"]
    BY <1>2, <1>6, <2>1 DEF Step
  <2>3. ph' = ph
    BY <2>1, <2>2
  <2> QED
    BY <2>1, <2>3 DEF Contract!cvars
<1>7. ASSUME NEW t \in Task, Return(t) \/ Unwind(t) PROVE Contract!CNext
  <2>1. client' = client /\ PhaseOf(t) = "inflight" /\ PhaseOf(t)' = "out"
    BY <1>0, <1>7 DEF Return, Unwind, Goto, PhaseOf, TypeOK
  <2>2. ph' = [ph EXCEPT ![t] = "out"]
    BY <1>2, <1>7, <2>1 DEF Step
  <2>3. Contract!Finish(t)
    BY <2>1, <2>2 DEF Contract!Finish
  <2> QED
    BY <2>3 DEF Contract!CNext
<1> QED
  BY <1>1, <1>3, <1>4, <1>5, <1>6, <1>7 DEF Next, Step, Reload, Tick, vars

\* lookup_ptr keeps its contract: it never queues a call behind another and
\* never has more than MAX_INFLIGHT lookups in flight on one client.
THEOREM ContractSafety == Spec => Contract!CSafety
BY Invariance, ContractInit, ContractNext, PTL DEF Spec, Contract!CSafety

-----------------------------------------------------------------------------
(* The breaker and the history of timeouts.  TripJustified says nothing of *)
(* a closed breaker, so it is not inductive: StreakCovers relates the      *)
(* code's counter to the history in every state.                           *)

\* The counter never runs ahead of the timeouts in a row.
StreakCovers ==
    \A c \in Client : \/ breaker[c].consecutive_failures <= streak[c]
                      \/ streak[c] >= BREAKER_THRESHOLD

HInv == IInv /\ streak \in [Client -> Nat] /\ StreakCovers

\* Without the history variable, the steps are those of Upstream.
LEMMA HistoryStep == [HNext]_hvars => [Next]_vars
BY DEF HNext, hvars, vars, Next, Step, Answered, TimedOut, Silent

\* The counter and the history start at zero.
LEMMA InitHInv == HInit => HInv
<1> SUFFICES ASSUME HInit PROVE HInv
  OBVIOUS
<1>1. IInv
  BY InitIInv DEF HInit
<1>2. StreakCovers
  BY DEF HInit, Init, StreakCovers, Default
<1> QED
  BY <1>1, <1>2 DEF HInv, HInit

\* Steps that record no outcome: the counter stays, or is reset.
LEMMA SilentHInv ==
    ASSUME HInv, IInv', streak' = streak,
           \A c \in Client : breaker'[c].consecutive_failures
                               \in {0, breaker[c].consecutive_failures}
    PROVE  HInv'
<1>1. \A c \in Client : streak[c] \in Nat
  BY DEF HInv
<1> QED
  BY <1>1 DEF HInv, StreakCovers

\* Every step keeps the counter covered by the history.
LEMMA StepHInv == HInv /\ [HNext]_hvars => HInv'
<1> SUFFICES ASSUME HInv, [HNext]_hvars PROVE HInv'
  OBVIOUS
<1>1. IInv /\ TypeOK
  BY DEF HInv, IInv
<1>2. IInv'
  BY <1>1, HistoryStep, NextIInv
<1>3. \A c \in Client : breaker[c] \in BreakerState
  BY <1>1 DEF TypeOK
<1>4. ASSUME NEW t \in Task, Answered(t) PROVE HInv'
  <2>1. client[t] \in Client
    BY <1>1 DEF TypeOK
  <2>2. /\ breaker'[client[t]] = Default /\ streak'[client[t]] = 0
        /\ \A c \in Client : c # client[t] => breaker'[c] = breaker[c] /\ streak'[c] = streak[c]
        /\ streak' \in [Client -> Nat]
    BY <1>1, <1>4, <2>1 DEF Answered, LookupDone, AfterRecordSuccess, HInv, TypeOK
  <2> QED
    BY <1>2, <2>2 DEF HInv, StreakCovers, Default
<1>5. ASSUME NEW t \in Task, TimedOut(t) PROVE HInv'
  <2>1. client[t] \in Client
    BY <1>1 DEF TypeOK
  <2>2. /\ breaker'[client[t]].consecutive_failures
              = breaker[client[t]].consecutive_failures + 1
        /\ streak'[client[t]] = IF streak[client[t]] < BREAKER_THRESHOLD
                                  THEN streak[client[t]] + 1 ELSE streak[client[t]]
        /\ \A c \in Client : c # client[t] => breaker'[c] = breaker[c] /\ streak'[c] = streak[c]
        /\ streak' \in [Client -> Nat]
    BY <1>1, <1>5, <2>1 DEF TimedOut, Elapsed, AfterRecordFailure, HInv, TypeOK
  <2>3. /\ breaker[client[t]].consecutive_failures \in Nat /\ streak[client[t]] \in Nat
        /\ \/ breaker[client[t]].consecutive_failures <= streak[client[t]]
           \/ streak[client[t]] >= BREAKER_THRESHOLD
    BY <1>3, <2>1 DEF HInv, StreakCovers, BreakerState
  <2> QED
    BY <1>2, <2>2, <2>3 DEF HInv, StreakCovers
<1>6. ASSUME NEW t \in Task, Silent(t) PROVE HInv'
  <2>1. CASE CheckBreaker(t)
    BY <1>1, <1>2, <1>6, <2>1, SilentHInv
       DEF Silent, CheckBreaker, AfterIsOpen, Default, TypeOK
  <2>2. CASE ~ CheckBreaker(t)
    <3>1. breaker' = breaker
      BY <1>6, <2>2 DEF Silent, Call, AcquirePermit, Saturated, Return, Unwind
    <3> QED
      BY <1>2, <1>6, <3>1, SilentHInv DEF Silent
  <2> QED
    BY <2>1, <2>2
<1>7. CASE (Reload \/ Tick) /\ UNCHANGED streak
  <2>1. \A c \in Client : breaker'[c].consecutive_failures = breaker[c].consecutive_failures
    BY <1>1, <1>3, <1>7 DEF Reload, Tick, TypeOK, BreakerState
  <2> QED
    BY <1>2, <1>7, <2>1, SilentHInv
<1>8. CASE UNCHANGED hvars
  BY <1>2, <1>8, SilentHInv DEF hvars
<1> QED
  BY <1>4, <1>5, <1>6, <1>7, <1>8 DEF HNext

\* The breaker opens only on a run of BREAKER_THRESHOLD timeouts with no answer
\* between them, however many lookups overlap and however often it expired.
THEOREM TripTheorem == HSpec => []TripJustified
<1>1. HInv => TripJustified
  <2> SUFFICES ASSUME HInv, NEW c \in Client, breaker[c].open_until # None
               PROVE  streak[c] >= BREAKER_THRESHOLD
    BY DEF TripJustified
  <2>1. breaker[c].consecutive_failures \in Nat /\ streak[c] \in Nat
    BY DEF HInv, IInv, TypeOK, BreakerState
  <2>2. ~ (breaker[c].consecutive_failures < BREAKER_THRESHOLD)
    BY DEF HInv, IInv, BreakerCoherent
  <2> QED
    BY <2>1, <2>2 DEF HInv, StreakCovers
<1>2. HSpec => []HInv
  BY InitHInv, StepHInv, PTL DEF HSpec
<1> QED
  BY <1>1, <1>2, PTL
=============================================================================
