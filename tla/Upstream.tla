------------------------------ MODULE Upstream ------------------------------
(***************************************************************************)
(* The upstream client of src/upstream.rs: the optional PTR override       *)
(* lookup, its in-flight semaphore and its circuit breaker, as request     *)
(* tasks share them, and what a SIGHUP reload does to them.                *)
(*                                                                         *)
(* One upstream ADDRESS is modelled.  Every reload builds a new `Zones`    *)
(* and with it a new `Upstream` for the address (server/handler.rs), so    *)
(* the clients are numbered by the reload that made them, and a task keeps *)
(* using the client of the configuration it loaded when it started.        *)
(*                                                                         *)
(* Each critical section of the breaker's mutex, each semaphore operation  *)
(* and each await point of lookup_ptr is one step.  Time is discrete: an   *)
(* Instant in the future is the number of ticks left until it, 0 when it   *)
(* has passed.                                                             *)
(***************************************************************************)
EXTENDS Integers, FiniteSets

CONSTANTS
    Task,               \* request tasks that may be in lookup_ptr at once
    MAX_INFLIGHT,       \* permits of the semaphore
    BREAKER_THRESHOLD,  \* consecutive timeouts that trip the breaker
    BREAKER_COOLDOWN,   \* ticks a tripped breaker stays open
    TIMEOUT,            \* upstream_timeout, in ticks
    MaxReloads          \* bound on the number of SIGHUP reloads

ASSUME TaskAssumption      == IsFiniteSet(Task)
ASSUME InflightAssumption  == MAX_INFLIGHT \in Nat \ {0}
ASSUME ThresholdAssumption == BREAKER_THRESHOLD \in Nat \ {0}
ASSUME CooldownAssumption  == BREAKER_COOLDOWN \in Nat \ {0}
ASSUME TimeoutAssumption   == TIMEOUT \in Nat \ {0}
ASSUME ReloadsAssumption   == MaxReloads \in Nat

VARIABLES
    served,     \* the client held by the configuration now published
    breaker,    \* client -> BreakerState
    permits,    \* client -> permits left in the semaphore
    pc,         \* task -> where it is in lookup_ptr
    client,     \* task -> the client it uses (or used last)
    timer       \* task -> ticks left of the timeout around the lookup

vars == <<served, breaker, permits, pc, client, timer>>

Client == 0 .. MaxReloads

Point == {"idle",      \* not in lookup_ptr
          "called",    \* entered, breaker not yet looked at
          "admitted",  \* breaker was closed, no permit yet
          "waiting",   \* permit held, awaiting resolver.lookup
          "recorded"}  \* outcome recorded, permit not yet dropped

None == -1

BreakerState == [consecutive_failures : Nat,
                 open_until : {None} \cup 0 .. BREAKER_COOLDOWN]

(***************************************************************************)
(* The breaker's three operations, each a mutex-protected update.  A       *)
(* poisoned lock needs a panic inside a critical section; none of the      *)
(* three can panic, so that branch is not modelled.                        *)
(***************************************************************************)
Default == [consecutive_failures |-> 0, open_until |-> None]

\* The answer of is_open.
IsOpen(b) == b.open_until > 0

\* Mutant: an expired breaker forgets its deadline but keeps its failure count.
AfterIsOpenKeepingCount(b) == IF b.open_until = 0 THEN [b EXCEPT !.open_until = None] ELSE b

\* What is_open leaves behind: an expired breaker is reset.
AfterIsOpen(b) == IF b.open_until = 0 THEN Default ELSE b

\* Mutant: a success leaves the failure count alone while the breaker is closed.
AfterRecordSuccessCounting(b) == [b EXCEPT !.open_until = None]

AfterRecordSuccess(b) == Default

\* Mutant: no is_none test, every failure past the threshold sets the deadline.
TripsAgain(b) == b.consecutive_failures + 1 >= BREAKER_THRESHOLD

Trips(b) == b.consecutive_failures + 1 >= BREAKER_THRESHOLD /\ b.open_until = None

\* consecutive_failures saturates at 2^32 - 1; FailuresBounded shows that
\* the counter stays far below it, so the sum is taken over Nat.
AfterRecordFailure(b) ==
    [consecutive_failures |-> b.consecutive_failures + 1,
     open_until |-> IF Trips(b) THEN BREAKER_COOLDOWN ELSE b.open_until]

-----------------------------------------------------------------------------
Init ==
    /\ served = 0
    /\ breaker = [c \in Client |-> Default]
    /\ permits = [c \in Client |-> MAX_INFLIGHT]
    /\ pc = [t \in Task |-> "idle"]
    /\ client = [t \in Task |-> 0]
    /\ timer = [t \in Task |-> 0]

Goto(t, from, to) ==
    /\ pc[t] = from
    /\ pc' = [pc EXCEPT ![t] = to]

\* A successful SIGHUP reload publishes a Zones with a client of its own.
Reload ==
    /\ served < MaxReloads
    /\ served' = served + 1
    /\ UNCHANGED <<breaker, permits, pc, client, timer>>

\* A PTR query in a zone with an upstream: the task, which loaded the
\* configuration, calls lookup_ptr on that configuration's client.
Call(t) ==
    /\ Goto(t, "idle", "called")
    /\ client' = [client EXCEPT ![t] = served]
    /\ UNCHANGED <<served, breaker, permits, timer>>

\* Mutant: the answer of is_open is ignored.
CheckBreakerIgnored(t) ==
    LET b == breaker[client[t]] IN
    /\ Goto(t, "called", "admitted")
    /\ breaker' = [breaker EXCEPT ![client[t]] = AfterIsOpen(b)]
    /\ UNCHANGED <<served, permits, client, timer>>

\* Mutant: the deadline is never compared with the clock.
CheckBreakerForever(t) ==
    /\ Goto(t, "called", IF breaker[client[t]].open_until # None THEN "idle" ELSE "admitted")
    /\ UNCHANGED <<served, breaker, permits, client, timer>>

\* The first statement: skip the upstream while the breaker is open.
CheckBreaker(t) ==
    LET b == breaker[client[t]] IN
    /\ Goto(t, "called", IF IsOpen(b) THEN "idle" ELSE "admitted")
    /\ breaker' = [breaker EXCEPT ![client[t]] = AfterIsOpen(b)]
    /\ UNCHANGED <<served, permits, client, timer>>

\* Mutant: the permit is taken without looking whether there is one.
AcquirePermitUnchecked(t) ==
    /\ Goto(t, "admitted", "waiting")
    /\ permits' = [permits EXCEPT ![client[t]] = IF @ > 0 THEN @ - 1 ELSE @]
    /\ timer' = [timer EXCEPT ![t] = TIMEOUT]
    /\ UNCHANGED <<served, breaker, client>>

\* try_acquire_owned, and the start of the lookup under its timeout.  The
\* early return for a name that cannot take the extra label is unreachable:
\* only a full 34-label reverse name gets here.
AcquirePermit(t) ==
    /\ permits[client[t]] > 0
    /\ Goto(t, "admitted", "waiting")
    /\ permits' = [permits EXCEPT ![client[t]] = @ - 1]
    /\ timer' = [timer EXCEPT ![t] = TIMEOUT]
    /\ UNCHANGED <<served, breaker, client>>

\* No permit: skip the upstream instead of queueing.
Saturated(t) ==
    /\ permits[client[t]] = 0
    /\ Goto(t, "admitted", "idle")
    /\ UNCHANGED <<served, breaker, permits, client, timer>>

\* The lookup completed, with records (Ok(Ok)) or with an error that is not
\* the outer timeout (Ok(Err): negative answer, refusal, the resolver's own
\* deadline): both record a success.  The future is polled before the
\* deadline is, so a late answer may still win over an expired timer.
LookupDone(t) ==
    /\ Goto(t, "waiting", "recorded")
    /\ breaker' = [breaker EXCEPT ![client[t]] = AfterRecordSuccess(@)]
    /\ timer' = [timer EXCEPT ![t] = 0]
    /\ UNCHANGED <<served, permits, client>>

\* Err(_elapsed): the outer timeout fired.
Elapsed(t) ==
    /\ timer[t] = 0
    /\ Goto(t, "waiting", "recorded")
    /\ breaker' = [breaker EXCEPT ![client[t]] = AfterRecordFailure(@)]
    /\ UNCHANGED <<served, permits, client, timer>>

\* lookup_ptr returns and drops _permit.
Return(t) ==
    /\ Goto(t, "recorded", "idle")
    /\ permits' = [permits EXCEPT ![client[t]] = @ + 1]
    /\ UNCHANGED <<served, breaker, client, timer>>

\* Mutant: a permit that is forgotten when the lookup panics.
UnwindLeaking(t) ==
    /\ Goto(t, "waiting", "idle")
    /\ timer' = [timer EXCEPT ![t] = 0]
    /\ UNCHANGED <<served, breaker, permits, client>>

\* A panic inside the resolver unwinds to the handler's catch_unwind: the
\* permit is dropped, nothing is recorded.
Unwind(t) ==
    /\ Goto(t, "waiting", "idle")
    /\ permits' = [permits EXCEPT ![client[t]] = @ + 1]
    /\ timer' = [timer EXCEPT ![t] = 0]
    /\ UNCHANGED <<served, breaker, client>>

\* Mutant: a deadline that runs on after it has passed.
CountdownPastZero(n) == n - 1

Countdown(n) == IF n > 0 THEN n - 1 ELSE n

\* Time passes for every deadline.
Tick ==
    /\ \/ \E t \in Task : timer[t] > 0
       \/ \E c \in Client : IsOpen(breaker[c])
    /\ timer' = [t \in Task |-> Countdown(timer[t])]
    /\ breaker' = [c \in Client |->
                     [breaker[c] EXCEPT !.open_until = Countdown(@)]]
    /\ UNCHANGED <<served, permits, pc, client>>

Step(t) == \/ Call(t)
           \/ CheckBreaker(t)
           \/ AcquirePermit(t)
           \/ Saturated(t)
           \/ LookupDone(t)
           \/ Elapsed(t)
           \/ Return(t)
           \/ Unwind(t)

Next == \/ Reload
        \/ Tick
        \/ \E t \in Task : Step(t)

\* The runtime keeps polling a task that can run and its timers fire; that a
\* query arrives, an operator reloads, or an upstream answers is not assumed.
Fairness ==
    /\ WF_vars(Tick)
    /\ \A t \in Task : /\ WF_vars(CheckBreaker(t))
                       /\ WF_vars(AcquirePermit(t) \/ Saturated(t))
                       /\ WF_vars(Elapsed(t))
                       /\ WF_vars(Return(t))

Spec == Init /\ [][Next]_vars

-----------------------------------------------------------------------------
(* What holds in every reachable state.                                    *)

\* Tasks that hold one of c's permits.
Holders(c) == {t \in Task : client[t] = c /\ pc[t] \in {"waiting", "recorded"}}

\* Tasks that got past c's breaker and have no outcome yet.
Outstanding(c) == {t \in Task : client[t] = c /\ pc[t] \in {"admitted", "waiting"}}

\* Every variable stays in its type.
TypeOK ==
    /\ served \in Client
    /\ breaker \in [Client -> BreakerState]
    /\ permits \in [Client -> 0 .. MAX_INFLIGHT]
    /\ pc \in [Task -> Point]
    /\ client \in [Task -> Client]
    /\ timer \in [Task -> 0 .. TIMEOUT]

\* No path through lookup_ptr leaks or duplicates a permit: answer, timeout,
\* panic and reload all give back exactly what try_acquire_owned took.
PermitsConserved ==
    \A c \in Client : permits[c] + Cardinality(Holders(c)) = MAX_INFLIGHT

\* However timeouts, late answers, expiries and admissions interleave, the
\* breaker is never closed with a full failure count nor open without one.
BreakerCoherent ==
    \A c \in Client : breaker[c].open_until = None
                        <=> breaker[c].consecutive_failures < BREAKER_THRESHOLD

\* Failures that arrive after the trip are those of lookups admitted before
\* it, so the count never exceeds the threshold by as many as there are
\* tasks: record_failure's saturating_add never saturates.
FailuresBounded ==
    \A c \in Client :
        breaker[c].consecutive_failures + Cardinality(Outstanding(c))
            < BREAKER_THRESHOLD + Cardinality(Task)

\* A failure recorded while the breaker is already open (of a lookup that was
\* in flight when it tripped) never pushes the end of the cooldown back.
CooldownNeverExtended ==
    [][\A c \in Client : breaker[c].open_until # None
                           => breaker'[c].open_until <= breaker[c].open_until]_vars

\* While a breaker stays open nothing new gets past it: the set of lookups
\* outstanding on that client only shrinks.
OpenDrains ==
    [][\A c \in Client : IsOpen(breaker[c]) /\ IsOpen(breaker'[c])
                           => Outstanding(c)' \subseteq Outstanding(c)]_vars

\* A skipped upstream is not skipped for ever: while lookups keep being made
\* on a client, its breaker closes again and again.
UpstreamRetried ==
    \A c \in Client :
        ([]<>(\E t \in Task : pc[t] = "called" /\ client[t] = c))
            => []<>(breaker[c].open_until = None)

-----------------------------------------------------------------------------
(* The promise to callers, and how this module's states show it.           *)

PhaseOf(t) == CASE pc[t] = "idle" -> "out"
                [] pc[t] \in {"called", "admitted"} -> "deciding"
                [] OTHER -> "inflight"

Contract == INSTANCE LookupContract
              WITH phase <- [t \in Task |-> PhaseOf(t)], on <- client

\* lookup_ptr implements its contract: bounded per client, never queueing, and
\* always returning in the end, however dead the upstream is.
ImplementsContract == Contract!CSpec

=============================================================================
