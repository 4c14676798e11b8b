-------------------------- MODULE UpstreamHistory ---------------------------
(***************************************************************************)
(* Upstream with a history variable: how many lookups of a client have     *)
(* timed out in a row since one of them was last answered.  The code keeps *)
(* no such record - it resets its counter when a cooldown expires - so the *)
(* question whether the breaker only ever opens on a run of timeouts is    *)
(* about the history, not about the code's own counter.                    *)
(***************************************************************************)
EXTENDS Upstream

VARIABLE streak     \* client -> timeouts in a row, counted up to the threshold

hvars == <<served, breaker, permits, pc, client, timer, streak>>

HInit == Init /\ streak = [c \in Client |-> 0]

Answered(t) == /\ LookupDone(t)
               /\ streak' = [streak EXCEPT ![client[t]] = 0]

TimedOut(t) == /\ Elapsed(t)
               /\ streak' = [streak EXCEPT ![client[t]] =
                               IF @ < BREAKER_THRESHOLD THEN @ + 1 ELSE @]

Silent(t) == /\ \/ Call(t) \/ CheckBreaker(t) \/ AcquirePermit(t)
                \/ Saturated(t) \/ Return(t) \/ Unwind(t)
             /\ UNCHANGED streak

HNext == \/ (Reload \/ Tick) /\ UNCHANGED streak
         \/ \E t \in Task : Answered(t) \/ TimedOut(t) \/ Silent(t)

HSpec == HInit /\ [][HNext]_hvars

\* The fairness of Upstream; the history variable restricts no step.
FairHSpec == HSpec /\ Fairness

\* The breaker is open only after BREAKER_THRESHOLD lookups in a row timed
\* out: timeouts separated by an answer, or counted for another generation
\* of the client, never add up, however the lookups overlap.
TripJustified ==
    \A c \in Client : breaker[c].open_until # None => streak[c] >= BREAKER_THRESHOLD
=============================================================================
