----------------------------- MODULE RrlHistory -----------------------------
(***************************************************************************)
(* Rrl with an observer that measures a window of time, started at any     *)
(* moment: how many responses each bucket let through and how much time    *)
(* passed since; how many responses in a row were dropped silently; and    *)
(* which response a task is holding back.                                  *)
(***************************************************************************)
EXTENDS Rrl

CONSTANT MaxElapsed     \* bound on the length of a window, in ticks

ASSUME ElapsedAssumption == MaxElapsed \in Nat

VARIABLES
    granted,    \* bucket -> cells taken in the window
    elapsed,    \* ticks in the window
    drops,      \* responses dropped since the last truncated one
    withheld    \* task -> the response check_key refused it last, or NoResponse

hvars == <<vars, granted, elapsed, drops, withheld>>

NoResponse == <<>>

HInit == /\ Init
         /\ granted = [b \in Bucket |-> 0]
         /\ elapsed = 0
         /\ drops = 0
         /\ withheld = [t \in Task |-> NoResponse]

\* The observer opens a new window.
StartWindow == /\ granted' = [b \in Bucket |-> 0]
               /\ elapsed' = 0
               /\ UNCHANGED <<vars, drops, withheld>>

HExempt(t) == /\ Exempt(t)
              /\ withheld' = [withheld EXCEPT ![t] = NoResponse]
              /\ UNCHANGED <<granted, elapsed, drops>>

HGrant(t) == /\ \E r \in Response :
                   /\ Grant(t, OwnBucket(r))
                   /\ granted' = [granted EXCEPT ![OwnBucket(r)] = @ + 1]
             /\ withheld' = [withheld EXCEPT ![t] = NoResponse]
             /\ UNCHANGED <<elapsed, drops>>

HExceed(t) == /\ \E r \in Response :
                    /\ Exceed(t, OwnBucket(r))
                    /\ withheld' = [withheld EXCEPT ![t] = r]
              /\ UNCHANGED <<granted, elapsed, drops>>

HSuppress(t) == /\ Suppress(t)
                /\ drops' = IF Slips(suppressed) THEN 0 ELSE drops + 1
                /\ UNCHANGED <<granted, elapsed, withheld>>

HTick == /\ elapsed < MaxElapsed
         /\ Tick
         /\ elapsed' = elapsed + 1
         /\ UNCHANGED <<granted, drops, withheld>>

HSweep == /\ SweepAnswers \/ SweepNegatives
          /\ UNCHANGED <<granted, elapsed, drops, withheld>>

HNext == \/ \E t \in Task : HExempt(t) \/ HGrant(t) \/ HExceed(t) \/ HSuppress(t)
         \/ HTick
         \/ HSweep
         \/ StartWindow

HSpec == HInit /\ [][HNext]_hvars

-----------------------------------------------------------------------------
\* In any window, and wherever sweeps fall into it, a client prefix gets at
\* most burst responses of a kind plus one per replenishment interval.
RateBounded == \A b \in Bucket : granted[b] <= BURST + elapsed

\* RateBounded made inductive: what a bucket still holds is part of the budget.
BudgetConserved == \A b \in Bucket : granted[b] + Cells(bucket[b]) <= BURST + elapsed

\* Fewer than slip responses in a row are dropped without a truncated one,
\* whatever tasks do between check_key and fetch_add, also across the
\* counter's wrap-around.  The counter is one for all clients: which of them
\* gets the truncated response is not said.
SlipKept == SLIP > 0 => drops < SLIP

-----------------------------------------------------------------------------
(* What the limiter promises: plain buckets that are never forgotten.      *)

Promise == INSTANCE TokenBudget
             WITH Own <- [r \in Response |-> OwnBucket(r)],
                  cells <- [b \in Bucket |-> Cells(bucket[b])],
                  verdict <- [t \in Task |-> IF decision[t] = "Allow"
                                               THEN "pass" ELSE "refuse"]

\* Sweeping is invisible, and a response is suppressed only when the bucket of
\* its own kind and prefix is empty at the moment check_key looks, whatever
\* other tasks and the clock do before it is dropped or truncated: the limiter
\* implements plain buckets.
ImplementsBudget == Promise!BSpec
=============================================================================
