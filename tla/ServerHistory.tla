--------------------------- MODULE ServerHistory ----------------------------
(***************************************************************************)
(* Server with an observer on the wire: the full replies to standard       *)
(* queries that left over UDP, per bucket they belong to, and the time     *)
(* that has passed.                                                        *)
(***************************************************************************)
EXTENDS Server

CONSTANT MaxElapsed     \* bound on the observed time, in ticks

VARIABLES
    replies,    \* bucket -> full UDP replies sent
    elapsed     \* ticks passed

hvars == <<vars, replies, elapsed>>

HInit == /\ Init
         /\ replies = [b \in Limiter!Bucket |-> 0]
         /\ elapsed = 0

Charged(t) == pc[t] = "sending" /\ ~ req[t].tcp

HSend(t) == /\ SendReply(t)
            /\ replies' = IF Charged(t) THEN [replies EXCEPT ![BucketOf(t)] = @ + 1]
                                        ELSE replies
            /\ UNCHANGED elapsed

HTick == /\ elapsed < MaxElapsed
         /\ Tick
         /\ elapsed' = elapsed + 1
         /\ UNCHANGED replies

Unobserved == /\ \/ Reload
                 \/ Sweep
                 \/ \E t \in Task : Receive(t) \/ Prepare(t) \/ Panic(t)
              /\ UNCHANGED <<replies, elapsed>>

HNext == HTick \/ Unobserved \/ \E t \in Task : HSend(t)

HSpec == HInit /\ [][HNext]_hvars

\* The fairness of Server; HTick's bound is no task's step.
FairHSpec == HSpec /\ Fairness

-----------------------------------------------------------------------------
\* What the limiter grants is what leaves the server: whatever requests
\* overlap, fail, panic or are caught by a reload or a sweep, a client prefix is
\* sent at most burst full UDP replies of a kind plus one per replenishment
\* interval.
WireRateBounded ==
    RRL_ON => \A b \in Limiter!Bucket : replies[b] <= BURST + elapsed
=============================================================================
