-------------------------------- MODULE Rrl ---------------------------------
(***************************************************************************)
(* The response rate limiter of src/rrl.rs: client aggregation, the two    *)
(* keyed token buckets, the shared slip counter, and the sweep task that   *)
(* main.rs runs beside the request tasks.                                  *)
(*                                                                         *)
(* The buckets are those of the `governor` crate (external): check_key and *)
(* the removal of one key are atomic per key, and a key is removed only    *)
(* when its bucket cannot be told from a new one.  One tick of the model   *)
(* is the time in which one cell is replenished, 1/responses_per_second.   *)
(***************************************************************************)
EXTENDS Integers, FiniteSets

CONSTANTS
    Task,           \* request tasks that may be in decide at once
    Addr,           \* client addresses, members of Address
    RRL_ON,         \* params.enabled
    BURST,          \* params.burst
    SLIP,           \* params.slip
    V4_BITS,        \* width of an IPv4 address (32)
    V6_BITS,        \* width of an IPv6 address (128)
    V6_LOW,         \* bits of an IPv6 address that a key ignores (64)
    IPV4_PREFIX,    \* params.ipv4_prefix
    IPV6_PREFIX,    \* params.ipv6_prefix
    COUNTER         \* values of the suppressed counter (2^64)

Address == [family : {"V4"}, bits : 0 .. 2^V4_BITS - 1]
             \cup [family : {"V6"}, bits : 0 .. 2^V6_BITS - 1]

ASSUME AddrAssumption    == Addr \subseteq Address
ASSUME RrlOnAssumption   == RRL_ON \in BOOLEAN
ASSUME BurstAssumption   == BURST \in Nat \ {0}
ASSUME SlipAssumption    == SLIP \in Nat
ASSUME WidthAssumption   == /\ {V4_BITS, V6_BITS, V6_LOW} \subseteq Nat
                            /\ V6_LOW <= V6_BITS
                            /\ {IPV4_PREFIX, IPV6_PREFIX} \subseteq Nat
ASSUME CounterAssumption == COUNTER \in Nat \ {0}

\* What a power of two is, up to the widths that occur: a fact of arithmetic,
\* stated because the provers know no exponentiation.
ASSUME PowerAssumption ==
    \A n \in 0 .. V4_BITS + V6_BITS : 2^n \in Nat \ {0} /\ 2^(n + 1) = 2 * 2^n

VARIABLES
    bucket,     \* kind and key -> cells left, or Untracked
    suppressed, \* the counter that drives slip
    decision,   \* task -> its last decision, or "over" between its two steps
    sweeper     \* what the sweep task does next

vars == <<bucket, suppressed, decision, sweeper>>

Kind == {"Answer", "Negative"}
Decision == {"Allow", "Drop", "Truncate"}

(***************************************************************************)
(* ClientKey::new.  Shifting right and left again clears the low bits; a   *)
(* shift by the whole width or more gives 0.                               *)
(***************************************************************************)
Smaller(m, n) == IF m < n THEN m ELSE n

\* Mutant: one bit too many is cleared.
AggregateTooWide(bits, width, prefix) ==
    LET shift == width - Smaller(prefix, width) + 1
    IN  (bits \div 2^shift) * 2^shift

Aggregate(bits, width, prefix) ==
    LET shift == width - Smaller(prefix, width)
    IN  (bits \div 2^shift) * 2^shift

ClientKey(a) ==
    IF a.family = "V4"
      THEN <<"V4", Aggregate(a.bits, V4_BITS, IPV4_PREFIX)>>
      ELSE <<"V6", Aggregate(a.bits \div 2^V6_LOW, V6_BITS - V6_LOW, IPV6_PREFIX)>>

Key == {ClientKey(a) : a \in Addr}
Bucket == Kind \X Key

Untracked == -1

\* governor: a key that is not in the store has all its cells.
Cells(n) == IF n = Untracked THEN BURST ELSE n

-----------------------------------------------------------------------------
Init ==
    /\ bucket = [b \in Bucket |-> Untracked]
    /\ suppressed = 0
    /\ decision = [t \in Task |-> "Allow"]
    /\ sweeper = "asleep"

Decide(t, d) == decision' = [decision EXCEPT ![t] = d]

Ready(t) == decision[t] # "over"

\* Rate limiting off, or a TCP client: allowed without looking at a bucket.
Exempt(t) ==
    /\ Ready(t)
    /\ Decide(t, "Allow")
    /\ UNCHANGED <<bucket, suppressed, sweeper>>

\* Mutant: an empty bucket still grants.
GrantOne(t, b) ==
    /\ RRL_ON
    /\ Ready(t)
    /\ Cells(bucket[b]) >= 0
    /\ bucket' = [bucket EXCEPT ![b] = IF Cells(@) > 0 THEN Cells(@) - 1 ELSE 0]
    /\ Decide(t, "Allow")
    /\ UNCHANGED <<suppressed, sweeper>>

\* check_key is Ok: one cell is taken.
Grant(t, b) ==
    /\ RRL_ON
    /\ Ready(t)
    /\ Cells(bucket[b]) > 0
    /\ bucket' = [bucket EXCEPT ![b] = Cells(@) - 1]
    /\ Decide(t, "Allow")
    /\ UNCHANGED <<suppressed, sweeper>>

\* check_key is Err: over budget.
Exceed(t, b) ==
    /\ RRL_ON
    /\ Ready(t)
    /\ Cells(bucket[b]) = 0
    /\ Decide(t, "over")
    /\ UNCHANGED <<bucket, suppressed, sweeper>>

\* Mutant: one response too many is dropped before a truncated one.
SlipsLate(n) == SLIP > 0 /\ n % (SLIP + 1) = 0

\* is_multiple_of: 0 has no multiples other than 0, and slip 0 never truncates.
Slips(n) == SLIP > 0 /\ n % SLIP = 0

\* Mutant: a counter that does not wrap.
SuppressUnbounded(t) ==
    /\ decision[t] = "over"
    /\ suppressed' = suppressed + 1
    /\ Decide(t, IF Slips(suppressed) THEN "Truncate" ELSE "Drop")
    /\ UNCHANGED <<bucket, sweeper>>

\* fetch_add on the shared counter, which wraps, and what its old value means.
Suppress(t) ==
    /\ decision[t] = "over"
    /\ suppressed' = (suppressed + 1) % COUNTER
    /\ Decide(t, IF Slips(suppressed) THEN "Truncate" ELSE "Drop")
    /\ UNCHANGED <<bucket, sweeper>>

\* Mutant: every key of the kind is forgotten, also those with cells missing.
RetainNone(kind) ==
    bucket' = [b \in Bucket |-> IF b[1] = kind THEN Untracked ELSE bucket[b]]

\* governor's retain_recent: forget the keys whose bucket is full again.
RetainRecent(kind) ==
    bucket' = [b \in Bucket |-> IF b[1] = kind /\ bucket[b] = BURST
                                  THEN Untracked ELSE bucket[b]]

SweepAnswers ==
    /\ sweeper = "asleep"
    /\ RetainRecent("Answer")
    /\ sweeper' = "negatives"
    /\ UNCHANGED <<suppressed, decision>>

\* Mutant: the sweep visits the answers' store twice.
SweepAnswersTwice ==
    /\ sweeper = "negatives"
    /\ RetainRecent("Answer")
    /\ sweeper' = "asleep"
    /\ UNCHANGED <<suppressed, decision>>

SweepNegatives ==
    /\ sweeper = "negatives"
    /\ RetainRecent("Negative")
    /\ sweeper' = "asleep"
    /\ UNCHANGED <<suppressed, decision>>

\* Every tracked bucket that is not full gets a cell back.
Refill(n) == IF n \in 0 .. BURST - 1 THEN n + 1 ELSE n

Tick ==
    /\ \E b \in Bucket : bucket[b] \in 0 .. BURST - 1
    /\ bucket' = [b \in Bucket |-> Refill(bucket[b])]
    /\ UNCHANGED <<suppressed, decision, sweeper>>

\* A response of some kind to some address, over UDP, and its bucket: the store
\* is that of the kind, the key that of the client.
Response == Kind \X Addr
OwnBucket(r) == <<r[1], ClientKey(r[2])>>

Limited(t) == \E r \in Response : Grant(t, OwnBucket(r)) \/ Exceed(t, OwnBucket(r))

Next == \/ \E t \in Task : Exempt(t) \/ Limited(t) \/ Suppress(t)
        \/ SweepAnswers
        \/ SweepNegatives
        \/ Tick

\* The clock advances, the sweep task's interval fires again and again, and a
\* task that is over budget finishes decide.
Fairness == /\ WF_vars(Tick)
            /\ WF_vars(SweepAnswers)
            /\ WF_vars(SweepNegatives)
            /\ \A t \in Task : WF_vars(Suppress(t))

Spec == Init /\ [][Next]_vars

FairSpec == Spec /\ Fairness

-----------------------------------------------------------------------------
\* Every variable stays in its type.
TypeOK ==
    /\ bucket \in [Bucket -> {Untracked} \cup 0 .. BURST]
    /\ suppressed \in 0 .. COUNTER - 1
    /\ decision \in [Task -> Decision \cup {"over"}]
    /\ sweeper \in {"asleep", "negatives"}

\* The number of leading bits of an address that choose its bucket.
KeyBits(a) == IF a.family = "V4" THEN Smaller(IPV4_PREFIX, V4_BITS)
                                 ELSE Smaller(IPV6_PREFIX, V6_BITS - V6_LOW)

Width(a) == IF a.family = "V4" THEN V4_BITS ELSE V6_BITS

\* Bit i of an address, counted from the most significant one.
Bit(a, i) == (a.bits \div 2^(Width(a) - i)) % 2

SamePrefix(a, b) ==
    /\ a.family = b.family
    /\ \A i \in 1 .. KeyBits(a) : Bit(a, i) = Bit(b, i)

\* This step takes a cell that address a would have been given.
Charged(k, a) ==
    Cells(bucket'[<<k, ClientKey(a)>>]) < Cells(bucket[<<k, ClientKey(a)>>])

\* A response to one client is charged to exactly the clients that have its
\* family and agree with it on the leading prefix bits: ClientKey::new neither
\* splits a prefix nor merges two, at the widths 0 and full included.
ChargesPrefix ==
    [][\A k \in Kind, a \in Addr :
           Charged(k, a) => \A b \in Addr : Charged(k, b) <=> SamePrefix(a, b)]_vars

\* Memory stays bounded: a bucket no response is charged to any more is
\* dropped by the sweep and stays out of the store.
QuietForgotten ==
    \A b \in Bucket : \/ []<><<\E t \in Task : Grant(t, b)>>_vars
                      \/ <>[](bucket[b] = Untracked)
=============================================================================
