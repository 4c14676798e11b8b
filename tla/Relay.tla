------------------------------- MODULE Relay --------------------------------
(***************************************************************************)
(* What of an upstream's answer is served as our own: upstream_qname and   *)
(* filter_upstream of src/upstream.rs.                                     *)
(*                                                                         *)
(* A record of a foreign answer is [owner, class, type, ttl, target]; its  *)
(* target is an Option, {} for a record whose type is not backed by data.  *)
(***************************************************************************)
EXTENDS Zone

CONSTANTS
    MAX_RELAYED_RECORDS,    \* records relayed of one answer (8)
    MIN_RELAY_TTL,          \* and the bounds on their TTL (30 ...
    MAX_RELAY_TTL           \* ... 3600 seconds)

ASSUME RelayAssumption ==
    /\ MAX_RELAYED_RECORDS \in Nat \ {0}
    /\ MIN_RELAY_TTL \in Nat /\ MAX_RELAY_TTL \in Nat
    /\ MIN_RELAY_TTL <= MAX_RELAY_TTL

UPSTREAM_LABEL == <<"upstream">>

\* The name an upstream is asked for, as an Option.
upstream_qname(qname) ==
    LET name == Append(qname, UPSTREAM_LABEL)
    IN  IF Representable(name) THEN {name} ELSE {}

Clamp(ttl) == CASE ttl < MIN_RELAY_TTL -> MIN_RELAY_TTL
                [] ttl > MAX_RELAY_TTL -> MAX_RELAY_TTL
                [] OTHER -> ttl

\* Mutant: the owner need only end like the name that was asked for.
KeepsSuffix(up_qname, record) ==
    /\ record.class = "IN" /\ record.type = "PTR"
    /\ ZoneOf(up_qname, record.owner)
    /\ record.target # {}

\* The allowlist.
Keeps(up_qname, record) ==
    /\ record.class = "IN" /\ record.type = "PTR"
    /\ record.owner = up_qname
    /\ record.target # {}

\* Survivors are rebuilt: our owner name, a TTL in bounds, their target.
Rebuilt(qname, record) ==
    [type |-> "PTR", owner |-> qname, target |-> The(record.target), ttl |-> Clamp(record.ttl)]

\* Where the survivors stand in an answer.
Survivors(up_qname, answers) == {j \in 1 .. Len(answers) : Keeps(up_qname, answers[j])}

\* The first of them, in the order of the answer.
filter_upstream(qname, up_qname, answers) ==
    LET kept == Survivors(up_qname, answers)
        n == IF Cardinality(kept) < MAX_RELAYED_RECORDS THEN Cardinality(kept)
                                                        ELSE MAX_RELAYED_RECORDS
    IN  [i \in 1 .. n |-> Rebuilt(qname, answers[Nth(kept, i)])]

\* lookup_ptr: the answers of an upstream that was asked and answered, filtered;
\* any other outcome (see module Upstream) is one without answers.
lookup_ptr(qname, answers) ==
    LET up == upstream_qname(qname)
    IN  IF up = {} THEN <<>> ELSE filter_upstream(qname, The(up), answers)
=============================================================================
