------------------------------- MODULE Server -------------------------------
(***************************************************************************)
(* The life of a request in src/server/handler.rs, with the configuration  *)
(* that main.rs's reloader swaps under it, the rate limiter it shares with *)
(* all other requests (module Rrl) and the upstream lookup it may await    *)
(* (module LookupContract, which module Upstream implements).              *)
(*                                                                         *)
(* What a question's answer says is the subject of module Authority; here  *)
(* a question is its kind of answer ("Answer" or "Negative") and whether   *)
(* it is a PTR, the only type for which an upstream is consulted.          *)
(***************************************************************************)
EXTENDS Integers, FiniteSets

CONSTANTS
    Task, Addr, RRL_ON, BURST, SLIP, COUNTER,
    V4_BITS, V6_BITS, V6_LOW, IPV4_PREFIX, IPV6_PREFIX,     \* as in Rrl
    MAX_INFLIGHT,   \* as in LookupContract
    Settings,       \* what configuration files set: [rrl_on, upstream]
    Requests,       \* what clients send, see below
    MaxReloads      \* bound on the number of SIGHUP reloads

\* Configurations are numbered by the reload that published them.
Generation == 0 .. MaxReloads

ASSUME TaskAssumption     == IsFiniteSet(Task)
ASSUME ReloadsAssumption  == MaxReloads \in Nat
ASSUME SettingsAssumption == /\ Settings # {}
                             /\ Settings \subseteq [rrl_on : BOOLEAN, upstream : BOOLEAN]

VARIABLES
    published,  \* number and settings of the configuration now published
    pc,         \* task -> where it is in handle_request
    req,        \* task -> the request it handles (or handled last)
    loaded,     \* task -> the configuration it loaded for decide
    packets,    \* task -> packets sent for its request
    opt,        \* task -> configuration its OPT payload came from, None without OPT
    bucket, suppressed, decision, sweeper,      \* as in Rrl
    phase, on                                   \* as in LookupContract

limiterVars == <<bucket, suppressed, decision, sweeper>>
lookupVars == <<phase, on>>
taskVars == <<req, loaded, packets, opt>>
vars == <<published, pc, taskVars, limiterVars, lookupVars>>

Limiter == INSTANCE Rrl
Lookup == INSTANCE LookupContract WITH Client <- Generation

None == -1

Point == {"idle",       \* no request
          "received",   \* handle_inner entered
          "asking",     \* in decide, awaiting lookup_ptr
          "limiting",   \* reply decided, limiter not yet asked
          "over",       \* limiter found the client over budget
          "truncating", \* about to send the empty truncated reply
          "erring",     \* about to send NOTIMP or BADVERS
          "sending",    \* about to send the reply
          "servfail",   \* about to send the last-resort SERVFAIL
          "done"}       \* handle_request about to return

\* A request: wellformed (request_info succeeds), standard (opcode QUERY, EDNS
\* version 0), tcp, edns (has an OPT), addr, kind of its answer, ptr.

ASSUME RequestsAssumption ==
    /\ Requests # {}
    /\ Requests \subseteq [wellformed : BOOLEAN, standard : BOOLEAN, tcp : BOOLEAN,
                           edns : BOOLEAN, addr : Addr, kind : Limiter!Kind, ptr : BOOLEAN]

\* The limiter's parameters, as in Rrl.
ASSUME LimiterAssumption == /\ RRL_ON \in BOOLEAN
                            /\ {BURST, COUNTER} \subseteq Nat \ {0}
                            /\ SLIP \in Nat

\* What stands for a request and a configuration where a task has none.
NoRequest == CHOOSE r \in Requests : TRUE
NotLoaded == [gen |-> None, set |-> CHOOSE s \in Settings : TRUE]

-----------------------------------------------------------------------------
Init ==
    /\ \E s \in Settings : s.rrl_on = RRL_ON /\ published = [gen |-> 0, set |-> s]
    /\ pc = [t \in Task |-> "idle"]
    /\ req = [t \in Task |-> NoRequest]
    /\ loaded = [t \in Task |-> NotLoaded]
    /\ packets = [t \in Task |-> 0]
    /\ opt = [t \in Task |-> None]
    /\ Limiter!Init
    /\ phase = [t \in Task |-> "out"]
    /\ on = [t \in Task |-> 0]

Goto(t, from, to) ==
    /\ pc[t] = from
    /\ pc' = [pc EXCEPT ![t] = to]

\* SIGHUP with a file that loads: one pointer store.  Sockets and limiter are
\* not part of what is swapped.
Reload ==
    /\ published.gen < MaxReloads
    /\ \E s \in Settings : published' = [gen |-> published.gen + 1, set |-> s]
    /\ UNCHANGED <<pc, taskVars, limiterVars, lookupVars>>

Receive(t) ==
    /\ Goto(t, "idle", "received")
    /\ \E r \in Requests : req' = [req EXCEPT ![t] = r]
    /\ UNCHANGED <<published, loaded, packets, opt, limiterVars, lookupVars>>

\* request_info fails: SERVFAIL.
Malformed(t) ==
    /\ ~ req[t].wellformed
    /\ Goto(t, "received", "servfail")
    /\ UNCHANGED <<published, taskVars, limiterVars, lookupVars>>

\* NOTIMP for another opcode, BADVERS for another EDNS version: neither the
\* configuration nor the limiter is consulted.
NotStandard(t) ==
    /\ req[t].wellformed /\ ~ req[t].standard
    /\ Goto(t, "received", "erring")
    /\ UNCHANGED <<published, taskVars, limiterVars, lookupVars>>

\* zones.load() and decide, up to the await on the upstream if there is one.
Consults(t) == req[t].ptr /\ req[t].kind = "Answer" /\ published.set.upstream

DecideAlone(t) ==
    /\ req[t].wellformed /\ req[t].standard
    /\ ~ Consults(t)
    /\ Goto(t, "received", "limiting")
    /\ loaded' = [loaded EXCEPT ![t] = published]
    /\ UNCHANGED <<published, req, packets, opt, limiterVars, lookupVars>>

DecideAsking(t) ==
    /\ req[t].wellformed /\ req[t].standard
    /\ Consults(t)
    /\ Goto(t, "received", "asking")
    /\ loaded' = [loaded EXCEPT ![t] = published]
    /\ Lookup!Enter(t, published.gen)
    /\ UNCHANGED <<published, req, packets, opt, limiterVars>>

\* The lookup is sent, or comes back; relayed records replace the synthesized
\* one, so the kind of the reply does not change.
LookupSent(t) ==
    /\ pc[t] = "asking"
    /\ Lookup!Send(t)
    /\ UNCHANGED <<published, pc, taskVars, limiterVars>>

\* Mutant: a lookup that was sent is awaited without an end.
LookupReturnedSkipped(t) ==
    /\ Goto(t, "asking", "limiting")
    /\ Lookup!Skip(t)
    /\ UNCHANGED <<published, taskVars, limiterVars>>

LookupReturned(t) ==
    /\ Goto(t, "asking", "limiting")
    /\ Lookup!Skip(t) \/ Lookup!Finish(t)
    /\ UNCHANGED <<published, taskVars, limiterVars>>

\* rrl.decide: first the exemptions, then the bucket of the reply's kind.
BucketOf(t) == <<req[t].kind, Limiter!ClientKey(req[t].addr)>>

Exempted(t) ==
    /\ ~ RRL_ON \/ req[t].tcp
    /\ Goto(t, "limiting", "sending")
    /\ Limiter!Exempt(t)
    /\ UNCHANGED <<published, taskVars, lookupVars>>

Granted(t) ==
    /\ ~ req[t].tcp
    /\ Goto(t, "limiting", "sending")
    /\ Limiter!Grant(t, BucketOf(t))
    /\ UNCHANGED <<published, taskVars, lookupVars>>

Exceeded(t) ==
    /\ ~ req[t].tcp
    /\ Goto(t, "limiting", "over")
    /\ Limiter!Exceed(t, BucketOf(t))
    /\ UNCHANGED <<published, taskVars, lookupVars>>

\* Mutant: no early return for a dropped response.
SuppressedSends(t) ==
    /\ Goto(t, "over", IF Limiter!Slips(suppressed) THEN "truncating" ELSE "sending")
    /\ Limiter!Suppress(t)
    /\ UNCHANGED <<published, taskVars, lookupVars>>

Suppressed(t) ==
    /\ Goto(t, "over", IF Limiter!Slips(suppressed) THEN "truncating" ELSE "done")
    /\ Limiter!Suppress(t)
    /\ UNCHANGED <<published, taskVars, lookupVars>>

\* Mutant: a SERVFAIL follows a reply that was sent.
SendReplyTwice(t) ==
    /\ Goto(t, pc[t], "servfail")
    /\ pc[t] \in {"sending", "erring"}
    /\ packets' = [packets EXCEPT ![t] = @ + 1]
    /\ opt' = [opt EXCEPT ![t] = IF req[t].edns THEN published.gen ELSE None]
    /\ UNCHANGED <<published, req, loaded, limiterVars, lookupVars>>

\* Mutant: the payload of the configuration the process started with.
SendReplyStale(t) ==
    /\ Goto(t, pc[t], "done")
    /\ pc[t] \in {"sending", "erring"}
    /\ packets' = [packets EXCEPT ![t] = @ + 1]
    /\ opt' = [opt EXCEPT ![t] = IF req[t].edns THEN 0 ELSE None]
    /\ UNCHANGED <<published, req, loaded, limiterVars, lookupVars>>

\* send_response succeeds.  send() loads the configuration again, for the
\* payload of the OPT record; the truncated reply carries none.
SendReply(t) ==
    /\ Goto(t, pc[t], "done")
    /\ pc[t] \in {"sending", "erring"}
    /\ packets' = [packets EXCEPT ![t] = @ + 1]
    /\ opt' = [opt EXCEPT ![t] = IF req[t].edns THEN published.gen ELSE None]
    /\ UNCHANGED <<published, req, loaded, limiterVars, lookupVars>>

SendTruncated(t) ==
    /\ Goto(t, "truncating", "done")
    /\ packets' = [packets EXCEPT ![t] = @ + 1]
    /\ UNCHANGED <<published, req, loaded, opt, limiterVars, lookupVars>>

\* send_response fails, with nothing sent: SERVFAIL is tried instead.
SendFails(t) ==
    /\ Goto(t, pc[t], "servfail")
    /\ pc[t] \in {"sending", "erring", "truncating"}
    /\ UNCHANGED <<published, taskVars, limiterVars, lookupVars>>

\* A panic in handle_inner is caught; a lookup under way is dropped with it.
Panic(t) ==
    /\ Goto(t, pc[t], "servfail")
    /\ pc[t] \in {"received", "asking", "limiting"}
    /\ phase' = [phase EXCEPT ![t] = "out"]
    /\ UNCHANGED <<published, taskVars, limiterVars, on>>

\* The last resort: sent, or given up on.
Servfail(t) ==
    /\ Goto(t, "servfail", "done")
    /\ \E n \in {0, 1} : packets' = [packets EXCEPT ![t] = @ + n]
    /\ UNCHANGED <<published, req, loaded, opt, limiterVars, lookupVars>>

\* handle_request returns: its locals go, the loaded configuration and the
\* limiter's decision with them.
Return(t) ==
    /\ Goto(t, "done", "idle")
    /\ req' = [req EXCEPT ![t] = NoRequest]
    /\ loaded' = [loaded EXCEPT ![t] = NotLoaded]
    /\ packets' = [packets EXCEPT ![t] = 0]
    /\ opt' = [opt EXCEPT ![t] = None]
    /\ on' = [on EXCEPT ![t] = 0]
    /\ decision' = [decision EXCEPT ![t] = "Allow"]
    /\ UNCHANGED <<published, bucket, suppressed, sweeper, phase>>

\* The clock that refills the limiter's buckets, and the sweep task.
Tick ==
    /\ Limiter!Tick
    /\ UNCHANGED <<published, pc, taskVars, lookupVars>>

Sweep ==
    /\ Limiter!SweepAnswers \/ Limiter!SweepNegatives
    /\ UNCHANGED <<published, pc, taskVars, lookupVars>>

\* The steps a task takes by itself once it has a request.
Prepare(t) ==
    \/ Malformed(t) \/ NotStandard(t) \/ DecideAlone(t) \/ DecideAsking(t)
    \/ LookupSent(t) \/ LookupReturned(t)
    \/ Exempted(t) \/ Granted(t) \/ Exceeded(t) \/ Suppressed(t)
    \/ SendTruncated(t) \/ SendFails(t) \/ Servfail(t) \/ Return(t)

Proceed(t) == Prepare(t) \/ SendReply(t)

Next == \/ Reload
        \/ Tick
        \/ Sweep
        \/ \E t \in Task : Receive(t) \/ Proceed(t) \/ Panic(t)

Spec == Init /\ [][Next]_vars

\* The runtime polls a task that can go on, and a lookup ends (LookupContract).
Fairness == \A t \in Task : WF_vars(Proceed(t))

-----------------------------------------------------------------------------
\* Every variable stays in its type.
TypeOK ==
    /\ published \in [gen : Generation, set : Settings]
    /\ pc \in [Task -> Point]
    /\ req \in [Task -> Requests]
    /\ loaded \in [Task -> [gen : {None} \cup Generation, set : Settings]]
    /\ packets \in [Task -> 0 .. 1]
    /\ opt \in [Task -> {None} \cup Generation]
    /\ Limiter!TypeOK
    /\ phase \in [Task -> {"out", "deciding", "inflight"}]
    /\ on \in [Task -> Generation]

\* A task holds a lookup exactly while it awaits one, and with the client of
\* the configuration its reply is decided with: whatever ends the await - an
\* answer, a skip, a panic - also ends the lookup, so no permit is lost with
\* it, and a reload in the middle moves it to no other client.
NoLookupLeft ==
    \A t \in Task : /\ (phase[t] = "out") <=> (pc[t] # "asking")
                    /\ pc[t] = "asking" => on[t] = loaded[t].gen

\* No request gets two packets, although a failed send is followed by a second
\* attempt, and none gets a packet before its fate is decided.  The payload size
\* in its OPT record comes from a second load of the configuration, maybe of a
\* later one than the reply was decided with, never of an older one.
OnePacket ==
    \A t \in Task : /\ packets[t] <= 1
                    /\ packets[t] = 1 => pc[t] = "done"
                    /\ opt[t] # None => opt[t] >= loaded[t].gen

\* Every request comes to an end: answered, refused an answer by the limiter,
\* or given up after a failed send.
RequestEnds == \A t \in Task : pc[t] = "received" ~> pc[t] = "idle"

-----------------------------------------------------------------------------
\* A reload whose configuration has `rrl off` warns "response rate limiting is
\* disabled" (src/config/mod.rs): no response of such a configuration is
\* suppressed.
RrlSwitchHonoured ==
    [][\A t \in Task : pc[t] = "over" /\ pc'[t] # "over" => loaded[t].set.rrl_on]_vars
=============================================================================
