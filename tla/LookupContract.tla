--------------------------- MODULE LookupContract ---------------------------
(***************************************************************************)
(* What src/upstream.rs promises its callers, without breaker, semaphore   *)
(* or clock: a call is answered at once with "skip", or it is sent while   *)
(* fewer than MAX_INFLIGHT lookups are in flight on the same client and    *)
(* then comes to an end; a call never waits for another one.               *)
(***************************************************************************)
EXTENDS Integers, FiniteSets

CONSTANTS Task, Client, MAX_INFLIGHT

VARIABLES phase,    \* task -> "out", "deciding" or "inflight"
          on        \* task -> the client it called last

cvars == <<phase, on>>

Inflight(c) == {t \in Task : on[t] = c /\ phase[t] = "inflight"}

CInit == /\ phase = [t \in Task |-> "out"]
         /\ \E c \in Client : on = [t \in Task |-> c]

Enter(t, c) == /\ phase[t] = "out"
               /\ phase' = [phase EXCEPT ![t] = "deciding"]
               /\ on' = [on EXCEPT ![t] = c]

Skip(t) == /\ phase[t] = "deciding"
           /\ phase' = [phase EXCEPT ![t] = "out"]
           /\ UNCHANGED on

Send(t) == /\ phase[t] = "deciding"
           /\ Cardinality(Inflight(on[t])) < MAX_INFLIGHT
           /\ phase' = [phase EXCEPT ![t] = "inflight"]
           /\ UNCHANGED on

Finish(t) == /\ phase[t] = "inflight"
             /\ phase' = [phase EXCEPT ![t] = "out"]
             /\ UNCHANGED on

CNext == \E t \in Task : \/ \E c \in Client : Enter(t, c)
                         \/ Skip(t)
                         \/ Send(t)
                         \/ Finish(t)

CSafety == CInit /\ [][CNext]_cvars

CSpec == /\ CSafety
         /\ \A t \in Task : WF_cvars(Skip(t) \/ Send(t)) /\ WF_cvars(Finish(t))
=============================================================================
