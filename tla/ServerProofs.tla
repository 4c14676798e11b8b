---------------------------- MODULE ServerProofs ----------------------------
(***************************************************************************)
(* Theorems about the life of a request, for every number of tasks and     *)
(* reloads, every set of requests and files, and every setting of the      *)
(* limiter.                                                                *)
(***************************************************************************)
EXTENDS ServerHistory, FiniteSetTheorems, TLAPS

USE TaskAssumption, ReloadsAssumption, SettingsAssumption, RequestsAssumption,
    LimiterAssumption

\* Nothing has been sent for a request that is not done, and no task has a
\* configuration from the future.
Unsent ==
    \A t \in Task : /\ pc[t] # "done" => packets[t] = 0 /\ opt[t] = None
                    /\ loaded[t].gen <= published.gen

SInv == TypeOK /\ NoLookupLeft /\ OnePacket /\ Unsent

-----------------------------------------------------------------------------
(* The parts of the state.                                                 *)

\* What stands for a missing request or configuration has its type.
LEMMA Defaults ==
    /\ NoRequest \in Requests
    /\ NotLoaded \in [gen : {None} \cup Generation, set : Settings]
    /\ NotLoaded.gen = None
    /\ 0 \in Generation
    /\ None \notin Generation
    /\ \A g \in Generation : g \in Int /\ None <= g
BY DEF NoRequest, NotLoaded, Generation, None

\* A task's response is charged to one of the buckets.
LEMMA BucketOfTask ==
    ASSUME TypeOK, NEW t \in Task
    PROVE  BucketOf(t) \in Limiter!Bucket
<1>1. req[t] \in Requests
  BY DEF TypeOK
<1>2. req[t].kind \in Limiter!Kind /\ req[t].addr \in Addr
  BY <1>1
<1> QED
  BY <1>2 DEF BucketOf, Limiter!Bucket, Limiter!Key

\* A bucket holds at most burst cells, a forgotten one exactly that many.
LEMMA CellsType ==
    ASSUME Limiter!TypeOK, NEW b \in Limiter!Bucket
    PROVE  Limiter!Cells(bucket[b]) \in 0 .. BURST
BY DEF Limiter!TypeOK, Limiter!Cells, Limiter!Untracked

\* retain_recent changes no bucket's cells: it forgets only full ones.
LEMMA SweepKeepsCells ==
    ASSUME Limiter!TypeOK, Limiter!SweepAnswers \/ Limiter!SweepNegatives
    PROVE  /\ Limiter!TypeOK'
           /\ \A b \in Limiter!Bucket : Limiter!Cells(bucket'[b]) = Limiter!Cells(bucket[b])
<1>1. \A kind : Limiter!RetainRecent(kind) =>
          /\ bucket' \in [Limiter!Bucket -> {Limiter!Untracked} \cup 0 .. BURST]
          /\ \A b \in Limiter!Bucket : Limiter!Cells(bucket'[b]) = Limiter!Cells(bucket[b])
  BY DEF Limiter!TypeOK, Limiter!RetainRecent, Limiter!Cells, Limiter!Untracked
<1>2. /\ bucket' \in [Limiter!Bucket -> {Limiter!Untracked} \cup 0 .. BURST]
      /\ \A b \in Limiter!Bucket : Limiter!Cells(bucket'[b]) = Limiter!Cells(bucket[b])
  BY <1>1 DEF Limiter!SweepAnswers, Limiter!SweepNegatives
<1> QED
  BY <1>2 DEF Limiter!TypeOK, Limiter!SweepAnswers, Limiter!SweepNegatives

\* Time gives every bucket at most one cell.
LEMMA TickAddsOne ==
    ASSUME Limiter!TypeOK, Limiter!Tick
    PROVE  /\ Limiter!TypeOK'
           /\ \A b \in Limiter!Bucket :
                 /\ Limiter!Cells(bucket'[b]) \in 0 .. BURST
                 /\ Limiter!Cells(bucket'[b]) <= Limiter!Cells(bucket[b]) + 1
<1>1. /\ bucket' \in [Limiter!Bucket -> {Limiter!Untracked} \cup 0 .. BURST]
      /\ \A b \in Limiter!Bucket :
            Limiter!Cells(bucket'[b]) <= Limiter!Cells(bucket[b]) + 1
  BY DEF Limiter!TypeOK, Limiter!Tick, Limiter!Refill, Limiter!Cells, Limiter!Untracked
<1>2. Limiter!TypeOK'
  BY <1>1 DEF Limiter!TypeOK, Limiter!Tick
<1> QED
  BY <1>1, <1>2, CellsType DEF Limiter!TypeOK, Limiter!Cells, Limiter!Untracked

\* A cell is taken from one bucket.
LEMMA GrantTakesOne ==
    ASSUME Limiter!TypeOK, NEW t \in Task, NEW b \in Limiter!Bucket, Limiter!Grant(t, b)
    PROVE  /\ Limiter!TypeOK'
           /\ Limiter!Cells(bucket[b]) > 0
           /\ Limiter!Cells(bucket'[b]) = Limiter!Cells(bucket[b]) - 1
           /\ \A d \in Limiter!Bucket : d # b => bucket'[d] = bucket[d]
<1>1. Limiter!Cells(bucket[b]) \in 1 .. BURST
  BY CellsType DEF Limiter!Grant
<1>2. /\ bucket' \in [Limiter!Bucket -> {Limiter!Untracked} \cup 0 .. BURST]
      /\ bucket'[b] = Limiter!Cells(bucket[b]) - 1
      /\ \A d \in Limiter!Bucket : d # b => bucket'[d] = bucket[d]
  BY <1>1 DEF Limiter!TypeOK, Limiter!Grant
<1>3. Limiter!TypeOK'
  BY <1>2 DEF Limiter!TypeOK, Limiter!Grant, Limiter!Decide, Limiter!Decision
<1> QED
  BY <1>1, <1>2, <1>3 DEF Limiter!Cells, Limiter!Untracked

\* No other step of a task touches a bucket.
LEMMA DecisionOnly ==
    ASSUME Limiter!TypeOK, NEW t \in Task,
           \/ Limiter!Exempt(t)
           \/ \E b : Limiter!Exceed(t, b)
           \/ Limiter!Suppress(t)
    PROVE  Limiter!TypeOK' /\ bucket' = bucket
<1>1. bucket' = bucket /\ sweeper' = sweeper
  BY DEF Limiter!Exempt, Limiter!Exceed, Limiter!Suppress
<1>2. \E d \in Limiter!Decision \cup {"over"} : Limiter!Decide(t, d)
  BY DEF Limiter!Exempt, Limiter!Exceed, Limiter!Suppress, Limiter!Decision
<1>3. suppressed' \in 0 .. COUNTER - 1
  BY DEF Limiter!TypeOK, Limiter!Exempt, Limiter!Exceed, Limiter!Suppress
<1> QED
  BY <1>1, <1>2, <1>3 DEF Limiter!TypeOK, Limiter!Decide

-----------------------------------------------------------------------------
(* SInv is inductive: one lemma per group of actions.                      *)

\* The server starts idle, with the first configuration.
LEMMA InitSInv == Init => SInv
<1> SUFFICES ASSUME Init PROVE SInv
  OBVIOUS
<1> USE Defaults DEF Init
<1>1. TypeOK
  <2>1. Limiter!TypeOK
    BY DEF Limiter!Init, Limiter!TypeOK, Limiter!Decision
  <2> QED
    BY <2>1 DEF TypeOK, Point, Generation
<1>2. NoLookupLeft
  BY DEF NoLookupLeft
<1>3. OnePacket
  BY DEF OnePacket
<1>4. Unsent
  BY DEF Unsent, None
<1> QED
  BY <1>1, <1>2, <1>3, <1>4 DEF SInv

\* A reload only makes the published configuration younger.
LEMMA ReloadSInv == SInv /\ Reload => SInv'
<1> SUFFICES ASSUME SInv, Reload PROVE SInv'
  OBVIOUS
<1> USE DEF Reload, taskVars, limiterVars, lookupVars
<1>1. TypeOK
  BY DEF SInv
<1>2. /\ published.gen \in Generation
      /\ published' \in [gen : Generation, set : Settings]
      /\ published'.gen = published.gen + 1
  BY <1>1 DEF TypeOK, Generation
<1>3. Limiter!TypeOK'
  BY <1>1 DEF TypeOK, Limiter!TypeOK
<1>4. TypeOK'
  BY <1>1, <1>2, <1>3 DEF TypeOK
<1>5. NoLookupLeft' /\ OnePacket'
  BY DEF SInv, NoLookupLeft, OnePacket
<1>6. Unsent'
  <2> SUFFICES ASSUME NEW t \in Task
               PROVE  /\ pc[t] # "done" => packets[t] = 0 /\ opt[t] = None
                      /\ loaded[t].gen <= published'.gen
    BY DEF Unsent
  <2>1. loaded[t].gen \in {None} \cup Generation
    BY <1>1 DEF TypeOK
  <2> QED
    BY <1>2, <2>1, Defaults DEF SInv, Unsent
<1> QED
  BY <1>4, <1>5, <1>6 DEF SInv

\* What a step of task t that sends nothing and loads nothing leaves alone.
Quiet(t, to) ==
    /\ pc' = [pc EXCEPT ![t] = to]
    /\ UNCHANGED <<published, loaded, packets, opt>>

\* Such a step keeps what is known about packets and configurations.
LEMMA QuietUnsent ==
    ASSUME SInv, NEW t \in Task, NEW to, pc[t] # "done", Quiet(t, to)
    PROVE  OnePacket' /\ Unsent'
<1>1. /\ \A u \in Task : pc'[u] = IF u = t THEN to ELSE pc[u]
      /\ published' = published /\ loaded' = loaded /\ packets' = packets /\ opt' = opt
  BY DEF Quiet, SInv, TypeOK
<1>2. OnePacket /\ Unsent
  BY DEF SInv
<1>3. OnePacket'
  BY <1>1, <1>2 DEF OnePacket, Unsent
<1>4. Unsent'
  BY <1>1, <1>2 DEF Unsent
<1> QED
  BY <1>3, <1>4

\* Steps outside the await that change neither limiter nor lookup.
LEMMA PlainSInv ==
    ASSUME SInv, NEW t \in Task,
           Receive(t) \/ Malformed(t) \/ NotStandard(t) \/ SendFails(t)
    PROVE  SInv'
<1> USE DEF Receive, Malformed, NotStandard, SendFails, Goto, taskVars, limiterVars, lookupVars
<1>1. TypeOK /\ NoLookupLeft
  BY DEF SInv
<1>2. /\ \E to \in {"received", "servfail", "erring"} : pc' = [pc EXCEPT ![t] = to]
      /\ pc[t] \notin {"asking", "done"}
      /\ UNCHANGED <<published, loaded, packets, opt, limiterVars, lookupVars>>
      /\ req' \in [Task -> Requests]
  <2>1. CASE Receive(t)
    BY <1>1, <2>1 DEF TypeOK
  <2>2. CASE Malformed(t) \/ NotStandard(t) \/ SendFails(t)
    BY <1>1, <2>2 DEF TypeOK
  <2> QED
    BY <2>1, <2>2
<1>3. Limiter!TypeOK'
  BY <1>1, <1>2 DEF TypeOK, Limiter!TypeOK
<1>4. TypeOK'
  BY <1>1, <1>2, <1>3 DEF TypeOK, Point
<1>5. NoLookupLeft'
  BY <1>1, <1>2 DEF NoLookupLeft, TypeOK
<1>6. OnePacket' /\ Unsent'
  BY <1>2, QuietUnsent DEF Quiet
<1> QED
  BY <1>4, <1>5, <1>6 DEF SInv

\* decide loads what is published now, so no younger one than a later load.
LEMMA DecideSInv ==
    ASSUME SInv, NEW t \in Task, DecideAlone(t) \/ DecideAsking(t)
    PROVE  SInv'
<1> USE DEF Goto, limiterVars, lookupVars
<1>1. TypeOK /\ NoLookupLeft /\ OnePacket /\ Unsent
  BY DEF SInv
<1>2. /\ pc[t] = "received"
      /\ \E to \in {"limiting", "asking"} : pc' = [pc EXCEPT ![t] = to]
      /\ loaded' = [loaded EXCEPT ![t] = published]
      /\ UNCHANGED <<published, req, packets, opt, limiterVars>>
  BY DEF DecideAlone, DecideAsking
<1>3. /\ published \in [gen : Generation, set : Settings]
      /\ published.gen \in Generation
      /\ published.gen <= published.gen
      /\ \A u \in Task : /\ pc'[u] \in {"limiting", "asking"} \/ u # t
                         /\ u # t => pc'[u] = pc[u] /\ loaded'[u] = loaded[u]
      /\ loaded'[t] = published
  BY <1>1, <1>2, Defaults DEF TypeOK, Generation
<1>4. /\ phase' \in [Task -> {"out", "deciding", "inflight"}]
      /\ on' \in [Task -> Generation]
  BY <1>1, <1>3 DEF TypeOK, DecideAlone, DecideAsking, Lookup!Enter
<1>5. Limiter!TypeOK'
  BY <1>1, <1>2 DEF TypeOK, Limiter!TypeOK
<1>6. TypeOK'
  BY <1>1, <1>2, <1>3, <1>4, <1>5 DEF TypeOK, Point
<1>7. NoLookupLeft'
  <2>1. CASE DecideAlone(t)
    BY <1>1, <1>3, <2>1 DEF NoLookupLeft, TypeOK, DecideAlone
  <2>2. CASE DecideAsking(t)
    BY <1>1, <1>3, <2>2 DEF NoLookupLeft, TypeOK, DecideAsking, Lookup!Enter
  <2> QED
    BY <2>1, <2>2
<1>8. OnePacket'
  BY <1>1, <1>2, <1>3 DEF OnePacket, Unsent
<1>9. Unsent'
  BY <1>1, <1>2, <1>3 DEF Unsent
<1> QED
  BY <1>6, <1>7, <1>8, <1>9 DEF SInv

\* The await begins and ends with the lookup.
LEMMA LookupSInv ==
    ASSUME SInv, NEW t \in Task, LookupSent(t) \/ LookupReturned(t) \/ Panic(t)
    PROVE  SInv'
<1> USE DEF LookupSent, LookupReturned, Panic, Goto, Lookup!Send, Lookup!Skip, Lookup!Finish,
            taskVars, limiterVars
<1>1. TypeOK /\ NoLookupLeft
  BY DEF SInv
<1>2. PICK to \in {"asking", "limiting", "servfail"} :
          /\ pc' = [pc EXCEPT ![t] = to]
          /\ pc[t] # "done"
          /\ phase' = [phase EXCEPT ![t] = IF to = "asking" THEN "inflight" ELSE "out"]
          /\ to = "asking" => pc[t] = "asking"
  <2>1. CASE LookupSent(t)
    BY <1>1, <2>1 DEF TypeOK
  <2>2. CASE LookupReturned(t)
    BY <2>2
  <2>3. CASE Panic(t)
    BY <2>3
  <2> QED
    BY <2>1, <2>2, <2>3
<1>3. UNCHANGED <<published, req, loaded, packets, opt, limiterVars, on>>
  OBVIOUS
<1>4. Limiter!TypeOK'
  BY <1>1, <1>3 DEF TypeOK, Limiter!TypeOK
<1>5. TypeOK'
  BY <1>1, <1>2, <1>3, <1>4 DEF TypeOK, Point
<1>6. NoLookupLeft'
  BY <1>1, <1>2, <1>3 DEF NoLookupLeft, TypeOK
<1>7. OnePacket' /\ Unsent'
  BY <1>2, <1>3, QuietUnsent DEF Quiet
<1> QED
  BY <1>5, <1>6, <1>7 DEF SInv

\* rrl.decide changes the limiter and nothing that is known about the reply.
LEMMA LimitSInv ==
    ASSUME SInv, NEW t \in Task, Exempted(t) \/ Granted(t) \/ Exceeded(t) \/ Suppressed(t)
    PROVE  SInv'
<1> USE DEF Exempted, Granted, Exceeded, Suppressed, Goto, taskVars, lookupVars
<1>1. TypeOK /\ NoLookupLeft
  BY DEF SInv
<1>2. /\ \E to \in {"sending", "over", "truncating", "done"} : pc' = [pc EXCEPT ![t] = to]
      /\ pc[t] \notin {"asking", "done"}
      /\ UNCHANGED <<published, req, loaded, packets, opt, phase, on>>
  OBVIOUS
<1>3. Limiter!TypeOK'
  BY <1>1, BucketOfTask, GrantTakesOne, DecisionOnly DEF TypeOK
<1>4. TypeOK'
  BY <1>1, <1>2, <1>3 DEF TypeOK, Point
<1>5. NoLookupLeft'
  BY <1>1, <1>2 DEF NoLookupLeft, TypeOK
<1>6. OnePacket' /\ Unsent'
  BY <1>2, QuietUnsent DEF Quiet
<1> QED
  BY <1>4, <1>5, <1>6 DEF SInv

\* A packet is the last thing that happens to a request.
LEMMA SendSInv ==
    ASSUME SInv, NEW t \in Task, SendReply(t) \/ SendTruncated(t) \/ Servfail(t)
    PROVE  SInv'
<1> USE DEF SendReply, SendTruncated, Servfail, Goto, limiterVars, lookupVars
<1>1. TypeOK /\ NoLookupLeft /\ OnePacket /\ Unsent
  BY DEF SInv
<1>2. /\ pc[t] \in {"sending", "erring", "truncating", "servfail"}
      /\ pc' = [pc EXCEPT ![t] = "done"]
      /\ \E n \in {0, 1} : packets' = [packets EXCEPT ![t] = @ + n]
      /\ \E g \in {published.gen, None} : opt' = [opt EXCEPT ![t] = g]
      /\ UNCHANGED <<published, req, loaded, limiterVars, lookupVars>>
  <2>1. CASE SendReply(t)
    BY <2>1
  <2>2. CASE SendTruncated(t) \/ Servfail(t)
    <3>1. opt[t] = None
      BY <1>1, <2>2 DEF Unsent
    <3> QED
      BY <1>1, <2>2, <3>1 DEF TypeOK
  <2> QED
    BY <2>1, <2>2
<1>3. packets[t] = 0 /\ published.gen \in Generation
  BY <1>1, <1>2 DEF TypeOK, Unsent
<1>4. /\ packets'[t] \in 0 .. 1
      /\ opt'[t] \in {published.gen, None}
      /\ \A u \in Task : u # t => /\ packets'[u] = packets[u]
                                  /\ opt'[u] = opt[u]
                                  /\ pc'[u] = pc[u]
      /\ pc'[t] = "done"
  BY <1>1, <1>2, <1>3 DEF TypeOK
<1>5. Limiter!TypeOK'
  BY <1>1, <1>2 DEF TypeOK, Limiter!TypeOK
<1>6. TypeOK'
  BY <1>1, <1>2, <1>3, <1>4, <1>5 DEF TypeOK, Point
<1>7. NoLookupLeft'
  BY <1>1, <1>2, <1>4 DEF NoLookupLeft
<1>8. OnePacket'
  BY <1>1, <1>2, <1>4 DEF OnePacket, Unsent
<1>9. Unsent'
  BY <1>1, <1>2, <1>4 DEF Unsent
<1> QED
  BY <1>6, <1>7, <1>8, <1>9 DEF SInv

\* handle_request returns, and leaves nothing behind.
LEMMA ReturnSInv ==
    ASSUME SInv, NEW t \in Task, Return(t)
    PROVE  SInv'
<1> USE DEF Return, Goto
<1>1. TypeOK /\ NoLookupLeft /\ OnePacket /\ Unsent
  BY DEF SInv
<1>2. Limiter!TypeOK'
  BY <1>1 DEF TypeOK, Limiter!TypeOK, Limiter!Decision
<1>3. TypeOK'
  BY <1>1, <1>2, Defaults DEF TypeOK, Point
<1>4. /\ pc'[t] = "idle" /\ loaded'[t].gen = None /\ packets'[t] = 0 /\ opt'[t] = None
      /\ \A u \in Task : u # t => /\ pc'[u] = pc[u] /\ loaded'[u] = loaded[u]
                                  /\ packets'[u] = packets[u] /\ opt'[u] = opt[u]
                                  /\ on'[u] = on[u]
      /\ published' = published /\ phase' = phase
  BY <1>1, Defaults DEF TypeOK
<1>5. NoLookupLeft'
  BY <1>1, <1>4 DEF NoLookupLeft
<1>6. OnePacket'
  BY <1>1, <1>4 DEF OnePacket
<1>7. Unsent'
  BY <1>1, <1>4, Defaults DEF Unsent, TypeOK
<1> QED
  BY <1>3, <1>5, <1>6, <1>7 DEF SInv

\* The clock and the sweep task only touch the limiter.
LEMMA LimiterTasksSInv ==
    ASSUME SInv, Tick \/ Sweep
    PROVE  SInv'
<1> USE DEF taskVars, lookupVars
<1>1. UNCHANGED <<published, pc, req, loaded, packets, opt, phase, on>>
  BY DEF Tick, Sweep
<1>2. Limiter!TypeOK'
  BY TickAddsOne, SweepKeepsCells DEF Tick, Sweep, SInv, TypeOK
<1> QED
  BY <1>1, <1>2 DEF SInv, TypeOK, NoLookupLeft, OnePacket, Unsent

\* A step in which nothing changes.
LEMMA StutterSInv == SInv /\ UNCHANGED vars => SInv'
<1> SUFFICES ASSUME SInv, UNCHANGED vars PROVE SInv'
  OBVIOUS
<1> USE DEF vars, taskVars, limiterVars, lookupVars
<1>1. Limiter!TypeOK'
  BY DEF SInv, TypeOK, Limiter!TypeOK
<1> QED
  BY <1>1 DEF SInv, TypeOK, NoLookupLeft, OnePacket, Unsent

\* Every step keeps SInv.
LEMMA StepSInv == SInv /\ [Next]_vars => SInv'
<1> SUFFICES ASSUME SInv, [Next]_vars PROVE SInv'
  OBVIOUS
<1>1. CASE Reload \/ Tick \/ Sweep
  BY <1>1, ReloadSInv, LimiterTasksSInv
<1>2. ASSUME NEW t \in Task, Receive(t) \/ Proceed(t) \/ Panic(t) PROVE SInv'
  BY <1>2, PlainSInv, DecideSInv, LookupSInv, LimitSInv, SendSInv, ReturnSInv
     DEF Proceed, Prepare
<1>3. CASE UNCHANGED vars
  BY <1>3, StutterSInv
<1> QED
  BY <1>1, <1>2, <1>3 DEF Next

\* The inductive invariant holds throughout every behaviour.
THEOREM SInvariance == Spec => []SInv
BY InitSInv, StepSInv, PTL DEF Spec

\* Type correctness, for any number of tasks and reloads.
THEOREM ServerTypeCorrect == Spec => []TypeOK
<1>1. SInv => TypeOK
  BY DEF SInv
<1> QED
  BY SInvariance, <1>1, PTL

\* Whatever ends the await on an upstream - an answer, a skip, a panic - ends
\* the lookup with it, and a reload in the middle moves it to no other client.
THEOREM LookupTheorem == Spec => []NoLookupLeft
<1>1. SInv => NoLookupLeft
  BY DEF SInv
<1> QED
  BY SInvariance, <1>1, PTL

\* No request gets two packets, and an OPT payload is never older than the
\* configuration the reply was decided with.
THEOREM PacketTheorem == Spec => []OnePacket
<1>1. SInv => OnePacket
  BY DEF SInv
<1> QED
  BY SInvariance, <1>1, PTL

-----------------------------------------------------------------------------
(* The rate on the wire.  WireRateBounded is not inductive: a reply that   *)
(* was granted a cell and is not yet sent is neither in the bucket nor     *)
(* among the replies.  WireBudget counts it too.                           *)

\* The tasks that hold a cell of bucket b for a reply they have yet to send.
Holding(b) == {t \in Task : Charged(t) /\ BucketOf(t) = b}

WireBudget ==
    RRL_ON => \A b \in Limiter!Bucket :
                 replies[b] + Cardinality(Holding(b)) + Limiter!Cells(bucket[b])
                     <= BURST + elapsed

WireInv == /\ SInv
           /\ replies \in [Limiter!Bucket -> Nat]
           /\ elapsed \in Nat
           /\ WireBudget

\* The observer does not interfere: without it, the steps are those of Server.
LEMMA ObserverStep == [HNext]_hvars => [Next]_vars
BY DEF HNext, HTick, HSend, Unobserved, hvars, Next, Proceed

\* What the observer adds leaves the behaviours of Server alone.
THEOREM ObserverTransparent == HSpec => Spec
<1>1. HInit => Init
  BY DEF HInit
<1> QED
  BY <1>1, ObserverStep, PTL DEF HSpec, Spec

\* Sets of tasks can be counted.
LEMMA TaskCount ==
    /\ \A S \in SUBSET Task : IsFiniteSet(S) /\ Cardinality(S) \in Nat
    /\ \A S \in SUBSET Task : \A T \in SUBSET S : Cardinality(T) <= Cardinality(S)
BY FS_Subset, FS_CardinalityType

\* Nobody holds a cell at the start.
LEMMA InitWire == HInit => WireInv
<1> SUFFICES ASSUME HInit PROVE WireInv
  OBVIOUS
<1>1. SInv
  BY InitSInv DEF HInit
<1>2. replies \in [Limiter!Bucket -> Nat] /\ elapsed \in Nat
  BY DEF HInit
<1>3. \A b : Holding(b) = {}
  BY DEF HInit, Init, Holding, Charged
<1>4. WireBudget
  BY <1>3, FS_EmptySet, SMTT(30) DEF WireBudget, HInit, Init, Limiter!Init, Limiter!Cells
<1> QED
  BY <1>1, <1>2, <1>4 DEF WireInv

\* A step that grants nothing, sends nothing and lets no time pass: the tasks
\* that hold a cell are at most the same ones.
LEMMA NoGrantWire ==
    ASSUME WireInv, SInv',
           UNCHANGED <<replies, elapsed>>,
           \A b \in Limiter!Bucket : Limiter!Cells(bucket'[b]) = Limiter!Cells(bucket[b]),
           RRL_ON => \A u \in Task : Charged(u)' => Charged(u) /\ req'[u] = req[u]
    PROVE  WireInv'
<1> SUFFICES ASSUME RRL_ON, NEW b \in Limiter!Bucket
             PROVE  replies[b] + Cardinality(Holding(b)') + Limiter!Cells(bucket'[b])
                        <= BURST + elapsed
  BY DEF WireInv, WireBudget
<1>1. Holding(b)' \subseteq Holding(b) /\ Holding(b) \subseteq Task
  BY DEF Holding, BucketOf
<1>2. Cardinality(Holding(b)') <= Cardinality(Holding(b))
      /\ Cardinality(Holding(b)') \in Nat /\ Cardinality(Holding(b)) \in Nat
  BY <1>1, TaskCount
<1>3. Limiter!Cells(bucket[b]) \in Nat
  BY CellsType DEF WireInv, SInv, TypeOK
<1>4. replies[b] + Cardinality(Holding(b)) + Limiter!Cells(bucket[b]) <= BURST + elapsed
  BY DEF WireInv, WireBudget
<1> QED
  BY <1>2, <1>3, <1>4 DEF WireInv

\* A granted cell moves from the bucket to the task.
LEMMA GrantWire ==
    ASSUME WireInv, NEW t \in Task, Granted(t), UNCHANGED <<replies, elapsed>>
    PROVE  WireInv'
<1> USE DEF Granted, Goto, taskVars, lookupVars
<1>1. SInv /\ TypeOK
  BY DEF WireInv, SInv
<1>2. SInv'
  BY <1>1, LimitSInv
<1> DEFINE c == BucketOf(t)
<1>3. c \in Limiter!Bucket
  BY <1>1, BucketOfTask
<1>4. /\ Limiter!Cells(bucket[c]) > 0
      /\ Limiter!Cells(bucket'[c]) = Limiter!Cells(bucket[c]) - 1
      /\ \A d \in Limiter!Bucket : d # c => bucket'[d] = bucket[d]
  BY <1>1, <1>3, GrantTakesOne DEF TypeOK
<1>5. /\ Charged(t)' /\ ~ Charged(t)
      /\ \A u \in Task : u # t => (Charged(u)' <=> Charged(u))
      /\ req' = req
  BY <1>1 DEF Charged, TypeOK
<1> SUFFICES ASSUME RRL_ON, NEW b \in Limiter!Bucket
             PROVE  replies[b] + Cardinality(Holding(b)') + Limiter!Cells(bucket'[b])
                        <= BURST + elapsed
  BY <1>2 DEF WireInv, WireBudget
<1>6. replies[b] + Cardinality(Holding(b)) + Limiter!Cells(bucket[b]) <= BURST + elapsed
  BY DEF WireInv, WireBudget
<1>7. /\ replies[b] \in Nat /\ elapsed \in Nat /\ Limiter!Cells(bucket[b]) \in Nat
      /\ Cardinality(Holding(b)) \in Nat /\ IsFiniteSet(Holding(b))
  BY <1>1, CellsType, TaskCount DEF WireInv, TypeOK, Holding
<1>8. CASE b = c
  <2>1. Holding(b)' = Holding(b) \cup {t} /\ t \notin Holding(b)
    BY <1>5, <1>8 DEF Holding, BucketOf
  <2>2. Cardinality(Holding(b)') = Cardinality(Holding(b)) + 1
    BY <1>7, <2>1, FS_AddElement
  <2> QED
    BY <1>4, <1>6, <1>7, <1>8, <2>2
<1>9. CASE b # c
  <2>1. Holding(b)' = Holding(b)
    BY <1>5, <1>9 DEF Holding, BucketOf
  <2> QED
    BY <1>4, <1>6, <1>9, <2>1
<1> QED
  BY <1>8, <1>9

\* A reply that is sent moves from the task to the wire.
LEMMA SendWire ==
    ASSUME WireInv, NEW t \in Task, HSend(t)
    PROVE  WireInv'
<1> USE DEF HSend, SendReply, Goto, limiterVars
<1>1. SInv /\ TypeOK
  BY DEF WireInv, SInv
<1>2. SInv'
  BY <1>1, SendSInv
<1> DEFINE c == BucketOf(t)
<1>3. c \in Limiter!Bucket
  BY <1>1, BucketOfTask
<1>4. /\ ~ Charged(t)'
      /\ \A u \in Task : u # t => (Charged(u)' <=> Charged(u))
      /\ req' = req /\ bucket' = bucket /\ elapsed' = elapsed
  BY <1>1 DEF Charged, TypeOK
<1>5. /\ replies' \in [Limiter!Bucket -> Nat]
      /\ \A b \in Limiter!Bucket :
            replies'[b] = IF b = c /\ Charged(t) THEN replies[b] + 1 ELSE replies[b]
  BY <1>3 DEF WireInv
<1> SUFFICES ASSUME RRL_ON, NEW b \in Limiter!Bucket
             PROVE  replies'[b] + Cardinality(Holding(b)') + Limiter!Cells(bucket[b])
                        <= BURST + elapsed
  BY <1>2, <1>4, <1>5 DEF WireInv, WireBudget
<1>6. replies[b] + Cardinality(Holding(b)) + Limiter!Cells(bucket[b]) <= BURST + elapsed
  BY DEF WireInv, WireBudget
<1>7. /\ replies[b] \in Nat /\ elapsed \in Nat /\ Limiter!Cells(bucket[b]) \in Nat
      /\ Cardinality(Holding(b)) \in Nat /\ IsFiniteSet(Holding(b))
  BY <1>1, CellsType, TaskCount DEF WireInv, TypeOK, Holding
<1>8. CASE b = c /\ Charged(t)
  <2>1. Holding(b)' = Holding(b) \ {t} /\ t \in Holding(b)
    BY <1>4, <1>8 DEF Holding, BucketOf
  <2>2. Cardinality(Holding(b)') = Cardinality(Holding(b)) - 1
    BY <1>7, <2>1, FS_RemoveElement
  <2> QED
    BY <1>5, <1>6, <1>7, <1>8, <2>2
<1>9. CASE ~ (b = c /\ Charged(t))
  <2>1. Holding(b)' = Holding(b)
    BY <1>4, <1>9 DEF Holding, BucketOf
  <2> QED
    BY <1>5, <1>6, <1>9, <2>1
<1> QED
  BY <1>8, <1>9

\* An interval that passes gives each bucket at most one cell.
LEMMA TickWire ==
    ASSUME WireInv, HTick
    PROVE  WireInv'
<1> USE DEF HTick, Tick, taskVars
<1>1. SInv /\ TypeOK
  BY DEF WireInv, SInv
<1>2. SInv'
  BY <1>1, LimiterTasksSInv
<1> SUFFICES ASSUME RRL_ON, NEW b \in Limiter!Bucket
             PROVE  replies[b] + Cardinality(Holding(b)) + Limiter!Cells(bucket'[b])
                        <= BURST + (elapsed + 1)
  BY <1>2 DEF WireInv, WireBudget, Holding, Charged, BucketOf
<1>3. /\ replies[b] \in Nat /\ elapsed \in Nat /\ Limiter!Cells(bucket[b]) \in Nat
      /\ Cardinality(Holding(b)) \in Nat
  BY <1>1, CellsType, TaskCount DEF WireInv, TypeOK, Holding
<1>4. Limiter!Cells(bucket'[b]) \in Nat
      /\ Limiter!Cells(bucket'[b]) <= Limiter!Cells(bucket[b]) + 1
  BY <1>1, TickAddsOne DEF TypeOK
<1> QED
  BY <1>3, <1>4 DEF WireInv, WireBudget

\* Steps of a task that neither take a cell nor send a full reply.
LEMMA TaskWire ==
    ASSUME WireInv, NEW t \in Task, UNCHANGED <<replies, elapsed>>,
           Receive(t) \/ Panic(t) \/ (Prepare(t) /\ ~ Granted(t))
    PROVE  WireInv'
<1> USE DEF Goto, taskVars, limiterVars, lookupVars
<1>1. SInv /\ TypeOK
  BY DEF WireInv, SInv
<1>2. SInv'
  BY <1>1, PlainSInv, DecideSInv, LookupSInv, LimitSInv, SendSInv, ReturnSInv DEF Prepare
<1>3. bucket' = bucket
  <2>1. CASE Exempted(t) \/ Exceeded(t) \/ Suppressed(t)
    BY <1>1, <2>1, DecisionOnly DEF TypeOK, Exempted, Exceeded, Suppressed
  <2>2. CASE ~ (Exempted(t) \/ Exceeded(t) \/ Suppressed(t))
    BY <2>2 DEF Prepare, Receive, Panic, Malformed, NotStandard, DecideAlone, DecideAsking,
                LookupSent, LookupReturned, SendTruncated, SendFails, Servfail, Return
  <2> QED
    BY <2>1, <2>2
<1>4. RRL_ON => \A u \in Task : Charged(u)' => Charged(u) /\ req'[u] = req[u]
  <2> SUFFICES ASSUME RRL_ON, NEW u \in Task, Charged(u)'
               PROVE  Charged(u) /\ req'[u] = req[u]
    OBVIOUS
  <2> USE DEF Charged, TypeOK
  <2>1. CASE Exempted(t)
    BY <1>1, <2>1 DEF Exempted
  <2>2. CASE Suppressed(t) \/ Exceeded(t)
    BY <1>1, <2>2 DEF Suppressed, Exceeded
  <2>3. CASE Receive(t) \/ Return(t)
    BY <1>1, <2>3 DEF Receive, Return
  <2>4. CASE Panic(t) \/ Malformed(t) \/ NotStandard(t) \/ SendFails(t) \/ SendTruncated(t)
             \/ Servfail(t)
    BY <1>1, <2>4 DEF Panic, Malformed, NotStandard, SendFails, SendTruncated, Servfail
  <2>5. CASE DecideAlone(t) \/ DecideAsking(t) \/ LookupSent(t) \/ LookupReturned(t)
    BY <1>1, <2>5 DEF DecideAlone, DecideAsking, LookupSent, LookupReturned
  <2> QED
    BY <2>1, <2>2, <2>3, <2>4, <2>5 DEF Prepare
<1> QED
  BY <1>2, <1>3, <1>4, NoGrantWire

\* Every step keeps the budget.
LEMMA StepWire == WireInv /\ [HNext]_hvars => WireInv'
<1> SUFFICES ASSUME WireInv, [HNext]_hvars PROVE WireInv'
  OBVIOUS
<1>1. SInv /\ TypeOK
  BY DEF WireInv, SInv
<1>2. CASE HTick
  BY <1>2, TickWire
<1>3. ASSUME NEW t \in Task, HSend(t) PROVE WireInv'
  BY <1>3, SendWire
<1>4. CASE Reload /\ UNCHANGED <<replies, elapsed>>
  <2>1. SInv'
    BY <1>1, <1>4, ReloadSInv
  <2>2. bucket' = bucket /\ pc' = pc /\ req' = req
    BY <1>4 DEF Reload, taskVars, limiterVars
  <2> QED
    BY <1>4, <2>1, <2>2, NoGrantWire DEF Charged
<1>5. CASE Sweep /\ UNCHANGED <<replies, elapsed>>
  <2>1. SInv'
    BY <1>1, <1>5, LimiterTasksSInv
  <2>2. /\ \A b \in Limiter!Bucket : Limiter!Cells(bucket'[b]) = Limiter!Cells(bucket[b])
        /\ pc' = pc /\ req' = req
    BY <1>1, <1>5, SweepKeepsCells DEF Sweep, taskVars, TypeOK
  <2> QED
    BY <1>5, <2>1, <2>2, NoGrantWire DEF Charged
<1>6. ASSUME NEW t \in Task, Receive(t) \/ Prepare(t) \/ Panic(t), UNCHANGED <<replies, elapsed>>
      PROVE  WireInv'
  BY <1>6, GrantWire, TaskWire
<1>7. CASE UNCHANGED hvars
  <2>1. SInv'
    BY <1>1, <1>7, StutterSInv DEF hvars
  <2> QED
    BY <1>7, <2>1, NoGrantWire DEF hvars, vars, taskVars, limiterVars, Charged
<1> QED
  BY <1>2, <1>3, <1>4, <1>5, <1>6, <1>7 DEF HNext, Unobserved

\* The budget invariant holds throughout every observed behaviour.
THEOREM WireInvariance == HSpec => []WireInv
BY InitWire, StepWire, PTL DEF HSpec

\* With rate limiting on, a client prefix is sent at most burst full UDP
\* replies of a kind plus one per replenishment interval, however many requests
\* overlap, fail, panic or are caught by a reload or a sweep.
THEOREM WireRateTheorem == HSpec => []WireRateBounded
<1>1. WireInv => WireRateBounded
  <2> SUFFICES ASSUME WireInv, RRL_ON, NEW b \in Limiter!Bucket
               PROVE  replies[b] <= BURST + elapsed
    BY DEF WireRateBounded
  <2>1. /\ replies[b] \in Nat /\ elapsed \in Nat /\ Limiter!Cells(bucket[b]) \in Nat
        /\ Cardinality(Holding(b)) \in Nat
    BY CellsType, TaskCount DEF WireInv, SInv, TypeOK, Holding
  <2> QED
    BY <2>1 DEF WireInv, WireBudget
<1> QED
  BY WireInvariance, <1>1, PTL
=============================================================================
