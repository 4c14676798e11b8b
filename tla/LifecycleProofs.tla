-------------------------- MODULE LifecycleProofs ---------------------------
(***************************************************************************)
(* Theorems about startup, signals and shutdown, for every number of       *)
(* instances on a host, every configuration file and command line, and     *)
(* every number of edits.                                                  *)
(*                                                                         *)
(* The invariant has three parts: Sockets, what bind_all has bound so far; *)
(* Control, what signals and reloads have done; and Renewal, why and from  *)
(* what a reload is under way.                                             *)
(***************************************************************************)
EXTENDS Lifecycle, TLAPS

USE EditsAssumption, ListenAssumption, SignalAssumption

\* Where a process has no socket, and where it has them all.
Unbound == {"off", "checking", "loading", "exited"}
Served == {"bound", "registered", "spawned", "catching", "serving", "stopping"}

\* bind_all has dealt with the addresses before at[i].
Progress(i) ==
    /\ at[i] \in 1 .. Len(listen[i]) + 1
    /\ pc[i] \in Unbound => at[i] = 1
    /\ pc[i] \in {"binding", "half"} => at[i] <= Len(listen[i])
    /\ pc[i] \in Served => at[i] = Len(listen[i]) + 1

\* Process i has bound UDP for its n-th address.
HasUdp(i, n) == n \in 1 .. at[i] /\ (n = at[i] => pc[i] = "half")

\* A UDP socket is for an address bind_all has got to, on the port asked for
\* unless that was 0, and with the TCP socket of the address unless that is next.
UdpPlaced(u) ==
    /\ u.by \in Instance
    /\ HasUdp(u.by, u.n)
    /\ u.ip = listen[u.by][u.n].ip
    /\ listen[u.by][u.n].port # 0 => u.port = listen[u.by][u.n].port
    /\ u.n < at[u.by] => \E t \in tcp : /\ t.by = u.by /\ t.n = u.n
                                        /\ t.ip = u.ip /\ t.port = u.port

Sockets ==
    /\ pc \in [Instance -> Point]
    /\ listen \in [Instance -> Seq(Endpoint)]
    /\ at \in [Instance -> Nat]
    /\ \A i \in Instance : Progress(i)
    /\ \A i \in Instance : \A n \in Nat : HasUdp(i, n) => \E u \in udp : u.by = i /\ u.n = n
    /\ \A u \in udp : UdpPlaced(u)
    /\ \A u, v \in udp : u.by = v.by /\ u.n = v.n => u.port = v.port
    /\ \A t \in tcp : t.by \in Instance /\ t.n \in 1 .. at[t.by] - 1
    /\ \A s, t \in tcp : s.ip = t.ip /\ s.port = t.port => s.by = t.by

\* What is published is a version of the file that was accepted, from the
\* moment load_config has returned.
Control ==
    /\ files \in Seq(Contents) /\ Current \in Version
    /\ handlers \in [Instance -> SUBSET Signal]
    /\ pending \in [Instance -> SUBSET Signal]
    /\ \A i \in Instance : pending[i] \subseteq handlers[i]
    /\ reloader \in [Instance -> {"none", "spawned", "waiting", "loading", "storing"}]
    /\ fresh \in [Instance -> 0 .. Current]
    /\ config \in [Instance -> 0 .. Current]
    /\ \A i \in Instance : reloader[i] = "storing" => fresh[i] # Nothing
    /\ \A i \in Instance : pc[i] \notin Unbound => config[i] # Nothing /\ Usable(config[i])
    /\ exit \in [Instance -> {Running, "success", "failure"} \cup Signal]
    /\ asked \in [Instance -> 0 .. Current]

\* What is published is not newer than what was read last, and a reload that
\* is due or under way goes back to a SIGHUP that was caught.
Renewal ==
    \A i \in Instance :
        /\ config[i] <= fresh[i]
        /\ "HUP" \in pending[i] \/ reloader[i] \in {"loading", "storing"} => asked[i] # Nothing

IInv == Sockets /\ Control /\ Renewal

-----------------------------------------------------------------------------
(* The initial states.                                                     *)

\* No process runs, and the file holds something.
LEMMA InitIInv == Init => IInv
<1> SUFFICES ASSUME Init PROVE IInv
  OBVIOUS
<1> USE DEF Init
<1>1. Sockets
  <2>1. \A i \in Instance : Len(listen[i]) = 0 /\ at[i] = 1 /\ pc[i] = "off"
    OBVIOUS
  <2>2. \A i \in Instance : Progress(i)
    BY <2>1 DEF Progress, Unbound, Served
  <2>3. \A i \in Instance : \A n \in Nat : ~ HasUdp(i, n)
    BY <2>1 DEF HasUdp
  <2> QED
    BY <2>2, <2>3 DEF Sockets, Point
<1>2. Control
  <2>1. PICK c \in Contents : files = <<c>>
    OBVIOUS
  <2>2. files \in Seq(Contents) /\ Len(files) = 1
    BY <2>1
  <2> QED
    BY <2>2 DEF Control, Current, Version, Unbound, Nothing, Running
<1>3. Renewal
  BY DEF Renewal, Nothing
<1> QED
  BY <1>1, <1>2, <1>3 DEF IInv

-----------------------------------------------------------------------------
(* Sockets.                                                                *)

\* A step that binds nothing keeps Sockets if it stays in the same phase of
\* bind_all.
LEMMA SamePhase ==
    ASSUME Sockets, UNCHANGED socketVars, pc' \in [Instance -> Point],
           \A i \in Instance : \/ pc'[i] = pc[i]
                               \/ pc[i] \in Unbound /\ pc'[i] \in Unbound
                               \/ pc[i] \in Served /\ pc'[i] \in Served
    PROVE  Sockets'
<1> USE DEF socketVars
<1>1. \A i \in Instance : /\ pc'[i] \in Unbound <=> pc[i] \in Unbound
                          /\ pc'[i] \in Served <=> pc[i] \in Served
                          /\ pc'[i] \in {"binding", "half"} <=> pc[i] \in {"binding", "half"}
                          /\ pc'[i] = "half" <=> pc[i] = "half"
  BY DEF Unbound, Served
<1>2. \A i \in Instance : Progress(i)'
  BY <1>1 DEF Sockets, Progress
<1>3. \A i \in Instance : \A n : HasUdp(i, n)' <=> HasUdp(i, n)
  BY <1>1 DEF HasUdp
<1>4. \A u \in udp : UdpPlaced(u)'
  BY <1>3 DEF Sockets, UdpPlaced
<1> QED
  BY <1>2, <1>3, <1>4 DEF Sockets

\* What a process bound goes with it, and nothing of another one.
LEMMA ExitSockets ==
    ASSUME Sockets, NEW i \in Instance, NEW how, Exit(i, how)
    PROVE  Sockets'
<1> USE DEF Exit
<1>1. /\ pc' \in [Instance -> Point] /\ listen' \in [Instance -> Seq(Endpoint)]
      /\ at' \in [Instance -> Nat]
      /\ pc'[i] = "exited" /\ listen'[i] = <<>> /\ at'[i] = 1
      /\ \A j \in Instance : j # i => pc'[j] = pc[j] /\ listen'[j] = listen[j] /\ at'[j] = at[j]
  BY DEF Sockets, Point
<1>2. \A j \in Instance : Progress(j)'
  <2> SUFFICES ASSUME NEW j \in Instance PROVE Progress(j)'
    OBVIOUS
  <2>1. CASE j = i
    BY <1>1, <2>1 DEF Progress, Unbound, Served
  <2>2. CASE j # i
    BY <1>1, <2>2 DEF Sockets, Progress
  <2> QED
    BY <2>1, <2>2
<1>3. \A n \in Nat : ~ HasUdp(i, n)'
  BY <1>1 DEF HasUdp
<1>4. \A j \in Instance : \A n : j # i => (HasUdp(j, n)' <=> HasUdp(j, n))
  BY <1>1 DEF HasUdp
<1>5. \A j \in Instance : \A n \in Nat : HasUdp(j, n)' => \E u \in udp' : u.by = j /\ u.n = n
  <2> SUFFICES ASSUME NEW j \in Instance, NEW n \in Nat, HasUdp(j, n)'
               PROVE  \E u \in udp' : u.by = j /\ u.n = n
    OBVIOUS
  <2>1. j # i /\ HasUdp(j, n)
    BY <1>3, <1>4
  <2>2. PICK u \in udp : u.by = j /\ u.n = n
    BY <2>1 DEF Sockets
  <2> QED
    BY <2>1, <2>2
<1>6. \A u \in udp' : UdpPlaced(u)'
  <2> SUFFICES ASSUME NEW u \in udp, u.by # i PROVE UdpPlaced(u)'
    OBVIOUS
  <2>1. UdpPlaced(u)
    BY DEF Sockets
  <2> QED
    BY <1>1, <1>4, <2>1 DEF UdpPlaced
<1>7. \A t \in tcp' : t.by \in Instance /\ t.n \in 1 .. at'[t.by] - 1
  BY <1>1 DEF Sockets
<1> QED
  BY <1>1, <1>2, <1>5, <1>6, <1>7 DEF Sockets

\* The command line is stored, and later replaced by the addresses to bind: no
\* socket refers to it yet.
LEMMA ListenSockets ==
    ASSUME Sockets, NEW i \in Instance, NEW l \in Seq(Endpoint), NEW to \in Point,
           pc[i] \in Unbound, UNCHANGED <<at, udp, tcp>>,
           pc' = [pc EXCEPT ![i] = to], listen' = [listen EXCEPT ![i] = l],
           to \in Unbound \/ (to = "binding" /\ l # <<>>)
    PROVE  Sockets'
<1>1. /\ pc' \in [Instance -> Point] /\ listen' \in [Instance -> Seq(Endpoint)]
      /\ pc'[i] = to /\ listen'[i] = l
      /\ \A j \in Instance : j # i => pc'[j] = pc[j] /\ listen'[j] = listen[j]
  BY DEF Sockets
<1>2. at[i] = 1 /\ Len(l) \in Nat /\ (l # <<>> => Len(l) > 0)
  BY DEF Sockets, Progress
<1>3. \A j \in Instance : Progress(j)'
  <2> SUFFICES ASSUME NEW j \in Instance PROVE Progress(j)'
    OBVIOUS
  <2>1. CASE j = i
    BY <1>1, <1>2, <2>1 DEF Progress, Unbound, Served
  <2>2. CASE j # i
    BY <1>1, <2>2 DEF Sockets, Progress
  <2> QED
    BY <2>1, <2>2
<1>4. to # "half" /\ pc[i] # "half"
  BY DEF Unbound
<1>5. \A n : ~ HasUdp(i, n) /\ ~ HasUdp(i, n)'
  BY <1>1, <1>2, <1>4 DEF HasUdp
<1>6. \A j \in Instance : \A n : HasUdp(j, n)' <=> HasUdp(j, n)
  BY <1>1, <1>5 DEF HasUdp
<1>7. \A u \in udp : UdpPlaced(u)'
  <2> SUFFICES ASSUME NEW u \in udp PROVE UdpPlaced(u)'
    OBVIOUS
  <2>1. UdpPlaced(u) /\ u.by # i
    BY <1>5 DEF Sockets, UdpPlaced
  <2> QED
    BY <1>1, <1>6, <2>1 DEF UdpPlaced
<1> QED
  BY <1>1, <1>3, <1>6, <1>7 DEF Sockets

\* A UDP socket is bound: the first one for its address.
LEMMA BindUdpSockets ==
    ASSUME Sockets, NEW i \in Instance, BindUdp(i)
    PROVE  Sockets'
<1> USE DEF BindUdp, Goto
<1>1. /\ pc' \in [Instance -> Point] /\ pc[i] = "binding" /\ pc'[i] = "half"
      /\ \A j \in Instance : j # i => pc'[j] = pc[j]
      /\ UNCHANGED <<listen, at, tcp>>
  BY DEF Sockets, Point
<1>2. at[i] \in Nat /\ at[i] \in 1 .. Len(listen[i]) /\ Progress(i)
  BY <1>1 DEF Sockets, Progress
<1>3. PICK port : /\ udp' = udp \cup {Socket(i, Target(i).ip, port)}
                  /\ Target(i).port # 0 => port = Target(i).port
  OBVIOUS
<1> DEFINE new == Socket(i, Target(i).ip, port)
<1>4. new.by = i /\ new.n = at[i] /\ new.ip = Target(i).ip /\ new.port = port
  BY DEF Socket
<1>5. \A j \in Instance : Progress(j)'
  BY <1>1, <1>2 DEF Sockets, Progress, Unbound, Served
<1>6. \A j \in Instance : \A n : HasUdp(j, n)' <=> HasUdp(j, n) \/ (j = i /\ n = at[i])
  BY <1>1, <1>2 DEF HasUdp
<1>7. \A j \in Instance : \A n \in Nat : HasUdp(j, n)' => \E u \in udp' : u.by = j /\ u.n = n
  <2> SUFFICES ASSUME NEW j \in Instance, NEW n \in Nat, HasUdp(j, n)'
               PROVE  \E u \in udp' : u.by = j /\ u.n = n
    OBVIOUS
  <2>1. CASE HasUdp(j, n)
    <3>1. PICK u \in udp : u.by = j /\ u.n = n
      BY <2>1 DEF Sockets
    <3> QED
      BY <1>3, <3>1
  <2>2. CASE j = i /\ n = at[i]
    BY <1>3, <1>4, <2>2
  <2> QED
    BY <1>6, <2>1, <2>2
<1>8. \A u \in udp : UdpPlaced(u) /\ ~ (u.by = i /\ u.n = at[i])
  BY <1>1 DEF Sockets, UdpPlaced, HasUdp
<1>9. \A u \in udp' : UdpPlaced(u)'
  <2> SUFFICES ASSUME NEW u \in udp' PROVE UdpPlaced(u)'
    OBVIOUS
  <2>1. CASE u \in udp
    <3>1. UdpPlaced(u)
      BY <1>8, <2>1
    <3> QED
      BY <1>1, <1>6, <3>1 DEF UdpPlaced
  <2>2. CASE u = new
    <3>1. HasUdp(u.by, u.n)'
      BY <1>4, <1>6, <2>2
    <3>2. u.by \in Instance /\ u.ip = listen[u.by][u.n].ip
          /\ (listen[u.by][u.n].port # 0 => u.port = listen[u.by][u.n].port)
      BY <1>3, <1>4, <2>2 DEF Target
    <3>3. ~ (u.n < at[u.by])
      BY <1>2, <1>4, <2>2
    <3> QED
      BY <1>1, <3>1, <3>2, <3>3 DEF UdpPlaced
  <2> QED
    BY <1>3, <2>1, <2>2
<1>10. \A u, v \in udp' : u.by = v.by /\ u.n = v.n => u.port = v.port
  BY <1>3, <1>4, <1>8 DEF Sockets
<1> QED
  BY <1>1, <1>5, <1>7, <1>9, <1>10 DEF Sockets

\* The TCP socket that completes an address: on the port of the UDP socket,
\* where no other listener is.
LEMMA BindTcpSockets ==
    ASSUME Sockets, NEW i \in Instance, BindTcp(i)
    PROVE  Sockets'
<1> USE DEF BindTcp, Goto
<1>1. /\ pc' \in [Instance -> Point] /\ at' \in [Instance -> Nat]
      /\ pc[i] = "half" /\ at'[i] = at[i] + 1
      /\ pc'[i] = IF at[i] = Len(listen[i]) THEN "bound" ELSE "binding"
      /\ \A j \in Instance : j # i => pc'[j] = pc[j] /\ at'[j] = at[j]
      /\ UNCHANGED <<listen, udp>>
  BY DEF Sockets, Point
<1>2. at[i] \in Nat /\ at[i] \in 1 .. Len(listen[i]) /\ Len(listen[i]) \in Nat
  BY <1>1 DEF Sockets, Progress
<1> DEFINE new == Socket(i, Target(i).ip, ActualPort(i))
<1>3. /\ new.by = i /\ new.n = at[i] /\ new.ip = Target(i).ip /\ new.port = ActualPort(i)
      /\ tcp' = tcp \cup {new}
  BY DEF Socket
<1>4. \A u \in udp : u.by = i /\ u.n = at[i] => u.port = ActualPort(i)
  <2> SUFFICES ASSUME NEW u \in udp, u.by = i, u.n = at[i] PROVE u.port = ActualPort(i)
    OBVIOUS
  <2> DEFINE chosen == CHOOSE s \in udp : s.by = i /\ s.n = at[i]
  <2>1. chosen \in udp /\ chosen.by = i /\ chosen.n = at[i]
    OBVIOUS
  <2> QED
    BY <2>1 DEF Sockets, ActualPort
<1>5. \A j \in Instance : Progress(j)'
  <2> SUFFICES ASSUME NEW j \in Instance PROVE Progress(j)'
    OBVIOUS
  <2>1. CASE j = i
    BY <1>1, <1>2, <2>1 DEF Progress, Unbound, Served
  <2>2. CASE j # i
    BY <1>1, <2>2 DEF Sockets, Progress
  <2> QED
    BY <2>1, <2>2
<1>6. \A j \in Instance : \A n \in Nat : HasUdp(j, n)' <=> HasUdp(j, n)
  <2>1. \A n \in Nat : HasUdp(i, n)' <=> HasUdp(i, n)
    BY <1>1, <1>2 DEF HasUdp
  <2>2. \A j \in Instance : \A n \in Nat : j # i => (HasUdp(j, n)' <=> HasUdp(j, n))
    BY <1>1 DEF HasUdp
  <2> QED
    BY <2>1, <2>2
<1>7. \A u \in udp : UdpPlaced(u)'
  <2> SUFFICES ASSUME NEW u \in udp PROVE UdpPlaced(u)'
    OBVIOUS
  <2>1. UdpPlaced(u)
    BY DEF Sockets
  <2>2. u.by \in Instance /\ u.n \in Nat /\ HasUdp(u.by, u.n)'
    <3>1. u.by \in Instance /\ HasUdp(u.by, u.n)
      BY <2>1 DEF UdpPlaced
    <3>2. u.n \in Nat
      BY <3>1 DEF HasUdp, Sockets
    <3> QED
      BY <1>6, <3>1, <3>2
  <2>3. u.n < at'[u.by] => \E t \in tcp' : /\ t.by = u.by /\ t.n = u.n
                                           /\ t.ip = u.ip /\ t.port = u.port
    <3>1. CASE u.by = i /\ u.n = at[i]
      BY <1>3, <1>4, <2>1, <3>1 DEF UdpPlaced, Target
    <3>2. CASE ~ (u.by = i /\ u.n = at[i])
      <4>1. u.n < at'[u.by] => u.n < at[u.by]
        BY <1>1, <1>2, <2>2, <3>2
      <4> QED
        BY <1>3, <2>1, <4>1 DEF UdpPlaced
    <3> QED
      BY <3>1, <3>2
  <2> QED
    BY <1>1, <2>1, <2>2, <2>3 DEF UdpPlaced
<1>8. \A t \in tcp' : t.by \in Instance /\ t.n \in 1 .. at'[t.by] - 1
  BY <1>1, <1>2, <1>3 DEF Sockets
<1>9. \A t \in tcp : ~ (t.ip = new.ip /\ t.port = new.port)
  BY <1>3 DEF TcpTaken, Held
<1>10. \A s, t \in tcp' : s.ip = t.ip /\ s.port = t.port => s.by = t.by
  BY <1>3, <1>9 DEF Sockets
<1> QED
  BY <1>1, <1>5, <1>6, <1>7, <1>8, <1>10 DEF Sockets

\* Every step keeps Sockets.
LEMMA StepSockets == IInv /\ [Next]_vars => Sockets'
<1> SUFFICES ASSUME IInv, [Next]_vars PROVE Sockets'
  OBVIOUS
<1>1. /\ Sockets /\ pc \in [Instance -> Point] /\ listen \in [Instance -> Seq(Endpoint)]
      /\ files[Current] \in Contents
  BY DEF IInv, Sockets, Control, Current, Version
<1>2. CASE Edit \/ UNCHANGED vars
  BY <1>1, <1>2, SamePhase DEF Edit, vars
<1>3. ASSUME NEW i \in Instance, Start(i) PROVE Sockets'
  <2>1. PICK to \in {"checking", "loading"}, cli \in CliListen :
            /\ pc' = [pc EXCEPT ![i] = to]
            /\ listen' = [listen EXCEPT ![i] = cli]
    BY <1>3 DEF Start, Goto
  <2>2. cli \in Seq(Endpoint) /\ to \in Point /\ to \in Unbound /\ pc[i] \in Unbound
    BY <1>3, <2>1 DEF Start, Goto, Lists, Point, Unbound
  <2> QED
    BY <1>1, <1>3, <2>1, <2>2, ListenSockets DEF Start
<1>4. ASSUME NEW i \in Instance, Load(i) PROVE Sockets'
  <2> DEFINE l == effective_listen(listen[i], files[Current].listen)
  <2>1. l \in Seq(Endpoint) /\ l # <<>>
    BY <1>1, <1>4 DEF effective_listen, Lists
  <2>2. /\ pc[i] \in Unbound /\ pc' = [pc EXCEPT ![i] = "binding"]
        /\ listen' = [listen EXCEPT ![i] = l] /\ "binding" \in Point
        /\ UNCHANGED <<at, udp, tcp>>
    BY <1>4 DEF Load, Goto, Unbound, Point
  <2> QED
    BY <1>1, <2>1, <2>2, ListenSockets
<1>5. ASSUME NEW i \in Instance, BindUdp(i) \/ BindTcp(i) PROVE Sockets'
  BY <1>1, <1>5, BindUdpSockets, BindTcpSockets
<1>6. ASSUME NEW i \in Instance, \E how : Exit(i, how) PROVE Sockets'
  BY <1>1, <1>6, ExitSockets
<1>7. ASSUME NEW i \in Instance,
             Register(i) \/ Spawn(i) \/ InstallTerm(i) \/ InstallInt(i) \/ Stop(i)
      PROVE  Sockets'
  <2>1. /\ pc[i] \in Served /\ \E to \in Served : pc' = [pc EXCEPT ![i] = to]
        /\ UNCHANGED socketVars
    BY <1>7 DEF Register, Spawn, InstallTerm, InstallInt, Stop, Goto, Served
  <2>2. Served \subseteq Point
    BY DEF Served, Point
  <2> QED
    BY <1>1, <2>1, <2>2, SamePhase
<1>8. CASE UNCHANGED <<pc, socketVars>>
  BY <1>1, <1>8, SamePhase
<1>9. ASSUME NEW i \in Instance, Proceed(i) \/ ServerDone(i) PROVE Sockets'
  BY <1>4, <1>5, <1>6, <1>7, <1>9
     DEF Proceed, CheckEnds, LoadFails, BindFails, InstallFails, Shutdown, ServerDone
<1>10. ASSUME NEW i \in Instance, Reloads(i) PROVE Sockets'
  BY <1>8, <1>10 DEF Reloads, InstallHup, InstallHupFails, ReceiveHup, ReadFile, Store
<1>11. ASSUME NEW i \in Signalled, NEW s \in Signal, Caught(i, s) \/ Killed(i, s) PROVE Sockets'
  BY <1>6, <1>8, <1>11 DEF Caught, Killed
<1> QED
  BY <1>2, <1>3, <1>9, <1>10, <1>11 DEF Next

-----------------------------------------------------------------------------
(* Control.                                                                *)

\* A step that neither edits the file nor publishes: the published version
\* stays usable as long as no process leaves load_config.
LEMMA KeepsConfig ==
    ASSUME Control, UNCHANGED <<files, config>>,
           \A i \in Instance : pc'[i] \notin Unbound => pc[i] \notin Unbound
    PROVE  \A i \in Instance : pc'[i] \notin Unbound
                                 => config'[i] # Nothing /\ Usable(config[i])'
BY DEF Control, Usable

\* The file gets a new version; the earlier ones stay what they were.
LEMMA EditControl == Control /\ Edit => Control'
<1> SUFFICES ASSUME Control, Edit PROVE Control'
  OBVIOUS
<1> USE DEF Edit, signalVars, reloadVars
<1>1. PICK c \in Contents : files' = Append(files, c)
  OBVIOUS
<1>2. /\ files \in Seq(Contents) /\ Len(files) \in Nat /\ files' \in Seq(Contents)
      /\ Len(files') = Len(files) + 1
      /\ \A v \in 1 .. Len(files) : files'[v] = files[v]
  BY <1>1 DEF Control
<1>3. Current' \in Version
  BY <1>2 DEF Current, Version
<1>4. \A i \in Instance : pc'[i] \notin Unbound => config'[i] # Nothing /\ Usable(config[i])'
  BY <1>2 DEF Control, Usable, Current, Nothing
<1>5. /\ fresh' \in [Instance -> 0 .. Current'] /\ config' \in [Instance -> 0 .. Current']
      /\ asked' \in [Instance -> 0 .. Current']
  BY <1>2 DEF Control, Current
<1> QED
  BY <1>2, <1>3, <1>4, <1>5 DEF Control

\* A process ends: nothing of it is left, except how it ended.
LEMMA ExitControl ==
    ASSUME Control, Sockets, NEW i \in Instance,
           NEW how \in {"success", "failure"} \cup Signal, Exit(i, how)
    PROVE  Control'
<1> USE DEF Exit
<1>1. /\ files' = files /\ Current' = Current
      /\ files \in Seq(Contents) /\ Current \in Version /\ 0 \in 0 .. Current
  BY DEF Control, Current, Version
<1>2. \A j \in Instance : pc'[j] \notin Unbound => config'[j] # Nothing /\ Usable(config[j])'
  BY DEF Control, Sockets, Usable, Unbound
<1>3. /\ handlers' \in [Instance -> SUBSET Signal] /\ pending' \in [Instance -> SUBSET Signal]
      /\ \A j \in Instance : pending'[j] \subseteq handlers'[j]
  BY DEF Control
<1>4. /\ fresh' \in [Instance -> 0 .. Current] /\ config' \in [Instance -> 0 .. Current]
      /\ asked' \in [Instance -> 0 .. Current]
  BY <1>1 DEF Control, Nothing
<1>5. /\ reloader' \in [Instance -> {"none", "spawned", "waiting", "loading", "storing"}]
      /\ \A j \in Instance : reloader'[j] = "storing" => fresh'[j] # Nothing
  BY DEF Control
<1>6. exit' \in [Instance -> {Running, "success", "failure"} \cup Signal]
  BY DEF Control
<1> QED
  BY <1>1, <1>2, <1>3, <1>4, <1>5, <1>6 DEF Control

\* load_config accepted the file: it is what the process starts with.
LEMMA LoadControl ==
    ASSUME Control, Sockets, NEW i \in Instance, Load(i)
    PROVE  Control'
<1> USE DEF Load, Goto, signalVars
<1>1. /\ Current' = Current /\ Current \in 0 .. Current /\ Current # Nothing
      /\ files' = files /\ Usable(Current)
  BY DEF Control, Current, Version, Nothing
<1>2. /\ fresh' \in [Instance -> 0 .. Current] /\ config' \in [Instance -> 0 .. Current]
      /\ config'[i] = Current /\ fresh'[i] = Current
      /\ \A j \in Instance : j # i => /\ config'[j] = config[j] /\ fresh'[j] = fresh[j]
                                      /\ pc'[j] = pc[j]
  BY <1>1 DEF Control, Sockets
<1>3. \A j \in Instance : pc'[j] \notin Unbound => config'[j] # Nothing /\ Usable(config[j])'
  BY <1>1, <1>2 DEF Control, Usable
<1>4. \A j \in Instance : reloader'[j] = "storing" => fresh'[j] # Nothing
  BY <1>1, <1>2 DEF Control
<1> QED
  BY <1>1, <1>2, <1>3, <1>4 DEF Control

\* Steps of the main task that neither load nor end.
LEMMA MainControl ==
    ASSUME Control, Sockets, NEW i \in Instance,
           \/ Start(i) \/ BindUdp(i) \/ BindTcp(i) \/ Register(i) \/ Spawn(i)
           \/ InstallTerm(i) \/ InstallInt(i) \/ Stop(i)
    PROVE  Control'
<1> USE DEF Start, BindUdp, BindTcp, Register, Spawn, InstallTerm, InstallInt, Stop, Goto,
            Installs, signalVars, reloadVars
<1>1. /\ \E to \in Point : pc' = [pc EXCEPT ![i] = to] /\ (to \notin Unbound => pc[i] \notin Unbound)
      /\ UNCHANGED <<files, exit, pending, fresh, config, asked>>
  <2>1. CASE Start(i)
    BY <2>1 DEF Point, Unbound
  <2>2. CASE BindUdp(i) \/ BindTcp(i)
    BY <2>2 DEF Point, Unbound
  <2>3. CASE Register(i) \/ Spawn(i) \/ InstallTerm(i) \/ InstallInt(i) \/ Stop(i)
    BY <2>3 DEF Point, Unbound
  <2> QED
    BY <2>1, <2>2, <2>3
<1>2. \A j \in Instance : pc'[j] \notin Unbound => pc[j] \notin Unbound
  BY <1>1 DEF Sockets
<1>3. \A j \in Instance : pc'[j] \notin Unbound => config'[j] # Nothing /\ Usable(config[j])'
  BY <1>1, <1>2, KeepsConfig
<1>4. /\ handlers' \in [Instance -> SUBSET Signal]
      /\ \A j \in Instance : handlers[j] \subseteq handlers'[j]
  <2>1. CASE InstallTerm(i) \/ InstallInt(i)
    <3>1. PICK s \in Signal : handlers' = [handlers EXCEPT ![i] = @ \cup {s}]
      BY <2>1 DEF Signal
    <3>2. handlers \in [Instance -> SUBSET Signal]
      BY DEF Control
    <3> QED
      BY <3>1, <3>2
  <2>2. CASE ~ (InstallTerm(i) \/ InstallInt(i))
    BY <2>2 DEF Control
  <2> QED
    BY <2>1, <2>2
<1>5. /\ reloader' \in [Instance -> {"none", "spawned", "waiting", "loading", "storing"}]
      /\ \A j \in Instance : reloader'[j] = "storing" => reloader[j] = "storing"
  <2>1. CASE Spawn(i)
    BY <2>1 DEF Control
  <2>2. CASE ~ Spawn(i)
    BY <2>2 DEF Control
  <2> QED
    BY <2>1, <2>2
<1> QED
  BY <1>1, <1>3, <1>4, <1>5 DEF Control, Current

\* The reload task publishes only what was read and accepted.
LEMMA ReloadControl ==
    ASSUME Control, NEW i \in Instance, Reloads(i)
    PROVE  Control'
<1>1. /\ UNCHANGED <<files, pc, exit, asked>> /\ Current' = Current
      /\ Current \in 0 .. Current /\ Current # Nothing
  BY DEF Control, Current, Version, Nothing, Reloads, InstallHup, InstallHupFails, ReceiveHup,
         ReadFile, Store
<1>2. CASE InstallHup(i) \/ InstallHupFails(i) \/ ReceiveHup(i)
  <2>1. UNCHANGED <<fresh, config>>
    BY <1>2 DEF InstallHup, InstallHupFails, ReceiveHup
  <2>2. \A j \in Instance : pc'[j] \notin Unbound => config'[j] # Nothing /\ Usable(config[j])'
    BY <1>1, <2>1, KeepsConfig
  <2>3. /\ handlers' \in [Instance -> SUBSET Signal] /\ pending' \in [Instance -> SUBSET Signal]
        /\ \A j \in Instance : pending'[j] \subseteq handlers'[j]
    <3>1. CASE InstallHup(i)
      BY <3>1 DEF InstallHup, Installs, Control, Signal
    <3>2. CASE InstallHupFails(i)
      BY <3>2 DEF InstallHupFails, signalVars, Control
    <3>3. CASE ReceiveHup(i)
      BY <3>3 DEF ReceiveHup, Control
    <3> QED
      BY <1>2, <3>1, <3>2, <3>3
  <2>4. /\ reloader' \in [Instance -> {"none", "spawned", "waiting", "loading", "storing"}]
        /\ \A j \in Instance : reloader'[j] = "storing" => reloader[j] = "storing"
    BY <1>2 DEF InstallHup, InstallHupFails, ReceiveHup, Control
  <2> QED
    BY <1>1, <2>1, <2>2, <2>3, <2>4 DEF Control
<1>3. CASE ReadFile(i)
  <2> USE <1>3 DEF ReadFile, signalVars
  <2>1. \A j \in Instance : pc'[j] \notin Unbound => config'[j] # Nothing /\ Usable(config[j])'
    BY <1>1, KeepsConfig
  <2>2. /\ reloader' \in [Instance -> {"none", "spawned", "waiting", "loading", "storing"}]
        /\ fresh' \in [Instance -> 0 .. Current]
        /\ \A j \in Instance : reloader'[j] = "storing" => fresh'[j] # Nothing
    BY <1>1 DEF Control
  <2> QED
    BY <1>1, <2>1, <2>2 DEF Control
<1>4. CASE Store(i)
  <2> USE <1>4 DEF Store, signalVars
  <2>1. fresh[i] \in 0 .. Current /\ fresh[i] # Nothing
    BY DEF Control
  <2>2. /\ config' \in [Instance -> 0 .. Current]
        /\ config'[i] = IF Usable(fresh[i]) THEN fresh[i] ELSE config[i]
        /\ \A j \in Instance : j # i => config'[j] = config[j]
    BY <2>1 DEF Control
  <2>3. \A j \in Instance : pc'[j] \notin Unbound => config'[j] # Nothing /\ Usable(config[j])'
    BY <1>1, <2>1, <2>2 DEF Control, Usable
  <2>4. /\ reloader' \in [Instance -> {"none", "spawned", "waiting", "loading", "storing"}]
        /\ \A j \in Instance : reloader'[j] = "storing" => reloader[j] = "storing"
    BY DEF Control
  <2> QED
    BY <1>1, <2>2, <2>3, <2>4 DEF Control
<1> QED
  BY <1>2, <1>3, <1>4 DEF Reloads

\* A signal with a handler is remembered.
LEMMA CaughtControl ==
    ASSUME Control, NEW i \in Instance, NEW s \in Signal, Caught(i, s)
    PROVE  Control'
<1> USE DEF Caught
<1>1. UNCHANGED <<files, pc, exit, handlers, reloader, fresh, config>> /\ Current' = Current
  BY DEF Current
<1>2. \A j \in Instance : pc'[j] \notin Unbound => config'[j] # Nothing /\ Usable(config[j])'
  BY <1>1, KeepsConfig
<1>3. /\ pending' \in [Instance -> SUBSET Signal]
      /\ \A j \in Instance : pending'[j] \subseteq handlers[j]
  BY DEF Control
<1>4. asked' \in [Instance -> 0 .. Current]
  BY DEF Control, Current, Version
<1> QED
  BY <1>1, <1>2, <1>3, <1>4 DEF Control

\* Every step keeps Control.
LEMMA StepControl == IInv /\ [Next]_vars => Control'
<1> SUFFICES ASSUME IInv, [Next]_vars PROVE Control'
  OBVIOUS
<1>1. Sockets /\ Control
  BY DEF IInv
<1>2. CASE Edit
  BY <1>1, <1>2, EditControl
<1>3. ASSUME NEW i \in Instance,
             \E how \in {"success", "failure"} \cup Signal : Exit(i, how)
      PROVE  Control'
  BY <1>1, <1>3, ExitControl
<1>4. ASSUME NEW i \in Instance, Start(i) \/ Proceed(i) \/ ServerDone(i) PROVE Control'
  BY <1>1, <1>3, <1>4, LoadControl, MainControl
     DEF Proceed, CheckEnds, LoadFails, BindFails, InstallFails, Shutdown, ServerDone
<1>5. ASSUME NEW i \in Instance, Reloads(i) PROVE Control'
  BY <1>1, <1>5, ReloadControl
<1>6. ASSUME NEW i \in Signalled, NEW s \in Signal, Caught(i, s) \/ Killed(i, s) PROVE Control'
  BY <1>1, <1>3, <1>6, CaughtControl DEF Killed
<1>7. CASE UNCHANGED vars
  BY <1>1, <1>7 DEF vars, signalVars, reloadVars, Control, Usable, Current
<1> QED
  BY <1>2, <1>4, <1>5, <1>6, <1>7 DEF Next

-----------------------------------------------------------------------------
(* What reloads go back to.                                                *)

\* The numbers that Renewal compares.
LEMMA Versions ==
    ASSUME Control
    PROVE  /\ Current \in Nat /\ Current # Nothing
           /\ \A i \in Instance : config[i] \in Nat /\ fresh[i] \in 0 .. Current
BY DEF Control, Version, Nothing

\* Every step keeps Renewal.
LEMMA StepRenewal == IInv /\ [Next]_vars => Renewal'
<1> SUFFICES ASSUME IInv, [Next]_vars PROVE Renewal'
  OBVIOUS
<1>1. Sockets /\ Control /\ Renewal
  BY DEF IInv
<1>2. CASE UNCHANGED <<config, fresh, pending, reloader, asked>>
  BY <1>1, <1>2 DEF Renewal
<1>3. ASSUME NEW i \in Instance,
             \E how \in {"success", "failure"} \cup Signal : Exit(i, how)
      PROVE  Renewal'
  BY <1>1, <1>3 DEF Exit, Renewal, Control, Nothing
<1>4. ASSUME NEW i \in Instance, Load(i) PROVE Renewal'
  <2>1. /\ config' = [config EXCEPT ![i] = Current] /\ fresh' = [fresh EXCEPT ![i] = Current]
        /\ UNCHANGED <<pending, reloader, asked>>
    BY <1>4 DEF Load, signalVars
  <2>2. \A j \in Instance : config'[j] <= fresh'[j]
    <3>1. Current \in Nat /\ config \in [Instance -> 0 .. Current] /\ fresh \in [Instance -> 0 .. Current]
      BY <1>1, Versions DEF Control
    <3> QED
      BY <1>1, <2>1, <3>1 DEF Renewal
  <2> QED
    BY <1>1, <2>1, <2>2 DEF Renewal
<1>5. ASSUME NEW i \in Instance, Spawn(i) PROVE Renewal'
  BY <1>1, <1>5 DEF Spawn, signalVars, Renewal, Control
<1>6. ASSUME NEW i \in Instance, Reloads(i) PROVE Renewal'
  <2>1. CASE InstallHup(i) \/ InstallHupFails(i)
    <3>1. UNCHANGED <<config, fresh, pending, asked>>
      BY <2>1 DEF InstallHup, InstallHupFails, signalVars
    <3>2. \A j \in Instance : reloader'[j] \in {"loading", "storing"} =>
                                reloader[j] \in {"loading", "storing"}
      BY <1>1, <2>1 DEF InstallHup, InstallHupFails, Control
    <3> QED
      BY <1>1, <3>1, <3>2 DEF Renewal
  <2>2. CASE ReceiveHup(i)
    BY <1>1, <2>2 DEF ReceiveHup, Renewal, Control
  <2>3. CASE ReadFile(i)
    <3>1. /\ fresh' = [fresh EXCEPT ![i] = Current] /\ UNCHANGED <<config, pending, asked>>
          /\ reloader[i] = "loading" /\ reloader' = [reloader EXCEPT ![i] = "storing"]
      BY <2>3 DEF ReadFile, signalVars
    <3>2. \A j \in Instance : config[j] <= Current
      BY <1>1 DEF Control, Version
    <3> QED
      BY <1>1, <3>1, <3>2 DEF Renewal, Control
  <2>4. CASE Store(i)
    <3>1. /\ config' = [config EXCEPT ![i] = IF Usable(fresh[i]) THEN fresh[i] ELSE @]
          /\ UNCHANGED <<fresh, pending, asked>>
          /\ reloader' = [reloader EXCEPT ![i] = "waiting"]
      BY <2>4 DEF Store, signalVars
    <3> QED
      BY <1>1, <3>1, Versions DEF Renewal, Control
  <2> QED
    BY <1>6, <2>1, <2>2, <2>3, <2>4 DEF Reloads
<1>7. ASSUME NEW i \in Instance, NEW s \in Signal, Caught(i, s) PROVE Renewal'
  <2>1. /\ pending' = [pending EXCEPT ![i] = @ \cup {s}]
        /\ asked' = IF s = "HUP" THEN [asked EXCEPT ![i] = Current] ELSE asked
        /\ UNCHANGED <<reloader, fresh, config>>
    BY <1>7 DEF Caught
  <2> QED
    BY <1>1, <2>1, Versions DEF Renewal, Control
<1>8. ASSUME NEW i \in Instance, Start(i) \/ Proceed(i) \/ ServerDone(i) PROVE Renewal'
  <2>1. CASE Start(i) \/ BindUdp(i) \/ BindTcp(i) \/ Register(i) \/ InstallTerm(i)
             \/ InstallInt(i) \/ Stop(i)
    BY <1>2, <2>1 DEF Start, BindUdp, BindTcp, Register, InstallTerm, InstallInt, Stop,
                      signalVars, reloadVars
  <2> QED
    BY <1>3, <1>4, <1>5, <1>8, <2>1
       DEF Proceed, CheckEnds, LoadFails, BindFails, InstallFails, Shutdown, ServerDone
<1>9. CASE Edit \/ UNCHANGED vars
  BY <1>2, <1>9 DEF Edit, vars, signalVars, reloadVars
<1>10. ASSUME NEW i \in Signalled, NEW s \in Signal, Caught(i, s) \/ Killed(i, s)
       PROVE  Renewal'
  BY <1>3, <1>7, <1>10 DEF Killed
<1> QED
  BY <1>6, <1>8, <1>9, <1>10 DEF Next

-----------------------------------------------------------------------------
(* The theorems.                                                           *)

\* The inductive invariant holds throughout every behaviour.
THEOREM Invariance == Spec => []IInv
<1>1. IInv /\ [Next]_vars => IInv'
  BY StepSockets, StepControl, StepRenewal DEF IInv
<1> QED
  BY InitIInv, <1>1, PTL DEF Spec

\* Type correctness: a socket belongs to a live process, a signal waits only
\* where it is caught, and what is published was accepted.
THEOREM TypeCorrect == Spec => []TypeOK
<1>1. IInv => TypeOK
  <2> SUFFICES ASSUME IInv PROVE TypeOK
    OBVIOUS
  <2>1. Sockets /\ Control
    BY DEF IInv
  <2>2. \A i \in Instance : at[i] \in 1 .. Len(listen[i]) + 1 /\ Progress(i)
    BY <2>1 DEF Sockets, Progress
  <2>3. \A s \in udp \cup tcp : /\ s.by \in Instance /\ Alive(s.by)
                                /\ s.n \in 1 .. Len(listen[s.by])
    <3> SUFFICES ASSUME NEW s \in udp \cup tcp
                 PROVE  /\ s.by \in Instance /\ Alive(s.by)
                        /\ s.n \in 1 .. Len(listen[s.by])
      OBVIOUS
    <3>1. /\ s.by \in Instance /\ s.n \in 1 .. at[s.by]
          /\ s.n = at[s.by] => pc[s.by] = "half"
      BY <2>1 DEF Sockets, UdpPlaced, HasUdp
    <3>2. at[s.by] \in Nat /\ Len(listen[s.by]) \in Nat /\ pc[s.by] \in Point
      BY <2>1, <3>1 DEF Sockets
    <3>3. pc[s.by] \notin Unbound
      BY <2>2, <3>1, <3>2 DEF Progress, Unbound
    <3>4. Alive(s.by)
      BY <3>3 DEF Alive, Unbound
    <3>5. s.n \in 1 .. Len(listen[s.by])
      BY <2>2, <3>1, <3>2 DEF Progress
    <3> QED
      BY <3>1, <3>4, <3>5
  <2>4. \A i \in Instance : Answering(i) => config[i] # Nothing /\ Usable(config[i])
    BY <2>1 DEF Control, Answering, Unbound
  <2>5. files \in [1 .. Current -> Contents] /\ Current \in Version /\ Current \in Nat
    BY <2>1 DEF Control, Current, Version
  <2>6. 0 .. Current \subseteq {Nothing} \cup Version
    BY <2>5 DEF Version, Nothing
  <2> QED
    BY <2>1, <2>2, <2>3, <2>4, <2>5, <2>6 DEF TypeOK, Sockets, Control
<1> QED
  BY Invariance, <1>1, PTL

\* A process that serves has every address bound.
LEMMA AllBound ==
    ASSUME IInv, NEW i \in Instance, Answering(i)
    PROVE  at[i] = Len(listen[i]) + 1 /\ Len(listen[i]) \in Nat
BY DEF IInv, Sockets, Progress, Answering, Served

\* Wherever one transport is served, so is the other, on the same port.
THEOREM TransportTheorem == Spec => []BothTransports
<1>1. IInv => BothTransports
  <2> SUFFICES ASSUME IInv, NEW i \in Instance, Answering(i), NEW n \in 1 .. Len(listen[i])
               PROVE  \E u \in udp, t \in tcp :
                         /\ u.by = i /\ t.by = i /\ u.n = n /\ t.n = n
                         /\ u.ip = listen[i][n].ip /\ t.ip = u.ip /\ t.port = u.port
                         /\ listen[i][n].port # 0 => u.port = listen[i][n].port
    BY DEF BothTransports
  <2>1. n \in Nat /\ n < at[i] /\ HasUdp(i, n)
    BY AllBound DEF HasUdp
  <2>2. PICK u \in udp : u.by = i /\ u.n = n
    BY <2>1 DEF IInv, Sockets
  <2>3. UdpPlaced(u)
    BY DEF IInv, Sockets
  <2> QED
    BY <2>1, <2>2, <2>3 DEF UdpPlaced
<1> QED
  BY Invariance, <1>1, PTL

\* No two instances answer on one address, however many are started at once:
\* the TCP listener that completes an address excludes any other.
THEOREM ExclusiveTheorem == Spec => []ExclusiveService
<1>1. IInv => ExclusiveService
  <2> SUFFICES ASSUME IInv, NEW i \in Instance, NEW j \in Instance,
                      Answering(i), Answering(j), i # j,
                      NEW p \in Places(udp, i) \cap Places(udp, j)
               PROVE  FALSE
    BY DEF ExclusiveService
  <2>1. \A k \in Instance : Answering(k) /\ p \in Places(udp, k) =>
            \E t \in tcp : t.by = k /\ t.ip = p.ip /\ t.port = p.port
    <3> SUFFICES ASSUME NEW k \in Instance, Answering(k), p \in Places(udp, k)
                 PROVE  \E t \in tcp : t.by = k /\ t.ip = p.ip /\ t.port = p.port
      OBVIOUS
    <3>1. PICK u \in udp : u.by = k /\ p = [ip |-> u.ip, port |-> u.port]
      BY DEF Places
    <3>2. UdpPlaced(u)
      BY DEF IInv, Sockets
    <3>3. at[k] \in Nat /\ pc[k] # "half"
      BY DEF IInv, Sockets, Answering
    <3>4. u.n < at[k]
      BY <3>1, <3>2, <3>3 DEF UdpPlaced, HasUdp
    <3> QED
      BY <3>1, <3>2, <3>4 DEF UdpPlaced
  <2>2. PICK s \in tcp : s.by = i /\ s.ip = p.ip /\ s.port = p.port
    BY <2>1
  <2>3. PICK t \in tcp : t.by = j /\ t.ip = p.ip /\ t.port = p.port
    BY <2>1
  <2> QED
    BY <2>2, <2>3 DEF IInv, Sockets
<1> QED
  BY Invariance, <1>1, PTL

\* However reloads, edits and signals interleave, a process that answers goes
\* on with what it has until a later version, announced by a SIGHUP that was
\* caught, has been accepted.
THEOREM RenewalTheorem == Spec => ServedOnlyRenewed
<1>1. ASSUME IInv, [Next]_vars, NEW i \in Instance, Answering(i), Answering(i)'
      PROVE  /\ config'[i] >= config[i]
             /\ config'[i] # config[i] => Usable(config'[i]) /\ asked[i] # Nothing
  <2>1. Sockets /\ Control /\ Renewal
    BY <1>1 DEF IInv
  <2>2. config[i] \in Nat
    BY <2>1, Versions
  <2>3. CASE config'[i] = config[i]
    BY <2>2, <2>3
  <2>4. CASE config'[i] # config[i]
    <3>1. pc[i] \notin {"loading", "exited"} /\ pc'[i] # "exited" /\ pc \in [Instance -> Point]
      BY <1>1, <2>1 DEF Answering, Sockets
    <3>2. ASSUME NEW j \in Instance, Load(j) \/ \E how : Exit(j, how) PROVE FALSE
      <4>1. j # i
        BY <3>1, <3>2 DEF Load, Exit, Goto
      <4>2. config'[i] = config[i]
        BY <2>1, <3>2, <4>1 DEF Load, Exit, Control
      <4> QED
        BY <2>4, <4>2
    <3>3. PICK j \in Instance : Store(j)
      <4>1. config' # config
        BY <2>4
      <4>2. ASSUME NEW j \in Instance, Start(j) \/ Proceed(j) \/ ServerDone(j) PROVE FALSE
        BY <3>2, <4>1, <4>2
           DEF Proceed, CheckEnds, LoadFails, BindFails, InstallFails, Shutdown, ServerDone,
               Start, BindUdp, BindTcp, Register, Spawn, InstallTerm, InstallInt, Stop, reloadVars
      <4>3. ASSUME NEW j \in Signalled, NEW s \in Signal, Caught(j, s) \/ Killed(j, s)
            PROVE  FALSE
        BY <3>2, <4>1, <4>3 DEF Caught, Killed
      <4>4. ~ Edit /\ ~ UNCHANGED vars
        BY <4>1 DEF Edit, vars, reloadVars
      <4>5. PICK j \in Instance : Reloads(j)
        BY <1>1, <4>2, <4>3, <4>4 DEF Next
      <4> QED
        BY <4>1, <4>5 DEF Reloads, InstallHup, InstallHupFails, ReceiveHup, ReadFile
    <3>4. /\ j = i /\ Usable(fresh[i]) /\ config'[i] = fresh[i] /\ reloader[i] = "storing"
      BY <2>1, <2>4, <3>3 DEF Store, Control
    <3>5. fresh[i] \in Nat /\ config[i] <= fresh[i] /\ asked[i] # Nothing
      BY <2>1, <3>4, Versions DEF Renewal
    <3> QED
      BY <2>2, <3>4, <3>5
  <2> QED
    BY <2>3, <2>4
<1>2. IInv /\ [Next]_vars =>
        [\A i \in Instance : Answering(i) /\ Answering(i)' =>
           /\ config'[i] >= config[i]
           /\ config'[i] # config[i] => Usable(config'[i]) /\ asked[i] # Nothing]_vars
  BY <1>1
<1> QED
  BY <1>2, Invariance, PTL DEF Spec, ServedOnlyRenewed
=============================================================================
