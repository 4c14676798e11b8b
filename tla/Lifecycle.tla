----------------------------- MODULE Lifecycle ------------------------------
(***************************************************************************)
(* The life of a PanoptiDNS process, src/main.rs and src/server/bind.rs:   *)
(* loading the configuration, binding the sockets, installing the signal   *)
(* handlers, reloading on SIGHUP, stopping on SIGTERM or SIGINT.           *)
(*                                                                         *)
(* Several instances may be started on one host, next to each other or one *)
(* after the other; they share the kernel's ports and the file on disk.    *)
(* What a file says beyond the addresses to listen on is the subject of    *)
(* module ConfigLoad; here it is accepted or not.                          *)
(***************************************************************************)
EXTENDS Integers, Sequences, Functions

CONSTANTS
    Instance,       \* the processes that may be started
    Contents,       \* what the file may hold: [ok, clients, listen], whether it
                    \* parses, and whether its upstreams' clients can be made
    CliListen,      \* values of --listen, <<>> where it is not given
    Malformed,      \* a value of --listen that is not an address
    DefaultListen,  \* default_listen: both wildcards on the default port
    Ports,          \* the ports the kernel chooses from for port 0
    ForeignTcp,     \* [ip, port] of listeners of other programs
    Signalled,      \* the instances that signals are sent to
    MaxEdits        \* bound on the edits of the file

\* The lists of addresses that a process may be told to listen on.
Lists == CliListen \cup {DefaultListen} \cup {c.listen : c \in Contents}
Endpoint == UNION {Range(l) : l \in Lists}

ASSUME EditsAssumption  == MaxEdits \in Nat
ASSUME ListenAssumption == Lists \subseteq Seq(Endpoint) /\ DefaultListen # <<>>
ASSUME SignalAssumption == Signalled \subseteq Instance

Version == 1 .. MaxEdits + 1
Nothing == 0
Signal == {"HUP", "TERM", "INT"}

VARIABLES
    files,      \* what the file has held so far; the last is on disk
    pc,         \* instance -> where serve is
    listen,     \* instance -> --listen, then the addresses to bind
    at,         \* instance -> the one of them to bind next
    udp, tcp,   \* bound sockets, [by, n, ip, port]
    handlers,   \* instance -> signals that no longer have their default action
    pending,    \* instance -> signals received and not yet handled
    reloader,   \* instance -> where the reload task is
    fresh,      \* instance -> the version of the file that was read last
    config,     \* instance -> the version that is published
    exit,       \* instance -> exit code, or signal that killed it
    asked       \* observer: version on disk at the last SIGHUP that was caught

socketVars == <<listen, at, udp, tcp>>
signalVars == <<handlers, pending>>
reloadVars == <<reloader, fresh, config, asked>>
vars == <<files, pc, exit, socketVars, signalVars, reloadVars>>

Point == {"off",
          "checking",   \* in load_config, --check-config was given
          "loading",    \* in load_config
          "binding",    \* in bind_all, before an address
          "half",       \* in bind_all, UDP bound and TCP not yet
          "bound",      \* every address bound
          "registered", \* the sockets are served
          "spawned",    \* sweeper and reloader spawned
          "catching",   \* SIGTERM handler installed
          "serving",    \* SIGINT handler installed, in the select
          "stopping",   \* in shutdown_gracefully
          "exited"}

Running == "running"

Init ==
    /\ files \in {<<c>> : c \in Contents}
    /\ pc = [i \in Instance |-> "off"]
    /\ listen = [i \in Instance |-> <<>>]
    /\ at = [i \in Instance |-> 1]
    /\ udp = {} /\ tcp = {}
    /\ handlers = [i \in Instance |-> {}]
    /\ pending = [i \in Instance |-> {}]
    /\ reloader = [i \in Instance |-> "none"]
    /\ fresh = [i \in Instance |-> Nothing]
    /\ config = [i \in Instance |-> Nothing]
    /\ exit = [i \in Instance |-> Running]
    /\ asked = [i \in Instance |-> Nothing]

Goto(i, from, to) ==
    /\ pc[i] = from
    /\ pc' = [pc EXCEPT ![i] = to]

\* The process ends, in whichever way: its memory goes, and the kernel closes
\* its sockets.
Exit(i, how) ==
    /\ pc' = [pc EXCEPT ![i] = "exited"]
    /\ exit' = [exit EXCEPT ![i] = how]
    /\ udp' = {s \in udp : s.by # i}
    /\ tcp' = {s \in tcp : s.by # i}
    /\ listen' = [listen EXCEPT ![i] = <<>>]
    /\ at' = [at EXCEPT ![i] = 1]
    /\ handlers' = [handlers EXCEPT ![i] = {}]
    /\ pending' = [pending EXCEPT ![i] = {}]
    /\ reloader' = [reloader EXCEPT ![i] = "none"]
    /\ fresh' = [fresh EXCEPT ![i] = Nothing]
    /\ config' = [config EXCEPT ![i] = Nothing]
    /\ asked' = [asked EXCEPT ![i] = Nothing]
    /\ UNCHANGED files

\* The version of the file that is on disk.
Current == Len(files)

\* The operator edits the file.
Edit ==
    /\ Current <= MaxEdits
    /\ \E c \in Contents : files' = Append(files, c)
    /\ UNCHANGED <<pc, exit, socketVars, signalVars, reloadVars>>

-----------------------------------------------------------------------------
(* run and serve.                                                          *)

\* The command line has or has not --check-config, and any --listen.
Start(i) ==
    /\ \E to \in {"checking", "loading"} : Goto(i, "off", to)
    /\ \E cli \in CliListen : listen' = [listen EXCEPT ![i] = cli]
    /\ UNCHANGED <<files, exit, at, udp, tcp, signalVars, reloadVars>>

\* effective_listen: the command line over the file over the default.
effective_listen(cli, config_listen) ==
    IF cli # <<>> THEN cli ELSE IF config_listen # <<>> THEN config_listen ELSE DefaultListen

\* Config::parse and Zones::new accept a version of the file.
Usable(v) == files[v].ok /\ files[v].clients

\* load_config, effective_listen and Zones::new.
Load(i) ==
    /\ Usable(Current) /\ Malformed \notin Range(listen[i])
    /\ Goto(i, "loading", "binding")
    /\ listen' = [listen EXCEPT ![i] = effective_listen(@, files[Current].listen)]
    /\ fresh' = [fresh EXCEPT ![i] = Current]
    /\ config' = [config EXCEPT ![i] = Current]
    /\ UNCHANGED <<files, exit, at, udp, tcp, signalVars, reloader, asked>>

LoadFails(i) ==
    /\ pc[i] = "loading"
    /\ ~ Usable(Current) \/ Malformed \in Range(listen[i])
    /\ Exit(i, "failure")

\* --check-config ends with what load_config says, and makes no client.
CheckEnds(i) ==
    /\ pc[i] = "checking"
    /\ Exit(i, IF files[Current].ok THEN "success" ELSE "failure")

Target(i) == listen[i][at[i]]

Socket(i, ip, port) == [by |-> i, n |-> at[i], ip |-> ip, port |-> port]

Held(sockets, ip) == {s.port : s \in {x \in sockets : x.ip = ip}}

\* With SO_REUSEADDR another such UDP socket on the address is no obstacle,
\* neither for a given port nor for the one the kernel chooses in place of 0.
BindUdp(i) ==
    /\ Goto(i, "binding", "half")
    /\ LET ip == Target(i).ip
       IN  \E port \in IF Target(i).port = 0 THEN Ports ELSE {Target(i).port} :
             udp' = udp \cup {Socket(i, ip, port)}
    /\ UNCHANGED <<files, exit, listen, at, tcp, signalVars, reloadVars>>

\* The port that the UDP socket of the address has got.
ActualPort(i) == (CHOOSE s \in udp : s.by = i /\ s.n = at[i]).port

TcpTaken(ip, port) ==
    \/ [ip |-> ip, port |-> port] \in ForeignTcp
    \/ port \in Held(tcp, ip)

\* Mutant: TCP is bound to the requested port, for which 0 is any.
BindTcpRequested(i) ==
    /\ Goto(i, "half", IF at[i] = Len(listen[i]) THEN "bound" ELSE "binding")
    /\ \E port \in IF Target(i).port = 0 THEN Ports ELSE {Target(i).port} :
         /\ ~ TcpTaken(Target(i).ip, port)
         /\ tcp' = tcp \cup {Socket(i, Target(i).ip, port)}
    /\ at' = [at EXCEPT ![i] = @ + 1]
    /\ UNCHANGED <<files, exit, listen, udp, signalVars, reloadVars>>

\* Mutant: SO_REUSEADDR taken to make a second listener possible.
BindTcpShared(i) ==
    /\ Goto(i, "half", IF at[i] = Len(listen[i]) THEN "bound" ELSE "binding")
    /\ tcp' = tcp \cup {Socket(i, Target(i).ip, ActualPort(i))}
    /\ at' = [at EXCEPT ![i] = @ + 1]
    /\ UNCHANGED <<files, exit, listen, udp, signalVars, reloadVars>>

\* A TCP listener excludes any other on its address, SO_REUSEADDR or not.
BindTcp(i) ==
    /\ Goto(i, "half", IF at[i] = Len(listen[i]) THEN "bound" ELSE "binding")
    /\ ~ TcpTaken(Target(i).ip, ActualPort(i))
    /\ tcp' = tcp \cup {Socket(i, Target(i).ip, ActualPort(i))}
    /\ at' = [at EXCEPT ![i] = @ + 1]
    /\ UNCHANGED <<files, exit, listen, udp, signalVars, reloadVars>>

\* Mutant: a TCP port in use is waited for.
BindWaits(i) ==
    /\ pc[i] = "binding"
    /\ Exit(i, "failure")

\* Any bind may fail (no such address, no permission), TCP also because it is
\* taken; what was bound so far is dropped.
BindFails(i) ==
    /\ pc[i] \in {"binding", "half"}
    /\ Exit(i, "failure")

Register(i) ==
    /\ Goto(i, "bound", "registered")
    /\ UNCHANGED <<files, exit, socketVars, signalVars, reloadVars>>

\* The reload task is spawned; when it runs first is up to the runtime.
Spawn(i) ==
    /\ Goto(i, "registered", "spawned")
    /\ reloader' = [reloader EXCEPT ![i] = "spawned"]
    /\ UNCHANGED <<files, exit, socketVars, signalVars, fresh, config, asked>>

Installs(i, s) == handlers' = [handlers EXCEPT ![i] = @ \cup {s}]

InstallTerm(i) ==
    /\ Goto(i, "spawned", "catching")
    /\ Installs(i, "TERM")
    /\ UNCHANGED <<files, exit, socketVars, pending, reloadVars>>

InstallInt(i) ==
    /\ Goto(i, "catching", "serving")
    /\ Installs(i, "INT")
    /\ UNCHANGED <<files, exit, socketVars, pending, reloadVars>>

\* The runtime is dropped when serve returns, and waits for a reload that is
\* under way: a task is only aborted where it awaits.
Idle(i) == reloader[i] \notin {"loading", "storing"}

InstallFails(i) ==
    /\ pc[i] \in {"spawned", "catching"} /\ Idle(i)
    /\ Exit(i, "failure")

\* Mutant: a stop is only heeded when no reload is due.
StopAfterReload(i) ==
    /\ pending[i] \cap {"TERM", "INT"} # {}
    /\ "HUP" \notin pending[i] /\ reloader[i] = "waiting"
    /\ Goto(i, "serving", "stopping")
    /\ UNCHANGED <<files, exit, socketVars, signalVars, reloadVars>>

\* The select returns for a signal, and both tasks are aborted.
Stop(i) ==
    /\ pending[i] \cap {"TERM", "INT"} # {}
    /\ Goto(i, "serving", "stopping")
    /\ UNCHANGED <<files, exit, socketVars, signalVars, reloadVars>>

\* shutdown_gracefully returns, and with it serve.
Shutdown(i) ==
    /\ pc[i] = "stopping" /\ Idle(i)
    /\ Exit(i, "success")

\* The select returns because the server's tasks have ended, with or without
\* an error; nothing is left to shut down.
ServerDone(i) ==
    /\ pc[i] = "serving" /\ Idle(i)
    /\ \E code \in {"success", "failure"} : Exit(i, code)

-----------------------------------------------------------------------------
(* Signals and the reload task.                                            *)

Alive(i) == pc[i] \notin {"off", "exited"}

\* A signal with a handler is remembered, once, until it is received.
Caught(i, s) ==
    /\ Alive(i) /\ s \in handlers[i]
    /\ pending' = [pending EXCEPT ![i] = @ \cup {s}]
    /\ asked' = IF s = "HUP" THEN [asked EXCEPT ![i] = Current] ELSE asked
    /\ UNCHANGED <<files, pc, exit, socketVars, handlers,
                   reloader, fresh, config>>

\* The default action of all three signals is to end the process.
Killed(i, s) ==
    /\ Alive(i) /\ s \notin handlers[i]
    /\ Exit(i, s)

\* The task runs until it is aborted, which takes effect where it awaits.
Polled(i) == Alive(i) /\ pc[i] # "stopping"

InstallHup(i) ==
    /\ Polled(i) /\ reloader[i] = "spawned"
    /\ reloader' = [reloader EXCEPT ![i] = "waiting"]
    /\ Installs(i, "HUP")
    /\ UNCHANGED <<files, pc, exit, socketVars, pending, fresh, config, asked>>

\* Without its handler the task ends: a reload is then not available.
InstallHupFails(i) ==
    /\ Polled(i) /\ reloader[i] = "spawned"
    /\ reloader' = [reloader EXCEPT ![i] = "none"]
    /\ UNCHANGED <<files, pc, exit, socketVars, signalVars, fresh, config, asked>>

\* hup.recv() returns.
ReceiveHup(i) ==
    /\ Polled(i) /\ reloader[i] = "waiting" /\ "HUP" \in pending[i]
    /\ reloader' = [reloader EXCEPT ![i] = "loading"]
    /\ pending' = [pending EXCEPT ![i] = @ \ {"HUP"}]
    /\ UNCHANGED <<files, pc, exit, socketVars, handlers, fresh, config, asked>>

ReadFile(i) ==
    /\ reloader[i] = "loading"
    /\ reloader' = [reloader EXCEPT ![i] = "storing"]
    /\ fresh' = [fresh EXCEPT ![i] = Current]
    /\ UNCHANGED <<files, pc, exit, socketVars, signalVars, config, asked>>

\* Mutant: signals that came in during the reload are taken as served by it.
StoreForgets(i) ==
    /\ reloader[i] = "storing"
    /\ reloader' = [reloader EXCEPT ![i] = "waiting"]
    /\ config' = [config EXCEPT ![i] = IF Usable(fresh[i]) THEN fresh[i] ELSE @]
    /\ pending' = [pending EXCEPT ![i] = @ \ {"HUP"}]
    /\ UNCHANGED <<files, pc, exit, socketVars, handlers, fresh, asked>>

\* Mutant: a file that parses is published, its clients made or not.
StoreParsed(i) ==
    /\ reloader[i] = "storing"
    /\ reloader' = [reloader EXCEPT ![i] = "waiting"]
    /\ config' = [config EXCEPT ![i] = IF files[fresh[i]].ok THEN fresh[i] ELSE @]
    /\ UNCHANGED <<files, pc, exit, socketVars, signalVars, fresh, asked>>

\* Mutant: a file that is refused leaves nothing to serve from.
StoreEmpty(i) ==
    /\ reloader[i] = "storing"
    /\ reloader' = [reloader EXCEPT ![i] = "waiting"]
    /\ config' = [config EXCEPT ![i] = IF Usable(fresh[i]) THEN fresh[i] ELSE Nothing]
    /\ UNCHANGED <<files, pc, exit, socketVars, signalVars, fresh, asked>>

\* The file that was read is published if it is accepted; `listen` in it is
\* ignored.
Store(i) ==
    /\ reloader[i] = "storing"
    /\ reloader' = [reloader EXCEPT ![i] = "waiting"]
    /\ config' = [config EXCEPT ![i] = IF Usable(fresh[i]) THEN fresh[i] ELSE @]
    /\ UNCHANGED <<files, pc, exit, socketVars, signalVars, fresh, asked>>

-----------------------------------------------------------------------------
\* What the main task does by itself.
Proceed(i) ==
    \/ Load(i) \/ CheckEnds(i) \/ LoadFails(i)
    \/ BindUdp(i) \/ BindTcp(i) \/ BindFails(i) \/ Register(i) \/ Spawn(i)
    \/ InstallTerm(i) \/ InstallInt(i) \/ InstallFails(i)
    \/ Stop(i) \/ Shutdown(i)

Reloads(i) == InstallHup(i) \/ InstallHupFails(i) \/ ReceiveHup(i) \/ ReadFile(i) \/ Store(i)

Next ==
    \/ Edit
    \/ \E i \in Instance : Start(i) \/ Proceed(i) \/ ServerDone(i) \/ Reloads(i)
    \/ \E i \in Signalled, s \in Signal : Caught(i, s) \/ Killed(i, s)

Spec == Init /\ [][Next]_vars

\* The runtime polls a task that can run; shutdown_gracefully comes to an end
\* because every request does (module Server).  Nobody has to start, signal or
\* edit anything.
FairSpec == Spec /\ \A i \in Instance : WF_vars(Proceed(i)) /\ WF_vars(Reloads(i))

-----------------------------------------------------------------------------
\* Queries that reach its sockets are answered.
Answering(i) == pc[i] \in {"registered", "spawned", "catching", "serving", "stopping"}

Places(sockets, i) == {[ip |-> s.ip, port |-> s.port] : s \in {x \in sockets : x.by = i}}

\* Every variable stays in its type: a socket belongs to a live process, a
\* signal is only waiting where it is caught, what is published is usable.
TypeOK ==
    /\ files \in [1 .. Current -> Contents] /\ Current \in Version
    /\ pc \in [Instance -> Point]
    /\ \A i \in Instance : at[i] \in 1 .. Len(listen[i]) + 1
    /\ \A s \in udp \cup tcp : /\ s.by \in Instance /\ Alive(s.by)
                               /\ s.n \in 1 .. Len(listen[s.by])
    /\ handlers \in [Instance -> SUBSET Signal]
    /\ \A i \in Instance : pending[i] \subseteq handlers[i]
    /\ reloader \in [Instance -> {"none", "spawned", "waiting", "loading", "storing"}]
    /\ fresh \in [Instance -> {Nothing} \cup Version]
    /\ config \in [Instance -> {Nothing} \cup Version]
    /\ \A i \in Instance : Answering(i) => config[i] # Nothing /\ Usable(config[i])
    /\ exit \in [Instance -> {Running, "success", "failure"} \cup Signal]
    /\ asked \in [Instance -> {Nothing} \cup Version]

\* Both transports are served wherever one is: every address has its UDP and
\* its TCP socket on one and the same port, the one asked for unless that was
\* 0.  A client whose UDP response was truncated can come back over TCP.
BothTransports ==
    \A i \in Instance : Answering(i) =>
        \A n \in 1 .. Len(listen[i]) : \E u \in udp, t \in tcp :
            /\ u.by = i /\ t.by = i /\ u.n = n /\ t.n = n
            /\ u.ip = listen[i][n].ip /\ t.ip = u.ip /\ t.port = u.port
            /\ listen[i][n].port # 0 => u.port = listen[i][n].port

\* No two instances answer on the same address, although SO_REUSEADDR lets them
\* both bind its UDP port: the TCP port that goes with it excludes one.
ExclusiveService ==
    \A i, j \in Instance :
        Answering(i) /\ Answering(j) /\ i # j => Places(udp, i) \cap Places(udp, j) = {}

\* What a process serves from is only ever replaced by a later version of the
\* file, because a SIGHUP was caught: neither a reload that fails, nor an edit
\* nobody announced, nor a second reload that reads what a first one already
\* has changes it.
ServedOnlyRenewed ==
    [][\A i \in Instance : Answering(i) /\ Answering(i)' =>
           /\ config'[i] >= config[i]
           /\ config'[i] # config[i] => Usable(config'[i]) /\ asked[i] # Nothing]_vars

\* An instance that is started where another one serves shares its UDP port,
\* and can swallow its queries, only for the moment until it fails.
SharedUdpEnds ==
    \A i, j \in Instance :
        (i # j /\ Places(udp, i) \cap Places(udp, j) # {})
            ~> (Places(udp, i) \cap Places(udp, j) = {})

\* A SIGHUP that is caught is not lost, also not in the middle of the reload
\* for an earlier one: some reload reads the file as it was then, or newer, and
\* publishes it if it can be.
ReloadNotLost ==
    \A i \in Signalled, v \in Version :
        (Alive(i) /\ asked[i] = v)
            ~> \/ fresh[i] >= v /\ (Usable(fresh[i]) => config[i] = fresh[i])
               \/ pc[i] \in {"stopping", "exited"}

\* A SIGTERM that is caught, even before the select that waits for it, ends the
\* process, however many reloads are asked for meanwhile.
StopHonoured ==
    \A i \in Signalled : ("TERM" \in pending[i]) ~> (pc[i] = "exited")

-----------------------------------------------------------------------------
\* packaging/panoptidns.service: "SIGHUP re-reads the config" - so it does not
\* end a process that answers queries.
HupReloads ==
    [][\A i \in Instance : Answering(i) => exit'[i] # "HUP"]_vars
=============================================================================
