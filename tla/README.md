# PanoptiDNS in TLA+

PanoptiDNS is an authoritative DNS server that holds no zone data: it
synthesizes the PTR record of every IPv6 address of its networks, and the AAAA
record of the name that PTR gave, from one template per network. This directory
models its own logic (everything under `src/src/` that keeps state or computes
an answer), checks it with TLC and proves the central facts with TLAPS.

Paths are given as in the repository (`src/upstream.rs` and so on).

## 1. Inventory

| Component | State | Operations | What makes it correct |
|---|---|---|---|
| Configuration parser, `config/parse.rs`, `config/error.rs` | raw directives and errors so far | one line after the other: record or report | no line is without effect; place and repetition are checked |
| Configuration compiler, `config/compile.rs`, `config/mod.rs` | the compiled `Config` | networks, templates, duplicates, order, global directives | what is accepted can be served without failing: every address has a name, every name one address; a fault stays with its zone |
| Nibble conversions, `nibble.rs` | none | address <-> reverse name <-> digits, dashed groups | inverse of each other, exact |
| Zone lookup, `zone/*.rs` | none | longest prefix, forward match, containment, `resolve` | most specific zone, full match, consistent answers across types |
| Answering, `Handler::decide` | none | class/type refusals, apex, answer, NXDOMAIN, out of zone | authoritative bit and SOA agree with the zones |
| Upstream client, `upstream.rs` | circuit breaker (mutex), semaphore, deadlines | `lookup_ptr`, `is_open`, `record_*` | never queues, never leaks a permit, always returns; the breaker opens for a reason and closes again |
| Relay filter, `filter_upstream` | none | allowlist, cap, TTL clamp | only PTR records of the asked name |
| Rate limiter, `rrl.rs` | two keyed bucket stores (`governor`), slip counter | `decide`, `sweep` | rate bound per prefix and kind, bounded memory, regular truncated replies |
| Request lifecycle, `server/handler.rs` | per task: where it is, the configuration it loaded | `handle_request`, `send`, `servfail` | one packet at most, always an end, drops stay drops |
| Reload and sweep tasks, `main.rs` | the published configuration (`ArcSwap`) | SIGHUP, 10 s ticker | a bad file changes nothing |
| Startup, signals, shutdown, `main.rs`, `server/bind.rs` | sockets, signal handlers | load, bind, register, spawn, select, exit | both transports on one port, one server per port, no signal lost |
| Health check, `main.rs` | none | one query, one answer | (not modelled) |

**Interaction.** Every request is a task of the tokio runtime. It loads the
published configuration once, runs `decide` on it, may await `lookup_ptr` on that
configuration's upstream client, then asks the limiter, which all tasks share,
and sends; `send` loads the configuration again for the size in the OPT record.
The reloader task replaces the configuration under the running requests; with
it come new upstream clients, while the limiter stays the one of the start. The
sweep task forgets idle buckets under the running requests. A second instance on
the host meets the first only through the kernel's ports and the file on disk.

**What is hard.** The breaker and the semaphore are separate critical sections,
so lookups overlap a trip, an expiry and a reload; an answer may arrive after
newer timeouts; a request may panic or be unable to send; sweeps fall between
the steps of `decide`; a counter wraps; signals arrive before, between and after
the steps of startup and of a reload; and the zone code is arithmetic on widths,
with a load-time check that must cover every later query.
`PROJECT.json` lists each hazard with its line and the properties aimed at it.

## 2. Modules

| Module | Models | Role |
|---|---|---|
| `Upstream` | `upstream.rs` and the per-reload clients of `Zones::new` | component |
| `LookupContract` | what callers of `lookup_ptr` may rely on | abstract specification |
| `UpstreamHistory` | `Upstream` and a count of timeouts in a row | observer |
| `Rrl` | `rrl.rs` and the sweep task of `main.rs` | component |
| `TokenBudget` | plain token buckets that are never forgotten | abstract specification |
| `RrlHistory` | `Rrl`, a measured window of time, and the response a task holds back | observer |
| `Nibble` | `nibble.rs` | operators |
| `Zone` | `config/compile.rs`, `FwdTemplate`, `zone/lookup.rs`, `zone/synth.rs` | operators |
| `Relay` | `upstream_qname`, `filter_upstream` | operators, extends `Zone` |
| `Authority` | `resolve`, `Handler::decide`, what startup and reload publish | component, extends `Relay`, `Zone`, `Nibble` |
| `ConfigParse` | `config/parse.rs`: the directives, and what a line of each does | operators and actions |
| `ConfigLoad` | `Config::parse`: parser, then `config/compile.rs` stage by stage | component, extends `ConfigParse`, `Zone` |
| `Lifecycle` | `main.rs`, `server/bind.rs`: processes from command line to exit | component |
| `Server` | `handle_request` to the packet, with reloads and sweeps | composition of `Rrl` and `LookupContract` |
| `ServerHistory` | `Server` and a count of the replies on the wire | observer |
| `UpstreamProofs`, `RrlProofs`, `ServerProofs`, `LifecycleProofs`, `AuthorityProofs`, `ConfigLoadProofs` | | theorems about the component of that name |
| `NibbleProofs`, `ZoneProofs` | | lemmas about the operators of `Nibble` and `Zone`, for the last two |
| `MC*` | | instances for TLC |

### How state and actions correspond to the code

*Upstream.* `breaker`, `permits` are the mutex's content and the semaphore;
one of each per client, and clients are numbered by the reload that made them,
because `Zones::new` builds an `Upstream` afresh. `CheckBreaker` is `is_open`,
`AcquirePermit`/`Saturated` the two outcomes of `try_acquire_owned`, `LookupDone`
the two `Ok` arms (both record a success), `Elapsed` the `Err` arm, `Return` the
drop of the permit, `Unwind` a panic below the await. An `Instant` is the number
of ticks left until it. The timeout races the answer: `LookupDone` stays possible
after the timer has run out, as tokio polls the lookup before the deadline.

*Rrl.* `bucket` maps a kind and a client key to the cells left, or `Untracked`;
`Grant`/`Exceed` are the two outcomes of `check_key`, `Suppress` the `fetch_add`
with the decision it leads to, a step of its own because tasks overlap between
the two. The sweep visits the two stores in two steps. `governor` is external:
assumed is that a check of one key is atomic and that `retain_recent` removes
only buckets that cannot be told from new ones. A tick is the time that
replenishes one cell.

*Nibble, Zone, Authority.* An address is the function of its nibbles, so that
masks, reverse names and digit strings are re-indexings. A label is a sequence
of symbols: digits and dashes are symbols of their own, other text is not taken
apart. An `Option` is a set of at most one member and a `Vec` a sequence. Names
are case-folded. `num_labels` is hickory's (external): by its documentation it does
not count an asterisk in front. An operator with the name of a Rust function is that function.
`config` is what the `ArcSwap` holds; `Reload` and `ReloadFails` are the two arms
of the reloader's `match`. What an upstream answers is an input of `Decide`, from
a set of sequences of records; the TTLs of synthesized records are left out.

*ConfigParse, ConfigLoad.* A line is the sequence of its words and a value what
follows the keyword; a line whose first word is in `Comment`, the words that begin
with "#", is skipped; what the text of a value parses to (a network, a number, a
name) is given by constant operators. `ReadLine` is one turn of the loop of
`parse`, with one disjunct for each way a turn can end; then `CompileListen`,
`CompileGlobals`, one `RejectZone` or `CompileZone` per zone, and `Finish`, all
adding to one list of errors. `Zone` says of a sequence of zones whether it is
accepted and what it becomes in one step, which is what `Authority` publishes;
`ConfigLoad` is how the code gets there, and `LoadAgrees` that the two agree.

*Lifecycle.* `pc` is where `serve` is, `reloader` where the reload task is. Each
bind is a step, because other processes bind in between. `handlers` are the
signals whose default action is gone; a signal in it is remembered once in
`pending` (`Caught`), one that is not in it ends the process (`Killed`). A reload is
three steps (`ReceiveHup`, `ReadFile`, `Store`) between which the file may be
edited and more signals come in. `files` is the history of the file, so that
`fresh` and `config` are version numbers. Of the kernel it is assumed that UDP
sockets with SO_REUSEADDR may share a port and TCP listeners may not.

*Server.* `pc` follows a task through `handle_request`; the limiter's actions are
those of `Rrl` and the lookup's those of `LookupContract`, used through INSTANCE,
so nothing of them is modelled twice. A request is reduced to what its path
depends on: well-formed, standard, TCP, with an OPT, its address, the kind of its
answer and whether it is a PTR. `SendFails` stands for a `send_response` that
sent nothing; `Panic` for whatever `catch_unwind` catches.

Operators whose comment begins with "Mutant:" are used by nothing: each is the
definition that follows it with one plausible mistake, and `PROJECT.json` names
the property that must notice it.

## 3. Runs

| Run | Bounds | Shows |
|---|---|---|
| `upstream` | 3 tasks, 2 permits, threshold 2, cooldown 2, timeout 1, 1 reload | permits conserved, breaker coherent, failures bounded, trips justified, cooldown never extended, an open breaker drains and closes again; `LookupContract` is implemented, liveness included: every lookup returns |
| `rrl_window` | 2 tasks, one prefix, both kinds, burst 2, slip 3, counter 5, windows of 3 ticks | rate bound in every window, sweeping invisible and no response held back unless its own bucket is empty (refinement of `TokenBudget`), slip kept across the wrap |
| `rrl_sweep` | every address of 2-bit IPv4 and 3-bit IPv6, IPv4 prefix 0 | a response is charged to exactly the clients of its prefix; unused buckets are forgotten |
| `authority` | addresses of 5 nibbles with 2 values, groups of 2, all files of one or two zones from 4 networks and 8 patterns, all mistakes, served types, transfers, three classes, foreign answers with every kind of record that must not pass | the properties of configurations and answers; an upstream changes nothing but PTR answers of its zones, and only by records vouched for |
| `config_load` | every file of up to 3 lines from 30, and of up to 5 from the 7 about zones | loading accepts exactly the files acceptable as a whole, no line is without effect, faults stay with their zone |
| `server` | 2 tasks, 4 kinds of request, burst 1, slip 2, 1 permit, 1 reload, 1 tick | one packet with an OPT never from an older configuration, rate bound on the wire, every request ends |
| `lifecycle` | 2 instances, one of them signalled, 4 contents of the file, 1 edit, 2 ports of which another program has one for TCP | both transports on one port, no two instances answer on it, what is served changes only to a later accepted file after a SIGHUP, a shared UDP port ends, caught SIGHUPs and SIGTERMs take effect |
| `zone_nxdomain`, `zone_shadow`, `zone_root`, `server_switch`, `lifecycle_hup` | as above, smallest input | violations, section 5 |

**Why these bounds are enough.** Three tasks on two permits let one lookup be admitted,
one be in flight and one be turned away at a time, and with a threshold of two one
failure can arrive after the trip. One reload gives two clients, and further ones add
only copies. A counter of 5 with slip 3 wraps in the middle of a round; the tasks of
`rrl_window`, all whose properties are safety, are symmetric. TLC tries a client prefix
of none and of part of an address; full and over-long ones are covered by the theorem.
Five nibbles leave room for nested networks with an even and an odd number of host
digits, two groups of a dashed template and a digit ("a") that is also a letter; label
and name limits (8, 18) are such that some template fits one network and not a wider
one. Three lines are enough for any directive to stand before, between and after two
others, five for two zones with a repeated or broken line in either. Two instances are
enough for every pair on a port; with one edit a signal, the reading and the publishing
can each fall before or after a change of the file. Constants that are bounds only:
`MaxReloads`, `MaxElapsed`, `MaxEdits`, and `MayFollow` (`Bounded` in the run) for the
length of a file.

**Fairness.** `Upstream`: time passes, and a task that can run is polled (its
breaker check, its permit, its return, its timeout); that an upstream answers,
that a query arrives or an operator reloads is never assumed. `Rrl`: time passes,
the sweep ticker fires, a task finishes `decide`. `Server`: each task
goes on, which for the awaited lookup is what `ImplementsContract` establishes.
`Lifecycle`: the main task and the reload task go on, and the graceful shutdown
ends; that anyone starts, signals or edits is never assumed. All are weak
fairness, which is what the tokio runtime gives: none of these steps waits for a
resource that others keep taking (the semaphore is only tried).

Deadlock is checked except in `config_load` and `lifecycle`, where loading ends and
processes exit.

## 4. Proofs

Every invariant and every action property that a passing run checks is also a
theorem, proved for all values of the constants; what remains with TLC is liveness
(end of this section).

**`UpstreamProofs`**, for every finite set of tasks and all positive parameters:
`TypeCorrect`, `PermitsNeverLeak`, `BreakerStaysCoherent`, `FailuresStayBounded`,
`TripTheorem`, `CooldownTheorem`, `OpenDrainsTheorem`, `ContractSafety`. The inductive
invariant `IInv` is the conjunction of the invariants; they need the type invariant,
and `FailuresBounded` in particular is inductive only in its form with the lookups
still outstanding (a timeout moves one from that set into the count; the bound on the
count alone does not survive a step), and needs `BreakerCoherent` to know that whatever
is newly admitted finds a count below the threshold. `TripTheorem` adds that the
timeouts in a row counted by the observer cover the breaker's own count
(`StreakCovers`). The two action properties follow from `IInv`, one step of the proof
per action. `ContractSafety` is the refinement: `Send` needs `PermitsConserved` to turn
"a permit is left" into "fewer than MAX_INFLIGHT are in flight".

**`RrlProofs`**: `TypeCorrect`, `RateTheorem`, `SlipTheorem`, `BudgetRefinement`,
`PrefixTheorem`. The rate bound becomes inductive as `BudgetConserved`, which counts the
cells a bucket still has as part of the budget; that a sweep preserves it is the fact
that only full buckets are forgotten. `BudgetRefinement` maps what the tasks hold back
as well as the cells, so a refusal of the abstract buckets is of the response's own bucket.
`SlipTheorem` rests on an invariant that ties the
drops since the last truncated reply to the counter modulo slip, with a case for the
wrap-around. `PrefixTheorem` (the action property `ChargesPrefix`) is arithmetic: two
numbers of w bits agree on their first j bits if and only if they are equal when shifted
right by w - j. That is an induction on j, done as a least counterexample
(`LeadingBits`), because the library's induction rule cannot be instantiated here.

**`ServerProofs`**, for any tasks, requests, settings and reloads: `ServerTypeCorrect`,
`LookupTheorem` (`NoLookupLeft`, proved without a run of its own), `PacketTheorem` (`OnePacket`), `WireRateTheorem`
(`WireRateBounded`) and `ObserverTransparent` (every behaviour with the observer is one
without). The inductive invariant `SInv` is the conjunction of the three invariants and
`Unsent`: before its end a request has sent nothing and has no OPT record decided, and the
configuration it loaded is no newer than the published one. The rate on the wire is not
inductive: a reply is charged in one step and sent in another, so `WireInv` counts the
replies charged and not yet sent beside those sent and the cells left.

**`LifecycleProofs`**, for any number of instances, ports and edits: `TypeCorrect`,
`TransportTheorem` (`BothTransports`), `ExclusiveTheorem` (`ExclusiveService`),
`RenewalTheorem` (`ServedOnlyRenewed`). The invariant has three parts. `Sockets` is what
`bind_all` has bound so far: an instance has exactly the UDP sockets of the addresses it
has got to, each on the address and port asked for and, except for the one just bound,
with the TCP socket of the same address and port, and two TCP sockets on one place are
of one instance. `Control` is what signals and reloads have done: only a caught signal
is pending, a reloader about to store has a version to store, and what an instance
serves is a usable version of the file. `Renewal` is where reloads come from: what is
published is not newer than what was read last, and a reload that is due or under way
goes back to a SIGHUP that was caught.

**`AuthorityProofs`**, with `NibbleProofs` and `ZoneProofs` below it, for addresses of
any number of nibbles, any digits, group width and limits, any files and any foreign
answers: `ZoneTypes` (`TypeOK`), `ReverseTheorem`, `NamedTheorem` (`AddressNamed`),
`ExactTheorem` (`ForwardExact`), `PrefixTheorem` (`LongestPrefix`), `TwoQueriesTheorem`
(`PtrThenAaaa`), `AuthoritativeTheorem`, `NegativeTheorem`, `ConfinedTheorem`,
`VouchedTheorem`. The invariant is `AlwaysSound`: the published configuration was
compiled from an acceptable file. `Sound` says that its zones are in descending order of
mask, and of each that its mask is a multiple of a nibble, its prefix is clear below the
mask, its template has one digits label, and the widest name it can render is
representable. Everything else follows from that one state and the operators: the
conversions are inverse to each other (`PtrRoundTrip`, `PtrExact`, `DashRoundTrip`,
`DashExact`), a name rendered from the host part of an address matches and gives the
address back and nothing else does, unless the template begins with an asterisk
(`ForwardRoundTrip`, `ForwardMatchExact`), every name is at most as long as the widest
(`AllFit`), and the stable sort keeps the zones and puts the longest prefix first
(`SortedByMask`). `PtrThenAaaa` has no hypothesis on how the zones lie: where the name
that a PTR gives is not answered with its address, the zone in front that takes it is no
less specific (`MatchedBefore`). `AuthoritativeInside` covers the transfers and foreign
classes that `decide` refuses without authority, inside a zone too.

**`ConfigLoadProofs`**, for any set of lines, files of any length, and whatever texts parse
to: `TypeCorrect`, `FaultsTheorem` (`FaultsStayLocal`), `IgnoredTheorem` (`NoLineIgnored`),
`LoadTheorem` (`LoadAgrees`).
* `Typed` is the type of everything that is recorded, reported and compiled, with the
  lines it came from; the others need it.
* `FaultsTheorem` rests on `Judged`: each zone before `at` was reported on a line of its
  own, or compiled, or repeats another, and what the maps have seen is of such zones.
* `IgnoredTheorem` counts, for a line, five sets (listen values, globals, networks, slots,
  errors of parse): one of them gets one member when the line is read (`Fresh`), and no
  later step changes any.
* `LoadTheorem` has three parts. *Lines*: a file stays well-formed with a further line if
  and only if the line `Fits` those before it (`ExtendForm`), the parser reports a line if
  and only if it does not fit, and while nothing is reported the record is `Faithful`:
  each value stands where its line puts it, and zone k is what the k-th block of the file
  says. *Stages*: as long as there is no error every zone so far is compiled and
  remembered (`Remembered`), so the maps, which know compiled zones only, are as good as
  all zones before; hence there is no error if and only if the file is good up to the
  stage reached (`GoodSoFar`). *Meaning*: what is good of a faithful record is what
  `FileOK` asks of the lines, and the recorded zones are `BlockZones`.

**Assumptions.** The named ASSUMEs, which TLC evaluates in the runs: signs and sizes of
the parameters; `AddrAssumption` and `WidthAssumption` (addresses have their width);
`HexAssumption` (digits are distinct and none is a dash or an asterisk), `CommentAssumption`
(no directive begins like a comment), `RelayAssumption`; that the
inputs which a constant enumerates are of their type (`FilesAssumption`,
`ForeignAssumption`, `NamesAssumption`, `ListenAssumption`, `SignalAssumption`,
`RequestsAssumption`, `SettingsAssumption`, `LinesAssumption`, `NetworkAssumption`);
`DefaultAssumption` (a default is in the range of its setting). Two state what is true
of the language and unknown to the provers: `TextAssumption` (the strings used as labels
are strings) and `PowerAssumption` (2^(n+1) is twice 2^n, up to the width of an address).

**Only model-checked.** Liveness, which is out of the prover's reach: `UpstreamRetried`,
`QuietForgotten`, `RequestEnds`, `SharedUdpEnds`, `ReloadNotLost`, `StopHonoured`, and the
fairness part of `ImplementsContract`. The violations of section 5 are
counterexamples, found by TLC.

## 5. Where the code and its documentation disagree

* `NxdomainMeansNothing`: other types than PTR and ANY at a full reverse name are
  NXDOMAIN although the PTR exists; NODATA would be in line with the comments.
* `NotShadowed`: the duplicate check compares the text of patterns, so a trailing
  dot gets around it.
* `ReverseNotClaimed`: a pattern of only the placeholder makes the root an apex.
* `RrlSwitchHonoured`: `rrl` directives are not reloaded, although the reload logs
  that rate limiting is now disabled.
* `HupReloads`: the SIGHUP handler is installed by a spawned task, some time after
  the server has begun to answer; a SIGHUP before that ends the process instead of
  reloading it. Under systemd (`Type=simple`) nothing holds a reload back until then.
  As PID 1 of a container, where the kernel ignores unhandled signals, it would be
  lost instead.

Noticed and not a run: `panoptidns.conf.example` says of zones under one parent that
"they are told apart by the literal text around %DIGITS%", but `h%DIGITS%` and
`ha%DIGITS%` are both accepted and share names when the first network has one digit
more; the AAAA then comes from the zone in front. `PtrThenAaaa` admits exactly that
case. A template that begins with the label `*` is not matched by the names it renders,
but by them with one label more behind, because `match_zone_forward` compares
`num_labels` with the template's full count; this rests on what hickory documents of
`num_labels`, and `AddressNamed`, `ForwardExact`, `PtrThenAaaa`, `AuthoritativeInside` and
`NegativeCacheable` are about all other templates. An NS query at an apex with no `ns` directive is NODATA without
the SOA that the migration guide promises (`NegativeCacheable` excludes the apex
replies). The loader is said to report every problem of a file at once (`config/mod.rs`,
`Config::parse`), but `compile_zone` returns at the first problem of a zone, so a second
one shows only when the first is fixed (`FaultsStayLocal` says what holds: each broken
zone has an error). When `primary` is invalid and `hostmaster` is not, the error that
`primary` is missing points at the line that has it. A repeated `rrl off` is not
reported, unlike any other repeated directive. The bound of 64 lookups is per client,
and a reload makes new clients while the old ones still have lookups in flight, so for a
moment an upstream address may see more; `handler.rs` speaks of one atomic load per
request where a request with EDNS makes two (`OnePacket` says what still holds). NOTIMP,
BADVERS and SERVFAIL replies are not charged to the limiter. A resolver error that
arrives before the outer deadline, the resolver's own timeout included, counts as a
success of the upstream.

## 6. Not modelled

How the text of a value is taken apart (addresses, numbers, names) and how errors
are worded and underlined, except for the line they point at; logging; message
encoding; the TTLs of synthesized records; the resolver's cache; the web site and
the packaging. The health check: one packet and a timeout, without state. It is charged to
the negative bucket of 127.0.0.0/24, and a truncated reply counts as an answer; since
the slip counter is one for all clients, `SlipKept` does not promise it one. The edges
of the ranges of numeric directives are constants, the same for the loader and for what
it is compared with.
A poisoned breaker mutex (nothing inside its critical sections can panic). The
`NotUtf8` error, which cannot arise: the input is already a `str`.

## 7. Plan

Done: all components of the inventory but the health check are modelled and checked, and
each invariant and action property that holds is proved. What is left:

1. From a file to answers: that `ConfigLoad` hands over only zones that are `Sound` in
   the sense of `AuthorityProofs`, as one theorem about what is loaded and then served.
2. What the liveness properties rest on and can be stated as safety: that every step of
   a request decreases its distance from the end (`Server`), that nothing but time stands
   between an admitted lookup and its return (`Upstream`), and that a caught signal stays
   pending until it is taken (`Lifecycle`).
3. Lemmas that `RrlProofs` and `NibbleProofs` both need (quotient and remainder) in one
   module.
