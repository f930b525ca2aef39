# POKROV core: a verification project

This directory models the control logic of the POKROV core in TLA+, checks it
with TLC on small instances and proves its central safety properties with
TLAPS for every value of the constants. Paths below are relative to the
repository root.

## The system

POKROV core is a VPN runtime: a fork of the sing-box engine with a core library
around it, driven by a host application through a C, mobile or gRPC interface.
The logic of its own that is worth a model is about *ownership in time*: who
owns an engine while it starts, stops and is cancelled; who owns a socket when
the lease behind it ends; what a crash may forget about a restriction.

| Component | State | Operations | Interacts through |
|---|---|---|---|
| Core lifecycle, `v2/hcore` | `static`: CoreState, StartedService, one mutex | Start, StartInterruptible, Stop, Restart, panic recovery | calls the engine owner; called by ABI, gRPC server, Linux daemon |
| Engine owner, `engine/sing-box/daemon/started_service.go` | status, current instance, `closed`, one mutex | StartOrReloadService, CloseService, Close, SetError | creates, starts and closes Boxes; its status is observed by streams |
| Box, `engine/sing-box/box.go` | context, `done`, its managers | Start, Close | cancelled through its context by the owner |
| ATS lease outbound, `protocol/pokrov/atslease` | window, revocation flags, registered flows | Start, DialContext, ListenPacket, Read, Write, Revoke, Close | wraps a vless outbound; revoked by the host through the owner |
| SmartAccess outbound and runtime control, `protocol/pokrov/smartaccess`, `daemon/smart_access*.go` | lease generations, quotas, restriction journal on disk | dial, renew, revoke, probe, renewal poll | host configuration, HTTP control endpoint |
| SmartAccess relay breaker and service group, `smartaccess/relay_connect.go`, `service_group.go` | failures, cooldown and epoch of each relay; selection, rule windows, readiness receipt | reserve, complete; select, probe readiness, guard | flows of the outbound; DNS and route rules |
| Local DPI outbound, `protocol/pokrov/localdpi` | holder: published, failed or withdrawn, its identity, its flows | admit, dial, fail, withdraw, retry once, Close | proof and retry by the engine owner; fallback to the VPN |
| Telegram WS outbound, `protocol/pokrov/telegramws` | admission, flows, one-use preparations | register, bind, take; dial, fall back, deny, Close | signed catalogs, the VPN outbound it falls back to |
| Event emitter, `internal/observability` | sink, generation, sequence, queue of 128 | SetSink, Configure, CaptureContext, emit | every component emits; a worker delivers to the host |
| Candidate probe, `v2/hcore/candidate_probe.go` | registry of running probes | probe, cancel | temporary engine instances |
| Linux daemon, `v2/hcore/linux_*` | connect deadline, health, promotion | prepare, connect, promote, status, revoke, stop | core lifecycle, health checks, the pipe to linuxd |
| Configuration builder, parsers, database, service manager, gRPC server, bindings | no or trivial state | translation, storage, transport | - |

What makes each component correct:

- *Core lifecycle*: the engine that runs is the one Stop reaches, the published
  state describes it, a lock and a callback never outlive their call.
- *Engine owner*: no engine is left open without an owner; `Close` is final and
  reaches every engine; a status read by others implies what they rely on.
- *Box*: a Box that failed or was cancelled has released everything it started.
- *ATS lease*: no connection, byte or socket outlives the lease, whatever the
  clocks and the upstream do.
- *SmartAccess control and journal*: a restriction that took effect is never
  forgotten and never undone by a renewal. *SmartAccess outbound*: a result of
  an old lease never changes a new one, quotas are kept and return to zero.
- *Relay breaker*: one half-open dial at a time, and a late answer neither closes
  a breaker nor keeps its place. *Service group*: a receipt that says pass rests
  on evidence that still holds.
- *Local DPI and Telegram*: no local stream before the proof or after the
  withdrawal, and an ending closes what it owns and leaves the VPN's streams
  alone. *Preparations*: an instance starts with what was registered, once.
- *Emitter*: every number of a generation is delivered or counted as lost, an
  old context tells nothing about a new attempt, emitting never blocks.
- *Candidate probe*: nothing of a probe outlives its call, a cancellation by
  identifier hits the call that has it, the verdict is final.
- *Linux daemon*: an attempt is promoted or expires, never both, and whatever
  ends the loop stops the core.

What is hard in it: mutexes that are released around long operations; contexts
that cancel an operation from another goroutine; cleanups that run twice; late
answers of dials after a revocation; clocks that are set back; panics whose
recovery runs outside the lock; crashes and failed writes between applying a
restriction and recording it. `hazards` in `PROJECT.json` lists them with
their lines.

## Modules and code

Each component module has its specification, its properties and, in front of
the definitions they alter, the faulty variants (`Bug...`) that show each
property can fail. `*Proofs` modules hold inductive invariants, lemmas and theorems. `map` in
`PROJECT.json` gives the lines of every definition.

`MC*` modules name finite sets and bounds. Four of them also put components that
share no variable into one run: `part`, chosen in the initial state, names the
component whose steps a behaviour takes while the others stay as they begin. An
invariant, a step property or a fairness condition of one component reads
only its own variables, so the runs of the parts lose nothing against separate
ones; they say nothing about interaction between the parts, and none is
claimed. An MC module EXTENDS one component and INSTANCEs the others with their
variables renamed, and gives their properties names of its own.

| MC module | Parts |
|---|---|
| `MCEngine` | `service` (StartedService), `box` (Box), `events` (Emitter) |
| `MCCoreLifecycle` | CoreLifecycle |
| `MCHost` | `daemon` (LinuxDaemon), `probe` (CandidateProbe) |
| `MCLeases` | `ats` (ATSLease), `smart` and `wall` (SmartAccess with a straight and with a stepped wall clock), `relay` (RelayConnect), `group` (ServiceGroup) |
| `MCOffload` | `prepare` (Preparations), `tcp`, `quic`, `batch` (LocalDpi), `telegram` (TelegramWS), `graph` (FallbackGraph) |
| `MCRestrictionJournal` | RestrictionJournal |

### StartedService (`daemon/started_service.go`, `daemon/instance.go`, `box.go`)

`access`, `closed`, `status` and `instance` are the fields of the struct;
`created`, `cancelled`, `boxClosed` and `running` say what became of each
instance. `startOrReloadServiceImp` is cut where it releases the mutex:
`StartFresh` or `ReloadBegin`, `ReloadCancelOld`, `ReloadCloseOld`,
`ReloadRelock`, then `BoxStart` outside the mutex and `Settle`. `CloseService`
and `Close` keep the mutex from `CloseServiceBegin`/`DisposeBegin` to their
`End`, while a start goes on beside them. Every stage of a start and every
component of a close may fail. A Box is open or closed here; what its Start and
its Close do beside each other is `Box`.

`EngineSlot` is the abstract specification of an owner of engines: a slot that is
empty or holds one open engine, filled only when it is empty, with an engine never
used before, and not at all after it was disposed of. `StartedServiceProofs`
maps the slot to the instances that are created and not closed,
`CoreLifecycleProofs` to the live services of `v2/hcore`.

### Box (`box.go`, `adapter/{outbound,endpoint,inbound,service,certificate}/manager.go`)

`starter`, `at`, `todo` and `begun` are the walk of `Start` through its plan of
stages; `started`, `stage`, `listed`, `lock` and `open` are the managers and their
members; `done`, `closer`, `turn`, `job`, `left` and `gaveUp` are `Close`, whose
test and close of `done` are two steps and which waits at most ten seconds for
each manager. A manager copies its list under the lock and works without it.
`Managers` are the code's five, `StartPlan` and `ClosePlan` the orders in which
`Start` and `Close` visit them.
`Serialized` says whether `Close` is called only when no `Start` runs (as
`v2/hcore` does after a start returned) or beside one (as `CloseService` does).

### Emitter (`internal/observability/emitter.go`)

`Configure` opens a generation, `Capture` remembers one, `Emit` stamps under the lock
and `Queue` offers to the channel afterwards, dropping when it is full; `Take`,
`ReadSink` and the sink's return or panic are the worker. `log` and `lost` are
the histories the counters count.

### ATSLease (`protocol/pokrov/atslease/outbound.go`)

Two clocks, the signed window, the flags of the outbound and, for each flow,
registration, context, attachment and upstream socket. `begin` admits;
`UpstreamReturns`/`DialFailed` and `finishDial` complete a dial, late ones
included; `ReadBegins`, `ReadDelivers` and `Refused` surround the wait in the
upstream; `DialDeadline` and `FlowTimer` are timers; `Drain`, `Terminate` and
`Close` are the revocations, whose closing of flows (`RevokeCloses`,
`CloseTail`) happens after the mutex was released. `Tick` moves both clocks,
`StepWall` sets the wall clock to anything. The upstream is external. A write
makes the checks of a read and takes no further step; `ConfirmLease` reads only.

### LeaseGate, ATSLeaseGate, SmartAccessGate

`LeaseGate` is the abstract specification of a leased outbound: gates that only
close further, flows that pass open ones only, and departures it insists on.
`ATSLeaseGate` maps the ATS outbound to one gate: a flow belongs to it while it
is registered, and the gate's position follows from the flags and the monotonic
deadlines. `SmartAccessGate` maps the SmartAccess outbound to a gate per lease.
The two-step closes, timers and late dials of both are stutters or steps of it.

### SmartAccess (`protocol/pokrov/smartaccess/outbound.go` and `flow.go`)

`lease` is the current authority, `leases` those still known, `hRevoked`,
`hTerminate`, `smartRevoked`... the latches of the outbound and of each lease,
`age` the monotonic clock per lease. A flow asks for admission three times
(`newConnection`, `Dial`, `FinalAdmission`), each under the mutex, and is
interrupted in between by `Revoke`, renewals, `FlowTimer` and its own
cancellation. `RevokeCloses` and `CloseTail` are the closes after the unlock.

### RelayConnect and ServiceGroup (`smartaccess/relay_connect.go`, `service_group.go`, `service_readiness.go`)

`RelayConnect` is the breaker: `Reserve` and `Complete` under the mutex, the dial
between them outside, `epoch` in the ticket of each dial. Instants become counts
of failures and attempts still in their window. `ServiceGroup` is the selection
among members and the readiness probe, which takes and releases the group's mutex
many times; the tests between two critical sections may go either way, so the
properties rest on what is tested under the mutex. The three modules of the
SmartAccess outbound stand for one another by nondeterministic steps (a quota
may refuse, a lease may stop admitting); they are not composed.

### CoreLifecycle (`v2/hcore/start.go`, `stop.go`, `restart.go`, `interruptible_start.go`, `custom.go`, `service.go`)

`lock`, `CoreState` and `StartedService` are the fields of `static`; `made`,
`live` and `dead` say which services exist, are open, and have a cancelled
context; `pc`, `goal`, `cancelled`, `observing`, `failed`, `own` and `seen`
belong to the calls. A start is `StartRefused`, or `StartEnter`, `StartBuild`,
`StartNew`, `StartPublish`; a failure runs `ErrorWrapper`; a stop is `StopEnter`,
`StopClose`; `Finish` and `Join` end a call and wait for the observer goroutine
(`ObserverCancels`, `ObserverLeaves`). `Panic` can happen in each phase under
the lock. Deferred functions run in reverse order, so the lock is released
before the handler runs: the `Recover*` steps interleave with other calls. So
does `StopAndAlert`, which the panic handlers of other exported calls run
without the lock. The inner service is one object here (open or closed); its
own life is `StartedService`.

### CandidateProbe (`v2/hcore/candidate_probe.go`)

A call registers, starts its watcher, builds and starts a temporary Box, starts
its closer, probes, and then runs its deferred functions in their order:
`Freeze`, `JoinCloser`, `CloseInstance`, ... `Unregister`. `Cancel` by
identifier, the interruption callback and the deadline arrive at any point.
The profile's translation and the two requests are outcomes.

### LinuxDaemon (`v2/hcore/linux_daemon_linux.go`, `linux_connect_deadline_linux.go`)

Three goroutines: the serving one with its command loop and deferred stop, the
reader that checks each line, the watcher of the deadline that wakes every
100 ms. Shared are the context, the atomic limit and the promotion mutex. The
core is on, off or between; results of health checks, of the preparation, of the
clock and of writes to the pipe are outcomes.

### LocalDpi (`protocol/pokrov/localdpi/{outbound,conn,runtime_retry}.go`, `daemon/routing_catalog.go`)

A holder is unpublished, published, failed, withdrawn or replaced, with an
identity that a retry renews. A flow waits for the proof, dials the local path or
the VPN, is attached, and may fall back with the bytes it has. Dials, closes and
failure reports run outside the holder's mutex and meet what it has become.
`RuntimeRetry` replaces all holders of the instance at once, one time.

### TelegramWS, Preparations, FallbackGraph (`protocol/pokrov/telegramws/{outbound,conn,admission}.go`)

`TelegramWS`: the admission can only be closed, by whoever notices its end; the
cleanup it starts runs without the mutex beside flows that read, dial, attach or
transfer to the VPN. `telegramFlow.close` is two steps: `MarkClosed` sets
`f.closed` under the flow's mutex, `CloseTail` cancels and closes after the
unlock, and `tail` names the caller in between (the flow's own `finish`, its
AfterFunc, the cleanup of a denial, `Close`). A second caller returns at once
and joins nobody. So the cleanup and `Outbound.Close` may return while a gateway
is still open: `StreamsEndWithAdmission` and `ClosedIsEmpty` say that such a
gateway belongs to a flow somebody else has marked and is about to close, and
`StreamsClose` that it is closed in the end. Callers that need the sockets gone
when `Close` returns cannot rely on it. `Preparations`: tokens that the signed-catalog preparer
registers, an instance binds to its graph, a constructor looks up and only a
start takes, with instances side by side and expiry in between. `FallbackGraph`:
the three recursive walks that accept a fallback (start of each outbound, and
`FallbackDefinitions` of the preparer), written as recursive functions and
checked against definitions by reachability on every small profile.

`MCOffload` takes LocalDpi through an instance with parameters
(`Dpi(Holders, HolderOf, Kind)`), so that one set of variables serves three
arrangements of holders and flows, and through `OneDpi`, one of those
arrangements without parameters, for the properties of steps.

### RestrictionJournal (`daemon/smart_access_restriction_store.go`, `smart_access_runtime_control.go`, `smart_access_runtime_renewal*.go`)

- `disk`, `document`, `live` and `unsettled` are the journal: the file and what
  the process remembers.
- `profile`, `bound`, `control`, `revoked`, `authority` and `signed` are the
  running instance.
- `pc`, `of`, `order` and `applied` are the runtime control workers; `applied`
  and `signed` are histories no code reads.
- `snapshot`, `ledger` and `uncertain` are the client, external to the
  repository: it keeps what it read durably before it acknowledges it.

`ApplyControl` and `ApplyScope` restrict the engine first and keep the lock;
`Journal` then writes the decision down. `Configure` is `begin`, `Finish` the
worker's end, `HostRenew` and `SignedRenew` the renewals (which write the new
expiry before they adopt it), `ReadRestrictions` and `Acknowledge` the handback.
Each write may fail, `Crash` may happen between any two steps, a full scope map
makes a record unsettled. A record's actions are levels: 0 none, 1 drain, 2
terminate, 3 (policy only) terminate with the catalog withdrawn. A denied access
also closes catalog windows in the running engine, but its record says
`terminate` only; the model follows the record.

Abstracted: refusals that change nothing, the identities of retained leases,
renewal enrollment (every scope counts as enrolled, which allows more
renewals), and the lazy loading of the file (done at start).

`DurableRestrictions` is what the journal promises to the backend: levels that
are known durably and workers that are marked as possibly incomplete. Knowledge
grows, and only by what a worker applied; a worker applies nothing unmarked; a
mark goes when all its worker applied is known. Files, memory, snapshots and
crashes do not occur in it. `RestrictionJournalProofs` maps what is known to the
larger of the ledger's level and the file's, and the marks to the generations
that the ledger holds as uncertain or the file as pending.

## Runs

| Run | States | Shows |
|---|---|---|
| `engine_safety` | 1 502 152 | Two starters, a closer, a disposer and a reporter on one owner: no open engine without an owner, `Close` reaches all. A Box whose `Start` and `Close` take turns, with cancellations and failures anywhere: what was opened is closed, entries before exits, dependencies first. Two emitters over two generations: numbers are accounted for, no late event borrows an attempt |
| `engine_live` | 141 104 | One starter, as `v2/hcore` uses it: STARTED tells the truth, STOPPING is left again. A Box with a hanging inbound and a dependency cycle still closes. Emitting never waits for a hanging sink, and a sink that comes back drains the queue in each emitter's order |
| `service_restartable` | violated | `CloseService` beside a start may end in FATAL (first finding) |
| `box_race` | violated | `Close` beside a running `Start` may leave a member open (second finding) |
| `core_safety` | 482 490 | Three concurrent callers, no panics: the engine that is open is the one Stop reaches |
| `core_panics` | 501 319 | With panics and unlocked recovery: no callback after return, every call returns |
| `host` | 407 785 | Promotion and expiry of a connect attempt exclude each other, replies follow the protocol, the exit is clean, deadlines and lease limits stop the core. Two probes of one identifier: nothing outlives its call, cancellation finds its call, the verdict is final, probes return |
| `lease_safety` | 1 084 451 | ATS: no lost socket, no late admission, no late byte. SmartAccess: two flows never hold the one slot of the quota together, and no more leases are retained than the inventory holds; under both kinds of wall clock restrictions and failures stay with their lease, a drain spares active flows, steps are those of the abstract gates. Relay breaker: one half-open dial, late successes refused. Group: receipts are earned and rest on evidence |
| `lease_live` | 67 832 | Both outbounds implement `LeaseGate` with its liveness; sockets close, drains wake dials, quota slots and half-open dials come back |
| `offload_safety` | 1 739 885 | An instance starts as it was prepared. Local DPI: nothing local before the proof or after the withdrawal, old streams close, VPN streams stay, a failure is its holder's own. Telegram: streams end with the admission or are being closed, whoever closes first, no payload is sent late, what was handed over is clean and stays |
| `offload_live` | 141 110 | Waiters wake, `Close` of local DPI releases all, a denial wakes setups and its gateways are closed in the end; the three walks agree with their reference definitions |
| `journal` | 2 725 965 | Crashes, failed writes, replaced workers, a full scope map and two profiles for one record: no restriction is forgotten, a record stays pending while its worker lives, renewals respect what was not handed back |

Each property of a passing run has a mutant in `PROJECT.json`, a plausible
mistake in the code under which the property fails.

### Bounds

- `engine_*`: three instances allow a start, a reload and a start by a second
  caller beside it; two starters are the least with which one can settle for the
  other's instance. The Box has the code's five managers, a chain of two
  outbounds over an endpoint, and one member in each other manager; the live run
  has no service and no certificate provider, a dependency cycle and one member
  that never closes. The queue holds one event of two or three, so it is full early.
- `core_safety`: three callers, since a lost engine needs a starter, a stopper
  and a second starter. `core_panics`: two callers and two services, with each
  of the four phases panicking.
- `host`: three commands, a clock up to 3 with deadlines before its end, lines
  of both lengths around the limit; two probes of one identifier and one canceller.
- `lease_*`: two ATS flows, so that a revocation can be between them, and a
  window of 1, 3, 4 with clocks up to 4, with moments before it, inside it,
  between the two ends and after both. Two SmartAccess flows for a quota of one,
  so that the quota binds; three leases of which two are kept, one restriction in
  force at a time (`FewRestrictions`); two flows meet one renewal and one
  lease that has run down, a single flow two, and under a stepped wall clock one
  flow meets one renewal (`FewRenewals`); two flows over two relays with
  threshold 2 and two epochs; two members, two probes, one trouble at a time
  (`FewTroubles`). The live run has smaller sets and at most two restrictions.
- `offload_*`: two tokens and two instances; two flows of one holder, a TCP and
  a QUIC flow where the holder closes or its instance ends (`OneEndBesideQuic`),
  or two holders of which one closes, with one flow (`OneFlowInBatch`); two
  Telegram flows, with one of the clocks and contexts around them run out or
  their path put aside, or with a cancelled flow beside `Close` (`FewEndings`),
  and withdrawals besides. Profiles of three tags with groups of up to two
  members contain chains, diamonds, cycles and missing tags.
- `journal`: two workers in turn, two profiles, two scopes where a record
  holds one (so it overflows), three levels, two instants. The code's capacities
  are 3 records and 256 scopes; the proofs hold for any.

Symmetry is used in runs of safety properties only, over sets that the
specification treats alike; where only one part of a run moves, the parts share
the two model values that it exchanges. `CHECK_DEADLOCK FALSE` stands where the system may
rest: all calls made, clocks at their bound, service closed for good. The
journal run checks for deadlock.

### Fairness

- `StartedService`: a caller inside a bounded `Instance.Close` goes on (weak),
  and a reload that waits for the mutex gets it (strong: Go's mutexes hand over
  to a waiter after 1 ms, while others may take it in between). `Box.Start` is
  not assumed to return, and nobody has to call anything.
- `Box`: goroutines go on and the ten-second timers fire (weak). A hanging
  member never closes.
- `Emitter`: emitters and the worker go on (weak). That the sink comes back is
  assumed for `QueueDrains` only, as its premise.
- `CoreLifecycle`: calls go on and obtain the lock (strong, same reason);
  building, starting and closing an engine is assumed to return, as it is
  bounded by the engine's own timeouts; an observer whose call is over leaves
  (weak).
- `CandidateProbe`: the deadline fires; setup and requests return once their
  context is dead; watcher, closer and deferred functions run.
- `LinuxDaemon`: the three goroutines run and time passes (weak); the promotion
  mutex is obtained (strong).
- `ATSLease`: timers fire and goroutines that only have to close something go
  on (weak). The refinement needs besides that a dial returns once its context is
  done, as the dialer of the engine does. Nothing is assumed of the clocks or
  the user.
- `SmartAccess`: a handshake whose context or connection ended returns, timers
  fire, closes go on. `RelayConnect`: a dial returns (it has a timeout) and its
  result is recorded.
- `LeaseGate`: flows that must leave do (`WF(Expel)`).
- `LocalDpi`: flows and closes go on, the deadline of the proof fires.
  `TelegramWS`: cleanup, close and flow steps go on, and a close that has begun
  ends; a read returns at an expired deadline or on a closed client, a dial under
  a done context.
- `ServiceGroup`, `Preparations`, `FallbackGraph`, `RestrictionJournal`: safety
  only, none.

## Proofs

9503 obligations in eight modules. The theorems hold for every value of the
constants under the named assumptions of the modules (distinct model values, a
well-formed window, natural capacities, zero standing for no probe). Where a
component is an instance in an MC module, its theorem is about the
specification of that module, whichever part moves; the sets of TLC's instances
and the bounds in its cfg files play no role. Every safety property of a passing
run is proved, one by one or as a conjunct of a stated one.

**StartedServiceProofs.** `NoOrphanEngine` is not inductive: whether a reload
overwrites an open instance when it retakes the mutex depends on who changed
`s.instance` while it closed the old one. `IndInv` adds who holds the mutex
(`HolderInv`), that a reload in its window still points at `s.instance` under
STOPPING or FATAL unless `Close` came (`WindowInv`), that two reloads share the
window only after `Close` (`SoleWindowInv`), and what a close in progress
implies (`ClosingInv`, `ClosedInv`). It yields `TypeCorrect`, `NoOrphan`,
`ReadersSafe`, `CloseReaches` and `CloseTerminal` for any number of callers.
`SoloStarted` and `SoloFatal` assume at most one starter (`SoloFatal` also no
`SetError`), because with two, one starter's `Settle` may publish its outcome
for the instance of the other; `SoloInv` ties each status to the starter that
owns it. `ImplementsSlot` is the refinement of `EngineSlot` for any callers:
the step that needs `WindowInv` is the reload that comes back from its unlocked
window and must find the slot empty; two closes of one Box release it once.
`OneEngineOpen` is what the slot says of any two instances.

**EngineProofs** (Box and Emitter). For the emitter, `CounterInv` and `EventInv`
account for every number of a generation between its stamp and the log, and
`OrderInv` for the order within one emitter; they give `NumbersAreAccounted`,
`AttemptsAreOwn` and `EmittersStayInOrder` for any number of emitters,
generations and queue slots. For the Box, `BoxInv` says where `Start` and
`Close` are in their plans (`BoxCalls`, `BoxJobs`), which managers have reached
which stage (`BoxStages`), who holds a manager's lock (`BoxHeld`) and which
members are open (`BoxOpened`). `ClosedIsEmpty`, `BoxNeverPanics` and
`MembersKeepOrder` assume `Serialized`: run `box_race` shows that a `Close`
beside a `Start` breaks the first of them.

**CoreLifecycleProofs.** `BaseInv` (the lock belongs to the call in its critical
section; contexts and observers belong to calls under way) holds with panics
and gives `TypeCorrect`, `LockReleased`, `CallbackJoined` and
`SuccessUncancelled`. `NothingLost` and `CoreStateHonest` add, phase by phase,
which service the record names and which are open (`PhaseInv`), and assume no
panic: the recovery of a panic works on the record without the lock, so nothing
then ties it to the engine. `ImplementsSlot`, under the same assumption, shows
that the record is an `EngineSlot` that nobody disposes of.

**HostProofs.** *LinuxDaemon*: the order of the replies is an invariant of a
sequence that grows, so `IndInv` says what may already be in it by the place of
the serving goroutine (`PhaseInv`, `ExitInv`), how many replies there are for
the lines read (`CountInv`), who holds the promotion mutex (`LockInv`) and what
clock and watcher say once the deadline has ended the context (`DeadlineInv`). `SessionProtocol` and
`NoLateStartTheorem` follow for any commands and any number of them.
*CandidateProbe*: `ProbeInv` says which goroutines of a call may run
(`GoroutineInv`), whether its Box may (`InstanceInv`) and whether its verdict is
frozen (`FrozenInv`), by the place of the call. The last is why an unset verdict
never leaves: at the second of the two finishes it is frozen or the context is
dead. `VerdictsAreLast`, `CancelsFindTheirCall` and `HostTypes` follow for any
number of calls, identifiers and cancellations.

**ATSLeaseProofs.** `RegisteredInv` (a flow under way is registered until it is
closed, and never again), `SocketInv` (where a socket may be at each point) and
`GateInv` (what flags and deadlines say while a flow passes) make `SocketOwned`
inductive: `NoSocketLeak`. `AdmissionEnds`, `DataEnds` and `LateUseRefused` prove
the action properties for any behaviour of the clocks. `ImplementsSafeGate` is
the safety half of the refinement: initial states map to initial states of
`LeaseGate`, and every step to a step or a stutter of it.

**LeasesProofs** (RelayConnect, SmartAccess, ServiceGroup). `TicketInv` says how
the epoch in a dial's ticket relates to the breaker it was reserved at;
`ProbeIsExclusive` and `LateAnswersChangeNothing` follow. `SmartInv` says what
lease, registration and socket a flow has at each point (`FlowInv`,
`RemoteInv`) and which latches a restriction has left (`LatchInv`);
`RevocationsAreExact`, `FailuresStay` and `SmartImplementsSafe` (the safety half
of the refinement, one gate per lease) follow under a straight and a stepped
wall clock. `QuotaInv` adds that the sets the two quotas count are finite, which
the step from a tested to a kept bound needs (`QuotasHold`). `GroupInv` says that a receipt is bound to what its probe captured
and holds no stage before the first lookup (`OwnInv`). Apart from its begin, its
binding and its end, a step leaves the receipt, withdraws it or appends a stage
under a current binding (the `...Effect` lemmas); that the group
selects a member at all where one is available rests on `LeastNatural`, the
well-ordering of the naturals. `ReceiptsAreTrue` follows, and `LeaseTypes` for
all parts.

**OffloadProofs** (Preparations, LocalDpi, TelegramWS). *Preparations*: an
instance on its way to its start holds a token that was issued (`Held`), a used
token is gone from the registry (`Used`), and an instance that passed its
checks carries the options and the graph that were registered (`Checked`).
*LocalDpi*: `DpiInv` relates each flow to the identity of the holder that
admitted it: its sockets (`SocketInv`), its place on the holder's list
(`ListInv`), what a withdrawal has stopped (`StoppedInv`), which reports may
still come (`ReportInv`), that nothing local runs before the proof (`ProofInv`),
and what the one retry replaced (`RetryInv`). *TelegramWS*: `WsInv` relates a
flow to the admission: a gateway that nobody is closing belongs to a registered
flow that is not closed (`GatewayInv`), only a marked flow is being closed and
`Close` does not return from the middle of its own close (`TailInv`), with its
transfer to the VPN (`TransferInv`), the flows a cleanup has left behind
(`AbandonedInv`) and a `Close` under way (`ClosingInv`).
They give `StreamsEnd`, `EndingsSpare`, `NothingPasses` and `OffloadTypes` for
any holders and flows.

**RestrictionJournalProofs.** `NoRestrictionForgotten` speaks of the file, which
a failed write leaves behind the memory. `IndInv` adds how the two may differ
(`FileInv`), that memory tells of everything the client lacks (`MemoryInv`),
that a live worker's record holds all but the decision it is writing and an
overflow (`WrittenInv`, `LiveInv`, `WorkerInv`), that what it applied is latched
in the engine (`LatchInv`), that the client holds what it may acknowledge
(`SnapshotInv`), and that leases, bound and record are ordered (`BoundInv`). It
yields `Typing`, `NothingForgotten`, `PendingKept`, `RecoveryBounded`,
`RenewalRespects` and `EnrollmentSafe`. For the refinement of
`DurableRestrictions` it must also be known that nothing is made up:
`TruthInv` adds that the file is never ahead of memory (`FileBehind`), that a
worker of the profile applied what memory says (`Truthful`, theorem
`NothingMadeUp`), and that the decision being written down was applied
(`OrderInv`). In `ImplementsDurable` a begin enlists the worker, an applied
decision is `Apply`, the journal's writes, reads, settlements and
acknowledgements are `Settle`, and a crash changes nothing: all that is promised
is on disk or with the client. The two delicate steps are the acknowledgement,
where `SnapshotInv` says that the ledger covers what the file drops, and the
late finish of a replaced worker, which leaves its successor's mark.

**Stated by a theorem only.** Some properties are proved for all instances and
left out of the runs: `ReadersFindInstance`, `CloseIsTerminal`, `FatalIsInert`
(StartedService), `LockIsReleased`, `SuccessIsUncancelled`, `StateMatchesService`
(CoreLifecycle), `OneUse`, `LostOnlyToStart` (Preparations),
`RecoveryBoundOnDisk`, `EnrollmentFollowsHandback` (RestrictionJournal). So are
the refinements of `EngineSlot` and `DurableRestrictions`. Before it was proved,
the latter was checked by TLC together with `TruthInv` on the 2 725 965 states
of the `journal` instance; with that property the run takes nearly four minutes,
so it does not keep it.

**Only model-checked.** `StoppingResolves`, `CloseReturns`, `QueueDrains`,
`CallsReturn`, `DeadlinesKept`, `ResourcesReturn`, `WaitersWake` and
`LeasesImplementGate`: liveness, and the refinements with it, since the prover
does not treat fairness and ENABLED (their conjuncts about single states and
steps, such as `NoPanic`, `OrderOfEmitter` and `NoLateStart`, are proved). `WalksFollowGraph`: what a recursive walk
computes for every profile needs induction over data, which the prover's
library cannot express here.

## Findings

**A failed `CloseService`.** `CloseService` cancels an instance and then closes
its Box while a start of that Box may still run. The start sees the cancellation
and closes the Box itself (`box.go:558`); `CloseService`'s own `Box.Close` then
returns `os.ErrClosed` (`box.go:697`), published as FATAL with the instance kept
(`started_service.go:249`). FATAL refuses both a start and another
`CloseService`, although the comment at `started_service.go:263` calls it "the
restartable operation" and `docs/architecture.md:1122` says the service stays
available for another start. `v2/hcore` stops with `Close`, which still works.

**A member left open.** In the same situation, a manager that is starting
members from its copied list (`adapter/inbound/manager.go:45`) may start one
after `Close` has closed the manager. The start's own `Box.Close` then returns at
once, and nothing closes that member again; `docs/architecture.md:1122` says
`CloseService` "stops the current engine instance". Run `box_race` shows it;
`engine_safety` shows that it does not happen when `Close` and `Start` take turns.

Observations without a run of their own:

- Two closers that both pass the test of `done` would close it twice
  (`box.go:700`); it takes a `Close` beside a `Start` that cleans up.
- The Linux command scanner accepts lines of up to 1023 bytes
  (`linux_daemon_linux.go:229`), `docs/architecture.md:1208` says 512.
- `FallbackDefinitions` (`telegramws/admission.go:150`) accepts a group that
  lists a carried VLESS before its bare DNS carrier and refuses the other
  order; the start (`outbound.go:190`) refuses both.

## Not modelled

- Configuration builder, parsers, database, service manager, bindings: pure
  translation, storage or forwarding without a protocol of their own.
- gRPC server and status streams, with `waitForStarted`: transport; the calls
  are those above.
- Verification and translation of signed catalogs: parsing and signatures
  without state. Revocation of catalog windows.
- Construction of a Box, members added while it runs, and its parts without
  members (router, DNS, network, logger).
- Slipstream and dnstt: child processes and tunnels whose behaviour is
  mostly outside the repository.
- The engine's general protocols and transports, and the replaced third-party
  modules under `engine/sing-box/replace`: upstream code, most of the lines of
  the repository.
- `FlowsStayRevocable` is claimed with a straight wall clock only: the
  outbound prunes old leases by the wall clock, so a step forward forgets a lease
  whose flows live on until their monotonic deadline.
- A candidate probe of a prepared profile spends its preparation like any other
  start; `Preparations` has instances that do not bind for this, and the probe's
  own module does not know of preparations.
- Loss of power: the journal renames its file without synchronising the
  directory. A crash of the process is modelled, one of the file system is not.
- Cryptography: a signature is valid or the step is not taken.

## Plan

1. Composition of `SmartAccess` with `RestrictionJournal`, replacing the abstract
   `revoked` latch, and with `RelayConnect`; of `CoreLifecycle` with
   `StartedService` through `EngineSlot`, which both implement.
2. Renewal enrollment and cadence; liveness of the journal (an abandoned record
   is released once it is handed back); `waitForStarted`; slipstream and dnstt
   processes; selection (URL test, selector) against a reference definition.
