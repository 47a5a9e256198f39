# Yoke: specifications of the Core and of what runs it

Yoke runs the units of a deployment (plugins, managed interfaces, and units that
run to completion) as supervised processes, on the host or in containers. The
Core, `src/internal/core`, is one process per instance; a guardian executes it
and watches over it, a manager talks to both, and the rest of the repository
builds, installs, checks and removes what it runs. These modules specify the
logic of the Core and of the account around it, translated from the Go source;
`PROJECT.json` maps every definition to the lines it stands for, and lists every
component and every hazard with its line.

## The system's parts

| Component | State it keeps | Operations | What is hard | What makes it correct |
|---|---|---|---|---|
| `core/unit` | one life's machine: a state, whether an end was asked for | `Apply`, `Restarts` | nothing: a pure function | only Failed is restarted; a terminal state is left by a new machine alone |
| `core/supervisor` | a `managed` record per unit, the launch order, timers, watched containers, the quiet engine | `Start`, `attempt`, `ended`, `Input`, `StopUnit`, `StartUnit`, `RestartUnit`, `Withdraw`, `Stop`, `reconcile` | one mutex, and everything slow outside it: engine calls, waits, timers, ends | no process lost sight of, the order of launch and stop, every end concluded |
| `core/admission` | tokens issued and spent, who is live, the Sessions issued | `Register`, `Release`, `Lookup`, `Issue` | nine stages with no common lock | a token admits once, and the life it was issued for |
| `core/session` | open Sessions, their timers, message identities, exchanges, the unit's condition | `Open`, `Send`, `Command`, `Ask`, `Instruct`, `Revoke`, `Forget` | the machine is told outside the lock; answers race ends; a capped queue | one Session per unit; an exchange answered once |
| `core/registry` | plugins declared, their policy and grants, in SQLite | `Declare`, `Enable`, `Disable`, `Grant`, `Withdraw`, `Record` | a decision beside another and beside a scan; a crash between two writes | what is recorded survives, whole, and changes what was recorded before |
| `core/bus` | the sequence number, the current levels, a bounded queue per subscriber | `Publish`, `SubscribeTo`, `Next`, `Close` | a slow subscriber; a picture assembled from outside the lock | order kept, overflow told, the picture true |
| `core/ring` | memory shared by a producer and its readers | `Publish`, `Next` | no lock at all: a reader lapped while it copies, a wakeup lost | no torn frame, every gap told |
| `core/streams` | the flows open, their sockets, the feeds | `Open`, `Feed`, `Close`, `CloseAll`, `Discard` | a peer lost while it attaches; a socket removed after the lock | nothing kept for the dead, no frame of another life |
| `core/logstore` | a queue in memory, rows in SQLite, who watches | `Append`, `Query`, `Watch`, `Clean`, `Close` | batches written behind the back of who reads; retention under a follow | what was accepted is written or reported; a follow misses nothing it was not told of |
| `core/interfaces`: attachments | a channel's clients, how many are current, what a cookie finds | attach, `confirm`, `watch`, `finish`, `hold` | four goroutines move one count; a browser's request finds what has ended | an attachment counts once while its picture is current |
| `core/interfaces`: arbitration | who holds, who reclaimed, the verdicts | `Hold`, `Reclaim`, `recompute` | rules inverted at run time | whoever reclaims, one of those that hold is in control |
| `core/interfaces`: deliveries | what an attachment holds of a stream, a queue for each | subscribe, `carry`, `drop`, `all` | the attachment, the unit's end and a full queue all release | frames handed over are whole and in order; what is fed can be released |
| `core/admin` | subscriptions and streams of each connection | the operators' reads and changes | looks and acts under different locks | done or refused, and what is reported is what was done |
| `core/trunk` | the startup chain and what is to be stopped | eleven steps, their stop | a step failing halfway, a death at any of them, what a dead one left | what was started is stopped, in reverse; nothing inherited; the data are of a version it reads |
| `core/instance` | the lock of an instance | `Claim`, its release | two Cores of one instance, a lock file removed | one Core at a time |
| `guardian` | a watch over the instance, timers, the Cores it executed | reconcile, start, beats, `ended`, stop | records, beats, timers and ends in any order; a guardian that dies | what the record declares is acted on, and what is stopped ends |
| `instances`, `instancerecord` | records, pins, state directories | create, run, stop, remove, re-point, copy, restore, clear | steps on files beside a Core that runs; a crash between two | taken up again, or undone |
| `install`, `installroot`, `reclaim` | versions' directories and their records | install, remove, the passes | a pin beside a removal; a crash between two steps | what may be pinned is whole, what is pinned stays |
| `gate`, `core/discovery` | the Manifests the last scan read; else none: documents checked, then launched from | the phases, `Values`, `Scan`, `Units`, `Descriptor` | what one reads the other reads again, later and its own way; three gates in a row | what passes the one is launched whole by the other; what one gate passed the next does not refuse |
| `packages`, `truststore`, `compose`, ... | files | | | listed in `PROJECT.json` with the reason they are left out |

They interact by calls inside the Core's process (disabling a plugin calls the
registry, then the Session service, then the supervisor), by callbacks
(`Ended`, `Observe`, `Publish`, `LaunchFailed`, `NotStarted`, wired in
`core/trunk`), by messages (a plugin's socket, a channel's, the administrative
one, the guardian's, the engine's HTTP), by shared memory (the ring), and by
files. Every component has locks of its own and calls the others outside them,
or, for a few callbacks, inside; between processes there are only file locks,
renames and looks. That is where the hard behaviours are.

## Modules

| Module | What it is |
|---|---|
| `UnitMachine` | `unit/machine.go`: the lifecycle machine, a pure function; used by every module about units |
| `UnitLife` | the abstract specification: what the supervisor promises of the units' states |
| `Supervisor`, `SupervisorMC` | `supervisor.go`, `containers.go`, and the operators' calls of them; the deployments that are checked |
| `SupervisorProofs` | type correctness; that a signal reaches no life but the current one; that no process is lost sight of, and ends come before restarts; the order of launch and of stop; that `Supervisor` implements `UnitLife` |
| `Bus`, `BusProofs` | `core/bus` with the surfaces' loop over a subscription |
| `Logstore`, `LogstoreMC`, `LogstoreProofs` | `core/logstore`, and a follow of it in `admin/reads.go` |
| `CoreMC` | `Supervisor`, `Bus` and `Logstore` in one run |
| `Participation`, `ParticipationMC` | `admission.go`, the opening and ending of a Session in `session.go`, disabling in `admin/operations.go`, and the part of the supervisor they reach |
| `Streams` | `core/streams`, an instruction on a Session and its wait in `session.go`, the operators' and the clients' calls in `admin/streams.go` and `interfaces/operations.go` |
| `SessionsMC`, `SessionsProofs` | `Participation` and `Streams` in one run; what is proved of each |
| `Ring`, `RingMC`, `RingProofs` | `core/ring`, access by access |
| `Arbiter` | `interfaces/arbitration.go` |
| `Channels` | `interfaces/attachment.go`, `local.go`, `web.go`: who is attached and what makes a channel hold; EXTENDS `Arbiter` |
| `Deliveries` | `interfaces/delivery.go` and the feeds of `core/streams` |
| `Authority`, `AuthorityProofs` | what a plugin may do: `core/registry`, `Scan` of `core/discovery`, the joins of `gate/manifest.go`, the decisions of `admin/operations.go`, and what `admission.go` reads and grants (`core/scope`); what is proved of it and of `Declarations` |
| `Gate` | `internal/gate`: what a document, a Manifest, a host and values are found to be, as pure operators |
| `Declarations`, `DeclarationsMC` | the records of `instances`, the guardian's gate, and the Core's reading, gate, scan and units (`trunk`, `core/discovery`); EXTENDS `Gate`; the documents that are checked; proved in `AuthorityProofs` |
| `SurfacesMC` | `Ring`, `Deliveries`, `Channels`, `Arbiter`, `Authority` and `Declarations` in one run |
| `SurfacesProofs` | what is proved of `Arbiter`, `Channels` and `Deliveries` |
| `Guardian`, `GuardianMC` | `internal/guardian`, the manager's verbs that write a record and tell it, and the claim a Core serves under |
| `Reclaim` | `install`, `installroot`, `reclaim`, the pins of `instances`, and the claim as a lock on a file |
| `Trunk`, `TrunkMC` | `core/trunk`: the lives of an instance's Cores over the state they share, and the verbs on that state |
| `AccountMC`, `AccountProofs` | `Guardian`, `Reclaim` and `Trunk` in one run; what is proved of each |

### Supervisor

`units` is the map of `managed`; `life` is the world outside: for each life of
each unit, its process, how far its launch got with the engine, and who watches
for its end. The mutex is not a variable: each critical section is one action,
except that an attempt that makes a unit ready attempts its dependants in the
same critical section, which `due` spreads over several steps. Every action that
takes the mutex is guarded by `Unlocked` (`due = {}`).

* `Attempt` is `attempt` and `launchContainer` up to the call of the engine;
  `LaunchFails`, `LaunchStarts`, `StartErrs` and `LaunchRecorded` are the
  engine's answer and what is done with it once the mutex is taken again.
* `Ends`, `HearEnd`, `EndReached` and `Conclude` are a process ending, the
  `Wait` or the engine's event that tells it, and `ended`. `DisposeAsk` and
  `DisposeKill` are what is done about a process that outlives its terminal
  state.
* `WindowElapsed`, `NeverArrived`, `TimerFires` and `LateCallback` are the
  startup window, the hold's window and the restart timer. A timer that fired
  and has not got the mutex yet is `TimerIsLate`.
* `Input` is what admission and the Session tell the machine.
* `GoQuiet`, `Reconcile` are the engine's events stopping, and the engine coming
  back.
* `StopUnit`, `PressUnit`, `UnitStopped`, `StartUnit` are an operator's call,
  step by step (a restart is a stop, then a start); `Disable`, `Enable`,
  `Withdraw` the plugin's policy; `StopBegins`, `StopTakes`, `StopPresses`,
  `StopHasStopped` the goroutine of `Stop`.

Operators go on while `Stop` does, and after: their shell closes later
(`trunk.go:819`, `1051`), and `StartUnit` (`supervisor.go:832`) does not read
`stopping`. `beyond` is a ghost: the lives `Stop` does not answer for, because
an operator's start began them once `Stop` had begun (`GoesBeyond`), or because
an attempt overwrote them before (`NoOrphan` is about those). `OrderKept` is
about all the others.

### Ring

One action per access to the shared memory. A frame's data are the words of its
slot, each holding the number of the frame it belongs to, so a torn frame is one
whose words differ. `Reorders` is the memory model: the clock, the length and
the payload are plain memory beside the atomic sequence; on amd64 they keep
their place between its accesses, on arm64 a plain store may pass the
store-release before it, and a plain load the load-acquire before it. That is a
data race, and the model gives the outcomes the build can produce.

### Bus

`log` is every event published, its place its number. `Publish` is one step (the
bus's lock, and each subscription's inside it); `Assemble`, `Send`, `Deliver`,
`SeesLoss`, `Retake`, `NothingYet`, `Woken` are a subscriber's goroutine between
its locks, `Unlist` and `MarkClosed` the two halves of `Close`. `Change` and
`PublishChange` are a record that changes and then the event that says so, as
`apply` does under the supervisor's mutex; a picture may be assembled between.

### Logstore

An entry is the place at which its append was asked for; `fate` says where it
is, `number` what it was stored under. `TakesLock` and `Queued` are `Append`,
which keeps its lock while the queue is full; `TakeFirst`, `Gather`,
`StoreBatch` or `LoseBatch`, `TellWatchers` the goroutine that writes;
`CloseBegins` and `CloseReturns` the two halves of `Close`; `Clean` a group's
transaction of the cleaner. `Begins`, `Watches`, `Queries`, `Pushes`, `GivesUp`,
`TellsBehind`, `Wakes`, `QueryFails` are the goroutine of a follow, `Receives`
and `Leaves` its client. `Dies` ends the process at any moment: what is in
memory is gone, a transaction is whole or nothing.

`TakesLast` says whether retention may take the newest row of the store. The
store numbers a row one above the largest it holds, so only with FALSE is a
number used once (see the findings).

### Participation

`Present`, `Spend`, `Decide`, `TellAdmission` are the four parts of `Register`
between which no lock is held; `Find`, `OpenSession`, `TellOpened` those of
`opening`; `EndSession` and `TellEnded` those of `end`; `Look`, `Revoke`,
`Withdraw` what disabling does about each copy. `Tell` is the supervisor's
`apply`, with the release and the forgetting it calls under its mutex when a
life is concluded. The token and the Session of a life are named by the life.
Processes of earlier lives linger in `alive`, and go on registering.

A life may end at any of these steps, and its call then goes on: nothing in the
code prevents it, since what a call moves is named by the unit. `strayed` is a
ghost: the units moved so, by a registration committed or told about a life that
is over, a Session opened whose admission was released meanwhile, or an opening
or an end told to a later life. The properties speak of a unit until that step,
and not before it: a life that ends under a call that then moves nothing, or is
refused, is no exception. What happens after is among the findings.

### Streams

A call is numbered, and so are the transport it opens and the exchange it sends.
`Asks`, `OpensTransport`, `Instructs`, `Settles` and `Returns` are the parts of
`streamStart` and `streamStop` between which no lock is held (an operation that
only asks, a command or a question, is a call without a transport);
`IsAnswered`, `SessionIsOver`, `TimesOut` and `GivesUpWaiting` the wait of
`issue`; `UnitAnswers` and `HandsOver` are `receive`, which looks whether the
Session is open, and `answered`, which takes the lock again. `EndsSession`,
`SweepsAtEnd`, `EndIsTold` are `end` and what observes it; `SweepsAtExit` and
`Forgets` what `Ended` does under the supervisor's mutex when a life is
concluded. Taking a transport out of the table and removing its socket
(`RemovesSocket`) are two steps: `takes` is what each waits to have removed.

`EndsLate` says whether a life may begin before the end of an earlier Session
was told. The input names the unit and not the life, so with TRUE it concludes
the new life, which has an open Session and a process that still answers.

### Arbiter and Channels

`Rules` is the sequence of rules, one pair for each channel a rule names.
`Hold` and `TakeBack` are the arbiter's two operations; each recomputes every
verdict under its lock (`Recompute`), so each is one step, and `News` is what it
returns to be told outside. `Inverts` is a rule whose losing channel reclaimed.

In `Channels`, `thread` is where each goroutine is: one serves an attachment
(`Begins`, `Register`, `Start`, `End`, `Detach`, `Uncount`), one watches its
confirmations (`FindsStale`, `WatchEnds`), and on the browser's projection each
control request is one (`Finds`, which takes the attachment from the cookie, and
then `Confirm`, `Reclaim`, `Subscribe`, `FirstAnswer`; on a local channel the
serving goroutine does them). `Counts`, `TellArbiter` and `Tell` are the three
parts of `hold`, each under another lock or none; a goroutine passes through
them (`Holding`) and comes back to where it was.

### Deliveries

`feeds` is what the streams feed, `held` the deliveries the attachment can
release. `SubscribeStream` and `Add` are the feed registered and then recorded;
`TakeRelease` and `Release` are `drop`, which takes a delivery's release out of
the table under its lock and calls it after; three kinds of goroutine drop: the
attachment's (`Unsubscribe`, `Detaches`), the one that closes the unit's streams
(`UnitEnds`), and one a delivery starts for itself when it is behind.
`ReadFrame`, `Skips`, `Carries`, `Offers` are the goroutine that reads the
stream, finds the feeds under the lock, and hands each the frame; `FallsBehind`
is a queue found full. `cut` and `unheard` are ghosts: the deliveries the unit's
end took, and those whose drop came before the attachment held them. That
whoever fell behind or was cut is released, which is how its client is told, or
is still to be, is `ToldItsEnd`; the unheard are its exception (see the
findings).

`StreamReaders` is who reads the stream: one, since a second begins only when
the stream is opened again. Two readers at once, of a transport that closes
while the next is opened, hand frames over in any order, and `Unbroken`, a part of
`HandedWholeOrReleased`, fails.

### Authority

`declared`, `enabled`, `grants` and `history` are the Registry's tables, of one
plugin; `scan` and `known` are discovery's, where a scan is and what the last one
read; `decider` is each operator's request, `copy` each unit's life with its
registration. `ReadsFile`, `Declares`, `Replaces` are `Scan`: the file is read
and checked (`Joined`), declared in a transaction, and what was read replaced at
the end. `Asks` is the looks before a decision; `Selects` and `Updates` are the
two accesses of `setEnabled`'s transaction, the second refused where another
wrote between them; `Grants` is `Grant` or `Withdraw`, one statement and its
decision; `Looks` and `Answers` go through the copies after it. `Launches`,
`ReadsPolicy`, `ReadsGrants`, `Weighs`, `Admits` are a life and the stages of
its registration that read or write here. `told` is a ghost: which lives each
decision was answered with. `CoreDies` keeps the Registry alone.

A registration refused before its token is examined leaves the process to its
window (`LifeEnds`). That a life's end overtakes its registration is in
`Participation`, and is kept out here.

### Gate and Declarations

`Check` is the gate: `Reading`, `Shape`, `Joins`, `CrossDocument` and
`HostFacts` are its phases, one operator for each function of a phase, and each
yields the set of the codes found, of which any refuses. A scalar is how it is
written (missing, right, wrong, a reference where none may be), a text the set
of its parts, a mapping a function: what the phases tell apart and no more.
`Values` and `ValuesRefused` are the parameters given, over the defaults. A
figure is the count and the unit it is written with: `Parsed` is what the
integer keeps of their product, with `Word` its number of values, so that a huge
one wraps or is cut (`Fits` says which do not).

In `Declarations`, `files` is what each place holds (two installed versions, a
working directory, the service form's own), `record` the instance's record,
`core` the Core that runs and how far its start has come. `Create`, `Ephemeral`,
`SetVersion` and `SetParam` are the verbs of `instances` that gate; `Execute` the
guardian's start; `Boot` the host's, in the service form; `Describe`, `Compose`,
`Scan` and `Declare` the reads of the second, seventh and eighth steps, between
which `Edit` and `HostChanges` may come. A value goes from the guardian to the
Core as `group.name=value`: `ReadAs` is where the Core cuts it, `Dotted` and
`Equated` the keys it cuts elsewhere than they were joined, `Unreadable` the
invocations it refuses and `Invoked` the values it is left with. `CoreRange` is
asked where the Core's binary can be read. `UnitsOf` is what discovery builds, with
the bindings replaced in any order a mapping yields. `passed` and `refusal` are
ghosts: what was gated since the last edit, with whether the guardian could read
the Core's version (`unread`) and whether the Core reads what it was handed for
something else (`misread`); and who refused what.

### Guardian

`loop` is where the guardian is, `watch` what it holds about the instance,
`timers` those armed, `inbox` a wake not handled; `cores` is every Core executed
(a Core claims, beats, is asked to stop, ends), `units` those whose units may
be alive in the control group. Each event is handled whole: `First`, `Wake`,
`Beat`, `Ended`, `Elapses` are the cases of the loop, `Reconcile` with `Start`,
`Stop`, `Failed`, `Refuse`, `Keep` what they call. `Exits`, `Abandons` and
`Crashes` are the loop finding nothing to watch, being told to stop, and dying.
The managers' verbs are `StartVerb`, `StopVerb`, `RestartVerb` with `Waited`,
`RemoveVerb` with `Removes`, `Creates`, and then `Looks`, `Finds`, `Asks`: whether a
guardian is summoned, found and told. `ByHand` is a Core executed by `app run`.
`owed` is a ghost: whether this guardian has still to compare the record since
it changed.

### Reclaim

`tree` is each version's directory (its record, its bundle), `pins` the version
each instance points at. `Begin`, `Write`, `Expand`, `Components` and
`InstallFails` are `Install`; `Pinnable` and `Pin` a creation or a re-pointing,
which looks at the version and then writes; `Lists`, `FirstLook`, `Withdraw`,
`SecondLook`, `PutBack`, `RemoveAll` and `RemoverDies` a removal or the pass
over what is collectable. `Open`, `Lock`, `RemoveRoot` and `Release` are the
claim of an instance: a lock belongs to the file that was opened, and a pass, or
the Core itself as it stops (`trunk.go:395-398`), removes the directory with that
file in it before it gives the claim up.

Every window between these steps is open, and three ghosts name what comes of
the ones that break a promise: `late`, the instances whose pin was written where
no look of a removal could see it any more; `shared`, the versions that an
installation and a removal, or two removals, were at at once; and `overtaken`,
from the taking of a lock on a file that had left its path since it was opened,
until all that hold one are gone. The properties say nothing of those, and the
findings say what happens to them.

### Trunk

`core` is how far each of the instance's Cores is in the eleven steps: `Gated`
and `Logging` (the guardian's gate, the process), `ClaimsRoot`, `ClearDebris`,
`Stores`, `Inherited`, `Declarations`, `BindsChannels`, `Stamps`, `StartsUnits`;
`StopsUnits`, `Closes`, `RemovesRoot` undo them, and `Dies` is a step that fails
or a death, at any of them. `state` is the instance's directory: the stamp of
the version that wrote it, whose data it holds (`wrote`), who may still write it
(`users`), whether it is whole; `former`, `staged` and `copied` are the other
directories a restore goes through. `Migrates`, `Launches`, `EngineActs`,
`Follows`, `Faults`, `WritesData` are a version's two units, the migration and
what depends on it, and what the engine does about a container asked for,
whether who asked is there or not. `BeginsVerb`, `SetVersion`, `Copies`,
`Clears`, `Stages`, `PutsAside`, `Swaps`, `Tidies` are the manager's verbs on
the state, one action per access.

`Overlaps` says whether a verb may begin, or a Core claim, while an earlier Core
has given up its claim and not yet exited, or left a container that writes.

## Runs

A run of several parts (`CoreMC`, `SessionsMC`, `SurfacesMC`, `AccountMC`) checks
each on its own: `part` is chosen by the initial state, each part's steps leave
the others' variables alone, and the fairness of a part is restated over its
own steps. The parts of a run do not interact, so its states are the sum of
theirs, not the product.

Deadlock is not checked: every model may really stop (an instance that stopped,
a producer that is gone, a bound reached).

| Run | Instance | States | What it shows |
|---|---|---|---|
| `host_plugin` | one plugin on the host that may fail to launch, one operator who asks before `Stop` begins and is served at any moment, its plugin disabled and enabled, two lives | @host_plugin@ | signals reach the current life; no process is lost sight of, and an end concluded leaves the machine terminal and comes before the next life (`EndsBeforeRestarts`); the states keep to `UnitLife` (`LifecycleKept`); failed units are restarted, Starting ends, what outlives its terminal state is ended, `Stop` ends (`WaitsEnd`) |
| `launch_order` | a oneshot after a skipped one, an interface on it, a plugin on both, stopped at any moment, late timers, an operator who asks before `Stop` begins for the interface to restart, which comes before it, in it or after it | @launch_order@ | a unit is held for a reason and launched after what it depends on, stopped before it, and once `Stop` is through nothing is left that it answers for (`OrderKept`); no unit is held for ever (`HoldEnds`) |
| `container_quiet` | a oneshot in a container, an engine that errs and goes quiet, three lives | @container_quiet@ | once the engine is back every end is concluded and debris removed, and Completed means the process exited zero, which an unknown status does not say (`QuietIsMadeUp`) |
| `core_parts` | an interface in a container with an operator, two lives; a client of the bus with a queue of two; the log store with a queue of one, batches of two and a follow | @core_parts@ | no container lost sight of while the engine is asked without the mutex; the client is handed the next event it selects, its picture is true once it was told everything, news arrives and a close lets it go (`NoneSleepsThrough`); a follow that waits has pushed all it selects, an entry is skipped only where the client is told, `Close` loses nothing queued, what is queued is heard of |
| `sessions` | one copy, two lives, two registrations of each, an operator disabling and enabling, every call overtaken by the end of its life; one stream, two calls, two lives | @sessions@ | until a call about an ended life has moved the unit, at most one Session, a unit that takes part is the life admission counts live, and no registration refuses a unit that was accepted; a transport is open for a start under way or in the Session that was told of it, no socket is left of one that is gone; who is told of no answer was handed none; a transport goes with its Session |
| `surfaces` | a ring of two slots and five frames; two deliveries of one frame each; a bench and a browser's panel with a request; three channels under a chain of rules; three Manifests of a plugin, two operators, two decisions, a unit of two lives; a hundred and fifty documents, right, with one thing wrong, or with names and figures that are read for others, and a host that lacks one thing or where the Core's version cannot be read | @surfaces@ | no torn frame, frames and gaps add up, only what was lapped is lost, no wakeup lost; what a delivery hands over is unbroken, whoever is not handed it is told, it can be released, and nothing is left of it once its attachment ended (`HandedWholeOrReleased`); an attachment counts once while it is current; whoever reclaims, one of those that hold is in control; every decision changed something and the policy and the grants are what the decisions leave (`RegistryKeeps`); a running unit's scope is what was decided when it read, and whoever decides otherwise is told of it (`ScopeIsAccounted`); the units launched of a document and values that passed are whole (`LaunchedWhole`), and what one gate passed the next refuses only for what it alone asks (`StartsAsGated`) |
| `account` | a guardian, a user of two verbs, two Cores; two versions, two installations, two pins, two removals; the claim of two Cores, which remove their directory as they stop, and of a pass; two lives of a Core, of two versions | @account@ | what the record declares is acted on, nothing of an earlier Core is carried over, a Core asked to stop ends; what may be pinned is whole and what is pinned in time stays; one Core serves; nothing inherited runs beside a Core that is ready; the data are of a version it reads; a restore replaces the state or leaves it |
| `torn_frame`, `missed_disable`, `reused_number`, `removed_record`, `unmigrated` | small | | the findings |

### Why the bounds are enough

* *Lives* (2 or 3 per unit). The hazards are between one life and the next:
  an end, a timer, a registration or a Session of the earlier meets the later.
  Three lives, in `container_quiet`, add an earlier one that both later ones have
  outlived.
* *Units.* One unit suffices where units do not interact; the order of launch
  and stop needs a chain of three and a unit with two dependencies.
  `Participation` has one copy: copies share the policy and the loop of a
  disabling alone, and the proofs are for any number.
* *Operators.* One, but in `Authority`: it interleaves with the timers, the ends
  and `Stop`, and each critical section of the code is of one caller. Several
  callers at once are in the proofs only. In `launch_order` the operator restarts
  the interface, which has units before and after it in the order, once
  everything was launched (`RestartsOne`): any of a restart's steps may come
  before `Stop`, in it or after it. In both nobody asks once `Stop` has begun
  (`AsksBeforeStop`), though who asked is served whenever: what is asked for
  later takes the same steps, and in `host_plugin` a plugin that is disabled
  might be asked to start without end, each time declined under the mutex, and no
  fairness of the others would then let them have it.
* *Registrations* (two per life). The second finds the token spent, at any step
  of the first. A copy is followed until a call has strayed about it
  (`NoneStrayed`), and a version until two are at it at once (`Apart`): nothing
  that is checked speaks of either after. With one copy `NoneStrayed` cuts only
  what is exempt. `Apart` also cuts what happens to the other version after that,
  which the proof covers (`InstalledStaysWhole`): a version that is shared touches
  another only by superseding it.
* *Ring.* Two slots and five frames lap a reader twice. One reader: readers
  never write. *Bus.* A queue of two and five events overflow, are announced,
  and overflow again.
* *Logstore.* Three entries fill a queue of one and a batch of two, overflow what
  a follow holds twice, and leave one to be removed or written while another is
  on its way. The numbers of the source (4096, 64, 256) only make that rarer.
* *Streams.* Two calls are what a race takes: a start and the stop, or the other
  start, that meets it; three, with one life, were checked for the invariants
  too. Two lives let a call meet the Session after the one it looked at.
* *Channels.* One attachment on a channel of each projection, and one request:
  the count of a channel is moved by an attachment's own goroutines and its
  requests. Two attachments of one channel were checked for `CountIsExact` too.
  *Arbiter.* Three channels and three rules make a chain, which inversions bend.
* *Deliveries.* Two, with three frames and room for one: each is full once, and
  dropped by its own goroutine beside the other's droppers.
* *Authority.* Two operators and two decisions: the second is about what the
  first left, and each may come between the other's accesses. Of the three
  Manifests one lists more than another under the same capability, and one is
  refused. Two lives of one unit: the second reads what the first was told of.
  The operators are interchangeable (`EitherOperator`), which halves the states;
  the run has no liveness property, for which that would not be sound. A unit on
  each side of a decision, and one plugin beside another, add nothing: no
  transaction or scan joins two.
* *Declarations.* The documents of `DeclarationsMC` have a unit of each kind, two
  channels and a rule, and say everything a document may; of each kind of
  finding, one is a document with that one thing wrong. Two faults in one
  document find the union, or what the first phase finds. The documents that are
  right are edited once, or the host changes once (`MaxChanges`), at any moment
  of the records and the start: what is compared is one reading with the next.
  `Word`, `Second` and `Kilobyte` are 2000000, 1 and 1, where the code's are
  2^64, 10^9 and 1000: TLC counts to 2^31, and what overflows is a product, here
  of smaller factors. The proofs are for any values.
  The roots leave a name of six characters and not one of sixty (`Room`,
  `Labels`).
* *Guardian.* Two Cores, so that what the first leaves meets the second, and two
  verbs, so that one meets the other's. *Reclaim.* Two versions, so that one is
  superseded; a third lock file is one made while two are held. *Trunk.* Two
  versions, of which the second reads and migrates the first's; two lives here,
  three in `unmigrated`.
* `LateCap` (one fired timer waiting at once): each is armed by the one before
  it being served.

### Fairness

* `Supervisor`: the goroutines that wait for the mutex get it (Go's mutex is
  starvation free) and go on; timers that are armed fire; a process that was
  killed ends; the engine answers; a call once made goes on. Not assumed: that
  any process ends by itself, that operators ask for anything, that the engine
  goes quiet or an input arrives. `Reconcile` is fair: the engine is taken to come
  back and to answer. That is more than `awaitReturn` gives
  (`containers.go:243-260`): after each notice that the engine's socket was bound
  it asks five times, within two seconds, and then not before the next notice. An
  engine that takes longer to answer is not followed again, and what
  `container_quiet` shows is not shown of it.
  `launch_order` assumes of all this what a hold needs and no more (`HoldSpec`):
  that an attempt that is due is made, and that the hold's window runs out.
* `Bus`: a subscription's goroutine loops while its client takes what it is
  sent, and closes when it leaves (a `defer`); a close begun ends; a change
  applied is published. Nobody has to subscribe or leave.
* `Logstore`: the writer goes on while there is something to write, and a
  gathering batch is written in the end (its timer); a follow's goroutine goes
  on, and a client that stays takes what it is sent. Nothing is appended,
  followed, cleaned or closed by fairness, and the Core may die at any moment.
* `Streams`: the Core's goroutines go on, and a wait has its deadline. The unit
  need not answer, exit or close, and nobody has to ask.
* `Guardian`: the loop handles an event that waits, and a kill timer fires. No
  beat, no end, no verb is assumed, and the guardian may die.
* `Participation` is checked for safety in `sessions`. `Ring`, `Arbiter`,
  `Channels`, `Deliveries`, `Authority`, `Declarations`, `Reclaim` and `Trunk` state safety only: their waits
  are on people, files, other processes, or have a limit of their own.

## Findings

Five runs show the code doing other than its own words.

* `torn_frame`: with plain accesses free to pass the acquire and release they
  stand beside, a reader is handed a frame of two frames' words.
* `missed_disable`: a copy that opens its Session between the look and the
  withdrawal is missed by both (`operations.go:213-216`).
* `reused_number`: retention may take the newest row of the store (an idle store
  past its age, an entry larger than its group's bytes), and the next entry is
  stored under a number that was used: a follow whose cursor is there never
  pushes it (`reads.go:169`, `logstore.go:47`).
* `removed_record`: an ephemeral instance whose Core has given up its claim may
  be removed and a declared one created under its name before the guardian
  hears of the end; the guardian then removes the new record and its state
  (`guardian.go:577-579`).
* `unmigrated`: the stamp is replaced before the migration runs; a Core that
  dies between the two leaves a stamp that makes the next skip the migration,
  and what depends on it runs on data the earlier version wrote
  (`trunk.go:1176`).

More were met while modelling, which the actions show and no run states.

*Participation.* (1) A unit refused by a disabling, whose process registers once
the plugin is enabled again and before it is gone, is counted live after its
life: nothing releases it again, and its next life is refused as already live,
which is for good, though `Release` is said to let it be admitted again
(`admission.go:84-85`, `214`). (2) What a call moves is named by the unit
(`admission.go:125`), and a life may end between any two of its steps: a
registration past its token admits the life after its own, or refuses it; an
opening or an end is told to it (`session.go:192`). (3) A Session found while its
life was live is opened after that life's Sessions were forgotten, beside the
Session of the next, until its heartbeat is missed or its process closes it. All three are what `strayed`
marks.

*Streams.* (1) A transport taken out of the table is removed after the lock was
let go, and what is removed is whatever is at the stream's path: a start in
between listens there first, is activated, and its socket is unlinked
(`streams.go:427`), though a unit is said to be told only once there is
somewhere to emit into (`admin/streams.go:88-89`). (2) A start that fails
discards the stream's transport by name: it may be another's, which took its
place after a stop and already flows. (3) With `EndsLate`, the end of an earlier
Session concludes a later life; a start between that conclusion's sweep and its
Forget is answered, and its transport outlives the Session (`NothingKept` fails
with TRUE). (4) That a stream is activated is published after the unit answered,
outside every lock: its stop may be published first.

*Supervisor.* `StartUnit` does not read `stopping` (`supervisor.go:832`): what it
launches once `Stop` has been through the unit runs on after `Stop` returned, and
a restart under way when `Stop` begins does just that; the operators' shell
closes after the supervisor stopped (`trunk.go:819`, `1051`). `OrderKept` leaves
those lives out (`beyond`). A plugin in a container declined while the engine is asked for it
is Refused with no process to dispose of; the launch is then recorded on the
terminal machine and nothing ends the container (`supervisor.go:652`); enabled and
started again, the unit loses sight of it, and `NoOrphan` fails. A container that
ended before the engine answered its start with an error, and whose end was heard,
is failed twice, by the launch and by its end, and each time a restart timer is
armed (`containers.go:133-142`, `ended`, `settle`): the second one to fire attempts
the unit beside the life the first one began (with `EngineErrs`, `NoOrphan` and
`RestartsAfterTheEnd` fail in fewer than fifteen steps). What a failed start left
is asked to be removed before the launch is abandoned: where a quiet engine did
not hear it, and is followed again in between, `reconcile` takes it for a launch in
flight (`containers.go:287`) and it is left; `DebrisRemoved` leaves that out. And a
unit admitted between the kill of its startup window and the exit is not
concluded from that exit (`supervisor.go:534`): `EndConcluded` therefore leaves
out a unit whose window has run out.

*Channels.* (1) Two `hold`s of one channel may count in one order and tell the
arbiter in the other: `HoldingIsCurrent` fails, and the arbiter holds the wrong
answer until the next change (`attachment.go`, `hold`). (2) A browser's
confirmation whose request found its attachment before `finish` counts it again
after it: the channel then holds for ever, and what it prevails over stays
suspended. (3) A browser's subscription request whose attachment ended is never
answered; one begun after `all` released the deliveries leaves its own fed.
(4) Verdicts are told outside the lock, so the last one published may not be the
last decided. (5) A channel that does not hold may reclaim, and is remembered
(`arbitration.go:80`). The gate refuses neither arbitration rules in a circle
nor `depends_on` in one.

*Deliveries.* A delivery dropped (behind, or by the end of its unit) between the
feed's registration and its recording is not held yet: the drop finds nothing,
it is recorded after, and its client is never told, until it unsubscribes or its
attachment ends (`delivery.go:211-212`), where a delivery past its queue is said
to be "released and the client told" (`delivery.go:19-21`, `122`). `ToldItsEnd`
leaves those out by name (`unheard`), and no others. With two goroutines reading
one stream at once, `Unbroken` fails.

*Authority.* (1) A disabling or an enabling that meets another write of the
Registry, a scan that declares the plugin again included, between its read and
its write is refused `store.unavailable`, though nothing is wrong with the store
(`registry.go:308-317`). (2) What an answer says was there `previously` is read
before the transaction: of two operators who grant the same at once both are
answered that it was not granted, and one changed nothing. (3) A decision is
published after its transaction, with no lock: of two, the later may be numbered
first, where `bus.go:94-95` has the numbers in the order the Core concluded.
(4) A unit admitted between the commit and the look is said to be under an
earlier scope, and is not; none is passed over, which is what
`ScopeIsAccounted` says.

*Declarations.* (1) `set-version` keeps the values recorded
(`instances.go:277`): a version that drops a parameter, or requires two more,
leaves an instance that the guardian refuses, and `set-param`, which weighs all
values with each, cannot mend it. (2) A Manifest edited between the gate's
reading and the scan's is not joined again: a plugin is launched with the needs
of a Manifest nobody gated, and an empty path for a device it does not bind
(`discovery.go:199`, `226`); `LaunchedWhole` is about readings that agree.
(3) A unit's bindings are replaced in the order of a Go map
(`discovery.go:213`): where one's value names another, which the gate accepts, the
same document is launched with the reference resolved or left, by chance, and a
value that names itself is always left. (4) An instance created without a name
is gated with a root that is shorter by the name, and an ephemeral run with none,
so that what is too long is refused at the start. (5) `set-param` gates the
version's document as it is on disk, whatever digest the record pins. (6) The
"longest socket path this deployment can produce" (`service.go:309`) counts no
channel's local socket (`interfaces/bind.go:71`) and not the ending of a
subscriber's. (7) A heartbeat interval of zero passes, and `time.NewTicker` ends
the Core with a panic (`trunk.go:1242`). (8) `ParseDuration` and `ParseSize` do
not look at an overflow (`body.go:975-995`): a huge figure wraps, and may pass as
another, become none, or be refused; `LaunchedWhole` says of a figure that it is
not negative only where what is written fits. (9) A unit that
depends on one with `autostart: false` passes, and is never launched; so do
units that depend on each other in a circle. (10) The gate admits a dot and an
equals sign in a name (`gate.go:270`), and the guardian hands a value over as
`group.name=value` (`guardian.go:491`), which the Core cuts at the first of each
(`cmd/yoke-core/main.go:149-160`): a unit `a.b` with a parameter passes every
gate before, and the Core reads the value under another key, or refuses the
invocation. `StartsAsGated` leaves those Cores out (`misread`). (11) Where the
Core's binary cannot be read, the guardian and `instances` ask no range of Cores
(`guardian.go:447`, `854-862`) and leave it to the Core, which refuses then what
was recorded (`unread`).

*Guardian.* (1) A Core that announces it is stopping and then hangs is in
`stopping` with no kill timer, and a later stop does nothing, since it is
already stopping. (2) A wake sent once `idle` has decided to leave is answered
and lost (`guardian.go:118`, `232`). (3) A retry clears the state before it
reads the record; where that fails nothing tries again. (4) A silence noted
outlives the run: a stop while the next is starting counts as a failure.
(5) A manager's `run` removes the record and then tells the guardian to
reconcile, which is refused as not found (`guardian.go:689`), so the guardian
"which forgets it" (`run.go:202`) is not told.

*Reclaim*; each of (1), (2), (3) and (5) is what a ghost names. (1) A pass may list an installation in progress as
incomplete and remove it under the installer, whose last record then says
complete beside a bundle that is part (`shared`). (2) A pin found complete may be written
after the removal's second look: the instance points at nothing
(`reclaim.go:4-5`: the interval "cannot be entered by a new pin"; `late`).
(3) A Core that opened the lock file, which a pass then removes with its
directory, locks a file nobody sees, and a second Core claims the new one, though
the pass is said to take the claim "so nothing can start in the directory while
it goes" (`reclaim.go:282-283`). So does one that meets another's orderly stop,
which removes the directory before it gives the claim up (`trunk.go:395-398`),
where `Release` says "The lock file stays" (`instance.go:144-145`; `overtaken`).
(4) What a removal that died left withdrawn is collected by no pass, and a pinned version it had still to put back stays withdrawn. (5) A
removal that finds the record withdrawn already, by another under way or one
that died, removes without the second look (`reclaim.go:110`): a pin written
since its first look points at what it removes, and of two removals of one
version the one that finds the pin may put back a record whose bundle the
other is taking away (`shared`).

*Trunk.* (1) The stores are closed while a scan or a clean begun by a timer may
still run, though they are said to go "after everything that writes to it has
stopped" (`trunk.go:413`). (2) Containers an earlier life left are looked for
only where the new deployment names an image. (3) A stop does not wait for a
container's launch under way. (4) A verb that looks whether the instance is
stopped reads the claim alone (`instances.go:334`), so containers of a dead Core
go on writing while the state is copied, restored or cleared. (5) A restore that
dies between its two renames leaves no state; the next start makes an empty one,
and the next restore removes the original as what an earlier one put aside. A
clear that dies may leave data without a stamp.

Limits kept as assumptions of the passing runs. With `TimersOvertaken`, a
restart timer's callback that waits for the mutex while an operator starts the
unit launches it a second time, since it does not look whether it is still the
unit's timer; `NoOrphan` is checked with FALSE, `OrderKept` with TRUE. With an engine that goes quiet
while a stop waits, the code promises no end of the stop; that `Stop` ends is
checked on the host. `EndsLate` and `Overlaps` are FALSE in the passing runs, as
`TakesLast` and `Reorders` are but in `reused_number` and `torn_frame`, and one
goroutine reads a stream: each says above what the other value breaks.
`Overlaps` with FALSE also keeps a Core from starting while a verb goes on, so
one that starts between a verb's look (`instances.go:334`) and its write is not
checked (*Trunk*, (4)).

Assumed of what is not modelled: the retention figures of the account's own
configuration are well formed; and no parameter's name begins with `bind.`,
which a reference would read as a binding.

Three properties are silent where their hazard was lost already: `RecordIsActedOn`
of a wake that was lost, since the guardian then still owes the record a look;
`NoOrphan`, where proved, of timers that are overtaken; and `LaunchedWhole` of a
Manifest edited between the two readings (`Agreed`).

## Proofs

All the proofs are of the specifications that TLC checks, for every value of the
constants the assumptions admit (`UnitsAssumption`, `BoundsAssumption`,
`SwitchesAssumption`; `SlotsAssumption`, `FramesAssumption`; `EventsAssumption`,
`NumbersAssumption`, `ValuesAssumption`; `CapsAssumption`, `LogAssumption`;
`LivesAssumption`; `CallsAssumption`; `RulesAssumption`,
`ChannelsAssumption`, `DeliveriesAssumption`; `AuthorityAssumption`;
`GateAssumption`, `PlacesAssumption`, `DocumentsAssumption`; `GuardianAssumption`;
`ReclaimAssumption`; `TrunkAssumption`). `DocumentsAssumption` is what a document
says of each thing being of one form or not written (a text of parts, a figure a
number, at most one default, finitely many bindings), with the schema its form
reads it by; it says nothing of which of them refer to what. Nothing else is
assumed, except where a theorem says so in its statement: one value of a switch
whose other value a finding shows to break the property (`Reorders`,
`TakesLast`, `TimersOvertaken`, `EndsLate`, `Overlaps`), and four more.
`EngineServes`: of the units in containers none is a plugin, and the engine answers a launch and is not quiet; each of the three is
needed (*Supervisor*, above), and a deployment on the host alone always has it.
`NoCircle`: the rules of arbitration have ranks, since a document is not refused
for a circle and in a circle nobody is in control. `OneReader`: one goroutine
reads a stream, which is how the Core runs. And for `StateStaysReadable` every
version of an application names an image or none does: a version that names none
looks for no containers (*Trunk*, (2)), and what one before it left writes on.
Where the code leaves a window open that breaks a promise, and one step takes it,
no hypothesis keeps that step out: a ghost marks the unit, the version, the pin or
the claim it was taken on, and the theorem is about all the others (`strayed`,
`shared`, `late`, `overtaken`, `beyond`, `unheard`).

Two fields of one record are written `[f EXCEPT ![r] = [@ EXCEPT !.a = x, !.b = y]]`
throughout, never as two updates at one index: the prover's translation of the
latter is not to be relied on.

* `SupervisorProofs!TypeCorrect`: every handler keeps the types, one lemma per
  group of handlers. `SignalsCorrect`: on the host a unit
  signals only the life it will conclude, the last one counted, not concluded
  yet. It is not inductive alone, because recording a launch in flight could
  name any life: `HostInv` adds that a unit on the host has none in flight.
  `EndsComeFirst` and `NoneIsLost`, with `TimersOvertaken = FALSE` and
  `EngineServes`, are about units in containers too. The invariant (`SightInv`)
  says of every unit that what it signals is the life it will conclude, and is
  being ended if the unit is terminal; that a life that is alive is the one
  signalled, is being ended, or is in flight; that a launch in flight is
  superseded, or of the life that starts, with nothing running; that a timer is
  armed once the life before was concluded; and that what an attempt finds has no
  timer, is not held, and signals a process only where it is being ended. The last
  is what keeps an attempt from overwriting a process, and it holds of a start
  because `StartUnit` leaves alone a unit with a process that is not terminal.
  `LaunchesInOrder`, with no hypothesis, is the first half of `OrderKept`. Its
  invariant (`LaunchInv`) says that what a unit awaits are dependencies not ready,
  none where it is not held; that what it does not await has a place in the order
  before it; and that a life that began has one: so a release, which takes away
  the last awaited, places a unit after all it depends on.
  `StopsInReverse` is the whole of it, however late a timer is and whatever
  operators ask, with no hypothesis. On the host what is alive is what its unit
  signals, or is beyond what `Stop` answers for (`KeptInv`); once `Stop` has begun
  nothing is due but what an operator started, whose next life is beyond it
  (`DueInv`); and what is left to stop is the beginning of the order, in which a
  unit is once (`StopInv`): so a dependant, coming later, has been stopped.
  `KeepsItsPromise` is the refinement: under the hypotheses of `EndsComeFirst`
  `Supervisor` implements `UnitLife` by the mapping of `Promise`. One lemma per
  group of actions maps it to a step or a stutter, from `LaunchInv`, `SightInv`
  and that a timer is armed only where the policy restarts (`ArmedByPolicy`);
  the last makes an attempt of a timer's the one the promise owes a failure.
* `RingProofs`: `NoTornFrame`, `GapsAddUp`, `NoWakeupLost`, `LossesAreLaps`,
  with `Reorders = FALSE`, and `TypeCorrect`. One inductive invariant: what is
  being published has its number nowhere yet; a slot's number other than zero
  vouches for every word, and a frame published stays in its slot until the one
  a whole ring later is begun; a reader that found its frame before copying
  either finds it there still, and holds its words, or will never find its
  number again.
* `BusProofs`: `HandsTheNext` and `PicturesTrue`. The invariant has three parts:
  a queue holds, in order and up to its last, every number the filter selects
  above what its client was told; the last change in the log of a subject with
  none pending is its record; a client's picture of a subject is its record
  unless a change above what it was told says otherwise. The second and the
  third are what reconciles the two roads, records and events.
* `LogstoreProofs`: `TypeCorrect` and `ClosedKeeps`, and, with
  `TakesLast = FALSE`, `PushesAllWritten` and `SkipsNothing`. The invariant has
  three parts: what is held is in the batch or the queue, in order and after
  all that was written; numbers keep that order, because the last one given is
  still in the store; a follow's cursor is the number of the last entry it told
  of, and what the store holds above it is in its page, or is written after
  everything in it and will wake the follow. The second part is what fails once
  retention may take the newest row.
* `SessionsProofs`, of `Participation`, with nothing assumed: `TypeCorrect`, and
  `ParticipantsLive`, `AdmissionsKept` and `OneSessionOpen`, of a unit until a
  call about an ended life moved it. The invariant is about the token: a registration past it is
  of the last launch, and the only one of its life that got so far; so an
  acceptance on its way finds the machine Starting or ended, and no refusal is
  on its way beside it. `OneSession` follows from more than itself: a Session
  found or open is of the life that is live to admission (`SessionLive`), so
  what ends that life, or admits the next, finds none halfway open.
  Of `Streams`: `StreamTypesCorrect` and `AnswersKept` for both values of
  `EndsLate`, and `NothingOutlives` with `EndsLate = FALSE`. `NothingKept` is
  not inductive, because it does not say when an answered start's Session may
  end. The invariant adds what a call has by the step it is at (`CallInv`), that
  of the lives launched at most the last has a Session that is not over, and
  that a life whose Session is still open is concluded only with its process
  gone (`SessionInv`): so nothing answers between the taking of the transports
  and the end of the Session, and an answer that was heard is of a Session that
  has yet to take them (`FlowInv`).
* `SurfacesProofs`. `ControlIsSomeones` and `ChannelsAreInControl`: the verdicts
  are those computed of who holds and who reclaimed now (`VerdictsAreCurrent`),
  and of those that hold one of the least rank is under nobody's; the second
  carries it through everything that attaches, loses and reclaims.
  `CountsAreExact`: the balance is over the goroutines that have a count to
  make, so each must be at a step of its own kind, an attachment that is
  current be the one its channel remembers, and those goroutines be finitely
  many, or the sums mean nothing (`ShapeInv`, `CountInv`). `FedIsReleasable`: a
  delivery is in one of held, being added, being released and released, and an
  attachment that ends takes over all that is held; and what fell behind or was
  cut is in a goroutine's list until its release is taken (`HeldInv`).
  `DeliveriesHandWhole`: the frame in hand is the last read, it goes to no one
  who was left behind, and what a delivery missed since its last frame it was
  told of (`HandInv`, `CarriedInv`); several readers of one stream break it.
* `AuthorityProofs`: `AuthorityTypeCorrect`, `RegistryIsKept` and
  `ScopesAreAccounted`. `DecisionsChange` is inductive once it is known what a
  request is about, and that one to write the policy, overtaken by no write,
  still changes it (`RequestInv`): the transaction's refusal is what gives this.
  A running copy's account has to hold from the step that reads its grants, with
  its Session not open yet (`CopyInv`): a decision taken between that step and
  the admission looks at the copy all the same, because it looks at one that is
  starting. What was found by a scan joins and is declared before it replaces
  what the last one read (`ScanInv`), so what a copy was admitted with joins.
  Of `Declarations`, for every set of bundles, hosts, drafts and values:
  `StartsAreAsGated` and `LaunchesWhole`. The first compares what three parts of
  the program ask of one gate. A record that was gated would be gated again
  (`RecordedSound`), and a Core that was executed would pass the guardian's gate
  with what it was handed, at every step of its start (`GatedSound`); each
  finding of a phase is then of the document alone, of what both ask of the
  host, or of what only the later asks, the range of Cores included where the
  guardian could not read the version (`unread`). Of a record made before its
  instance has a name, gated with a root that is shorter, it says nothing
  (`passed`), nor of a Core that reads a value for another's (`misread`): of the
  others it is proved that they read what was handed to them.
  The second says, phase by phase, what a document that passed has: parameters
  that are declared and have values, bindings of what is needed, dependencies
  that are there, figures that are not negative (`BuiltInv`). That replacing a
  unit's bindings one after another leaves nothing to resolve is an induction
  over their order, made as the least place that would break it. It showed that
  three `CASE`s, of `Declarations`, `Gate` and `Trunk`, had arms that overlapped
  and so, formally, no one value; the arms now exclude each other.

* `AccountProofs`, of `Reclaim`, with nothing assumed: `OneCoreServes`, because a
  file is held by one, and whoever holds one and has not removed it holds the one
  at the path, unless a lock was taken on another (`ClaimsInv`); and
  `InstalledStaysWhole`, because one process is at work on a version that was
  never shared; what is pinned in time, or found by a pin on its way, is complete
  or withdrawn and whole; and an installation or a removal finds the version as
  it last wrote it (`InstalledInv`). A removal that listed one pinned version
  while another was at work on it broke the proof: that is finding (5), and part
  of what `shared` is.
  Of `Guardian`, with nothing assumed: `DeclaredIsActedOn` and
  `NothingIsCarriedOver`. A guardian that is not waiting owes the record a look,
  and one that waits and owes none acts on it; the one watched is the only Core
  that may have units, and a timer of its run is for it (`GuardianInv`).
  Of `Trunk`: `NothingIsInherited` rests on one start at a time, which has the
  claim once past it, on containers being those of Cores that came to their
  units, and on nothing of another running once a Core that names an image is
  past the removal (`LivesInv`). `StateStaysReadable` needs also that a start,
  from its gate until it stamps, is of a version that reads the stamp, and that
  whoever has the state, or a container that will, wrote it (`StampSound`).
  `RestoreKeepsState` and `LivesAreTyped` hold whatever overlaps what: a copy is
  whole before anything is moved and the state is missing only between a
  restore's two renames (`StateSound`).

Checked by TLC only: everything under fairness (`WaitsEnd`, `HoldEnds`,
`QuietIsMadeUp`, `NoneSleepsThrough`, `FollowHears`, `FlowsEnd`, `AskedIsEnded`),
which the prover does not reach. Every other property of a passing run is stated
by a theorem.

## What is not modelled

Durations (every timer may run out at any moment while armed), contents of
messages, output and logs, the digest of an executable, what a need expands
into. In `Participation`, a second disabling asked for while one is under way,
and of the supervisor everything but what admission, Sessions and disabling
reach. Each module's first comment says what it leaves out of the code it is of.

Components left out: the engine's HTTP client (its answers and its silence are
in `Supervisor` and `Trunk`); generators, parsers and other checks of documents
(of `gate`, the reading of YAML, the findings that only warn and the plugin
project; `compose`, `config`, `version`, `pkgfile`), which keep no state between
calls; the queue of 64 exchanges of a
Session; the credential the Registry keeps; the connections of the
administrative shell and `app run`, on which the two notes above and the next
are all that is said; the bindings to the kernel and the host (`peer`, `pam`,
`hostauth`); `conformance`, `release`, `verify` and the commands; generated
code.

Seen in code that is not modelled. `admin.go` sends a subscription's last frame
before its entry leaves the table, and lets the lock go before the record of the
subscription is erased: a client that replaces a standing subscription, as
`shell.proto` allows, may be refused or have the new one's record erased. A
connection accepted as the shared listener closes is never closed.
`supervised.StartUnit` and its like use the supervisor without looking whether
it is there, and it is set without a lock while channels already serve.

## Plan

Done, in order: the unit's machine and the supervisor, the ring, the bus,
participation, the log store, a stream and its calls; then the surfaces
(arbitration, attachments, deliveries), the guardian, installing and reclaiming,
the claim, the lives of a Core over its state, what a plugin may do, and what is
written, gated and launched.

Left to model:

1. `Exchange`: every message of a Session, with the queue of 64 and the order it
   keeps. Abstractly: a call that is answered once, or told why not.
2. `Shell`: a client's connection to the administrative surface, with its
   subscriptions and their replacement.

Nothing that is checked and within the prover's reach is left to prove. What
would extend it are the windows the hypotheses close: `EndsComeFirst` and
`KeepsItsPromise` for a deployment with plugins in containers, once a superseded
launch there cannot outlive its unit; and what the ghosts leave out, once the code
closes those windows: `StopsInReverse` without `beyond`, once `StartUnit` looks
whether the Core stops, and the theorems on admission without `strayed`, once a
call names the life it is about.
