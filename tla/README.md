# TLA+ model of edgegate-core

edgegate-core wraps sing-box for desktop, mobile and command-line clients. It
starts and stops one *box* (a sing-box instance), turns profiles into sing-box
configurations, and lets clients poll what the box is doing. A web page it ships
(`extension/html`) shows the state of the core and the forms of extensions over
gRPC-Web. This directory holds the TLA+ modules that model the core, its
services and that page, the TLC configurations that check them on small
instances, and TLAPS proofs of the safety properties for every size of those
instances.

The services are Go; the page is one JavaScript bundle (`extension/html/rpc.js`)
with the generated messages beside it. Paths below are relative to `src/`.

## 1. Inventory

| component | source | state it keeps | operations | modelled in |
|---|---|---|---|---|
| Core lifecycle | `v2/hcore/{start,stop,restart,custom,coreinfo,static_data}.go` | `static`: `Box`, `CoreState`, `lock`; rows `lastStartRequest*` | `StartService`, `Stop`, `Restart`, `Close`, `StopAndAlert`, panic handlers | `CoreLifecycle` (refines `CoreService`) |
| FFI snapshot caches | `v2/hcore/{ffi_snapshot,commands,proxy_info}.go` | three caches, four mutexes, `ffiOutboundsDirty`, two times, two once-started goroutines | `Snapshot*JSON`, `SelectOutbound`, `UrlTest`, `refreshFFISnapshotCaches` | `FFISnapshot` |
| Tables | `v2/db/core_db.go` | one LevelDB per table, opened for every call | `Get`, `All`, `UpdateInsert`, `Delete` | `CoreDB` (refines `CoreTable`) |
| Profile repository | `v2/profile/profile_repository.go` | rows, `data/profiles/*.info`, `active_profile` | add, delete, update, set active | `ProfileRepository` |
| Tunnel service, commander | `v2/hcore/tunnelservice/` | `TunnelService.box`, `tunnelServiceRunning` | `Start`, `Stop`, `Exit`; `ActivateTunnelService`, `DeactivateTunnelService`, `ExitTunnelService` | `TunnelService` |
| Standalone runner | `v2/hcore/standalone.go` | `current` of the updater goroutine | `RunStandalone`, `updateConfigInterval` | `StandaloneUpdater` (composes `CoreService`) |
| Page: connection pane | `extension/html/rpc.js`, `v2/hcore/{coreinfo,grpc_streams_legacy}.go` | the pane and its text; the observer's buffer and the stream's | the two buttons, `connect`, `handleCoreStatus`; `CoreInfoListener` | `ConnectionPage` |
| Extension host | `extension/*.go` | `enabledExtensionsMap`, one queue per instance, rows | `ListExtensions`, `Connect`, `SubmitForm`, `Close`, `EditExtension` | `ExtensionHost` |
| Page: extensions | `extension/html/rpc.js` | `currentExtensionId`, the list, the form, the dialog and its listeners | list, toggle, open, submit, stop | `ExtensionPage` (composes `ExtensionHost`) |
| Page: messages and stubs | `extension/html/rpc.js`, `extension/html/rpc/**/*_pb.js` | none | reading, writing and default values of each class; the clients' methods | `Wire`, `BundleMessages`, `ServerMessages`, `PageWire` |
| Configuration entry points | `v2/hcore/{buildconfighelper,service}.go` | `static.CoreOptions`, working directory | `Parse`, `BuildConfig`, `ChangeCoreSettings`, `Setup`, `NewService` | partly: the steps of a start |
| Mobile binding | `platform/mobile/mobile.go` | `server`, `lastConfigContent`, `setupLock` | `Setup`, `Start`, `Stop`, `Close`, `ServiceReload` | planned |
| gRPC servers | `v2/hcore/grpc_server.go` | `grpcServer` map, key rows | start by mode, close | planned |
| Independent instances | `v2/hcore/independent_instance.go` | a box of its own, a random port | `RunInstance`, `Ping`, `Close` | hazards only |
| Configuration pipeline | `v2/config/*.go` | none (pure, but for one global) | `setOutbounds`, `setDns`, `setRoutingOptions`, official runtime preparation | planned |
| Other streams, logs, stubs, CLI, OS helpers, generated Go | the rest | none that others read | | no |

### How the parts interact

* Every FFI export, gRPC handler and CLI command is a goroutine of its own that
  calls the package-level functions of `hcore`. They share `static`.
* `static.lock` covers the bodies of `StartService` and `Stop`, nothing else.
  `errorWrapper` runs under it. `StopAndAlert` also runs *without* it: in the
  deferred recovery of a panic (defers run unlock first, recover second), and
  in the converters `Parse` and `GenerateConfig`.
* `StartService` and `Stop` end in `refreshFFISnapshotCaches`, still holding
  `static.lock`; the snapshot code takes its own mutexes and reads `static.Box`
  without any. `SelectOutbound` and `UrlTest` change the box and refresh too.
  `StopAndAlert` refreshes nothing.
* Each `SetCoreStatus` emits to an observer with a buffer of one; its goroutine
  hands the status to each `CoreInfoListener` stream, whose buffer is one as
  well, and a status that finds a buffer full is dropped. The page has one such
  stream and one `Connect` stream per extension page that was ever opened.
* `StartService` saves its request through `db.Table` and reads it back when it
  is given an empty one. Profiles, extension data and gRPC keys are in tables
  as well. A table is opened and closed by each call; LevelDB's lock file is
  the only thing that orders calls, across goroutines and processes.
* The core's admin extension, when the core starts and closes, and the command
  line command the tunnel service over loopback gRPC; that is another process,
  with a box of its own, which the operating system's service manager starts.

### What is hard here, and what makes each part correct

* *Lifecycle*: concurrent callers, a dozen error returns, panics recovered after
  the unlock, and a failure path that itself closes the service. Correct: status
  and box agree whenever nobody works on them; at most one box alive, reachable;
  replies describe the core; what is remembered is what runs; calls return.
* *Snapshots*: check-then-act on `static.Box`, overlapping refreshes, a dirty
  mark that may be cleared by a refresh that started earlier, background
  goroutines. Correct: caches never go back in time, never hide a finished
  call, are fresh when all is quiet, and recover from an alert.
* *Tables*: a lock that is tried and not waited for, a stale look at the
  directory, batches written row by row, process death. Correct: each call is
  atomic, apart from failed batches.
* *Profiles*: a row, a file and a setting that are written one after the other,
  with a download in between. Correct: every row has its file, the active
  profile has a row, an address has one row; each but for named exceptions.
* *Tunnel*: deadlines shorter than the work they bound, answers that come too
  late, a process that ends a second after it was told to. Correct: one tunnel,
  which the service can close; reports that are true; commands that return.
* *Connection pane*: a lossy queue, a stream that ends or breaks, answers of
  clicks that overtake the stream. Correct: the pane settles on the core.
* *Extensions*: a queue of one that is filled before it is emptied, streams that
  are never closed, listeners that pile up, edits that overlap, table calls that
  fail unnoticed. Correct: forms go to the extension they are of, the list settles
  on the rows, what is enabled is loaded, an opened page gets its form.
* *The rest*: see `hazards` in `PROJECT.json`; those without a property are the
  work list of section 2.

## 2. Plan

Done, in this order: `CoreService` and `CoreLifecycle`, `FFISnapshot`, `CoreTable`
and `CoreDB`, `StandaloneUpdater`; the message layer (`Wire`, `BundleMessages`,
`ServerMessages`, `PageWire`) with `ConnectionPage`, `ExtensionHost` and
`ExtensionPage` over it; `ProfileRepository` and `TunnelService`; the proofs of the
invariants, the action properties and the two refinements of all of them.

What is left, most important first:

1. `MobileBinding`: app calls against command-server callbacks, `lastConfigContent`
   after a start that failed.
2. `CoreSettings`: `ChangeCoreSettings`, `Setup` and the gRPC server map.
3. `ConfigPipeline`: outbounds, DNS and routing as operators on small option
   records; every tag a rule, a group or a detour names is declared.

Every invariant and action property that a run checks is a theorem. Still worth
proving: a bound on the work of a tunnel command and of a profile call, like those
that `CallsEnd` and `DBCallsEnd` give for the lifecycle and the tables.

## 3. The modules

### CoreService, CoreLifecycle, CoreRefinement

`CoreLifecycle` has one variable per field of `static` that matters (`Box`,
`CoreState`, `lock`), the rows of the last request (`saved`), what became of
every `BoxService` (`life`, `runs`), and per goroutine its program counter, the
operation and request it serves, its local `instance`, the message type of the
reply it is about to give and the number of recover frames below it.

An action is a stretch of code that another goroutine cannot look into. Bodies
under `static.lock` are split where an unlocked `StopAndAlert` can get between
two accesses of `static.Box` or `static.CoreState`:

* `StartRefused`/`StartAccepted` take the mutex and test the status
  (start.go:82-88); `LoadLastStartRequest`, `BuildConfig`,
  `SaveLastStartRequest`, `PreStartHooks`, `NewService`, `RunService`,
  `PublishBox`, `RefreshAfterStart` and `StartDone` are the rest of the body in
  its order; `LoadFails`, `StartFails`, `RunFails` and `StartPanics` its other
  exits. Where `Start()` of the box itself panics, `StartPanics` leaves the
  instance *halfway*: sing-box closes itself only on the error return of its
  `Start`, and hcore has no variable left that refers to it. `OneRunningBox` counts
  such an instance as alive, so that it does not hold with panics there. A `Close()`
  that panics leaves a box halfway as well, and a second one may or may not finish
  it (`AfterClose`).
* `StopLock` ... `StopDone` are stop.go:26-40. `StopSucceeds` also models how
  `Restart` goes on to `StartService` with the mutex free in between.
* `AlertStatus` ... `AlertEnd` are `errorWrapper` and `StopAndAlert`.
* `Panic` is the unwinding to the innermost `DeferPanicToError`: unlock, then
  alert. With no frame left the process dies (`crashed`).

A configuration is a model value and a request has two fields (path, content).
The request's name and its options do not influence control and are left out.
A `BoxService` that nobody references may be created again, which stands for
garbage collection and lets a few boxes stand for any number.

`CoreService` is the promise to clients: a running configuration or none, and
calls that take effect at one instant. `CoreRefinement` maps the code onto it.

### FFISnapshot

The truth about the box is a version number (`core`), incremented by every
change a client could see; `gen` is the version at which the box was published,
so that two boxes can be told apart. A cache holds the version it was filled
from. Actors are callers, the goroutines `SelectOutbound` leaves behind
(`Worker`) and the two background goroutines. The three caches, the mutexes
`ffiOutboundsRefreshLock`, `ffiStatusLock` and `static.lock`, the dirty mark and
the age of the last refresh (`due`) are variables. The mutexes that guard single
assignments (`ffiOutboundsLock`, `ffiMainOutboundsLock`, `ffiOutboundsMetaLock`)
are covered by making each such section one action. Starting and stopping are
reduced to publishing and clearing the box plus the refresh; the steps before
and after are `CoreLifecycle`'s.

Every second read of `static.Box` after a nil check is a step of its own, and a
nil box there ends the process (`NilBox`), except inside `StartService`, whose
frame recovers it.

### CoreTable, CoreDB

`CoreTable` is an atomic map with a request/answer interface; its only liberties
are that any call may fail and that a failed or interrupted batch may have been
written up to some item. `CoreDB` is the code: look for the directory, open with
retries, work, close. The lock of LevelDB is held shared by read-only openers
and exclusively by others (`Free`, external). `base` is a history variable, the
rows when the current writer got its lock; the refinement shows the abstract
table as `base` until the writer is done, so that a batch appears at once.
`Dies` may strike at every step and loses nothing that was written: a `Set` is
in the operating system's hands when it returns. A power failure, which may lose
unsynced writes, is outside the model.

### StandaloneUpdater

The command `run` as two goroutines over an instance of `CoreService`, which
stands for `StartService` and `Stop` (that it may is `ImplementsCoreService`).
`source` is the configuration the profile would give at this moment and may
change at any time; `current` is the updater's variable; `want` is the
configuration in the request a goroutine is about to make or has made. Reading
and building a profile either gives `source` or fails, and a failed read leaves
no trace. `failed` and `raced` are history: the configuration of the last start
if it failed, and whether the signal came while the updater was between its
`Stop` and the end of its `StartService` (or the other way round). Once main has
returned, nothing moves.

### Wire, BundleMessages, ServerMessages, PageWire

A class is a function from field numbers to name, type and shape (one value,
many, or a map); a message is a function from field names to values. `Write`
leaves out fields with their default, `Read` gives fields it does not find their
default, skips those it does not know, and fails (`~Readable`) where the wire
type is another than it expects. That is what every generated
`serializeBinaryToWriter` and `deserializeBinaryFromReader` does, so that each of
the bundle's ten thousand lines of generated code is one line here: the class's
fields in `BundleMessages` or, for the files generated from this commit's
schemas, `ServerMessages`. The clients of the bundle are the `Method`s.

The bundle was built from an earlier schema than the rest of the commit.
`PageWire` states, as assumptions TLC evaluates with every run of a page module,
how the two fit together: the messages the page itself sends and reads agree
(`GenerationsAgree`), three others changed the wire type of a field
(`GenerationsDisagree`), and every path of the bundle names the package
`corerpc`, which a server of this commit does not register (`PathsDiffer`). So
each call of the page as it is checked in is answered with UNIMPLEMENTED. The
page's modules describe it beside a server that registers the old names.

### ConnectionPage

The core is reduced to the statuses that `StartService`, `Stop`, `errorWrapper`
and an unlocked `StopAndAlert` publish (`core`, numbered by `ver`). A
`SetCoreStatus` is two steps, the assignment and the `Emit`, because alerts do it
without the lock. A status then passes the observer's buffer (`source`), the
stream's (`buffer`) and the connection (`net`), on which it is a message of
`Wire`: written by the server's class and read by the bundle's. `stream` goes
from `opening` to `subscribed` (CoreInfoListener has subscribed) to `open` (it
has sent the state it read); an end starts a timer and a new stream, a broken
connection is final, as grpc-web then fires 'error' and no 'end'. `clicks` are
the button handlers, which await their calls and wait for nobody else.

`handleCoreStatus` compares a message with a number by `==`, which is true only
of a message with no type and no text. A status with a type or a text therefore
shows the connecting pane with whatever it said before, the stopped core
included. `SettlesOnCore` speaks of the status the pane was drawn from, and of
the state only where the status has no type. In `index.html` the connecting pane
also has the class `d-none`, which hides it; its handlers are there all the same.
The settings sent before a start are always empty: the page reads an input whose
id it does not have. Neither is visible to the properties.

### ExtensionHost, ExtensionPage

`ExtensionHost` has the rows, the loaded instances (numbered, as an edit loads a
new one while streams stay on the old), the queue of one of each instance, and
the calls. `Connect` puts the extension's form on the queue and only then starts
to empty it; `SubmitForm` may put a form or a dialog. `Close` of a loaded
extension, and disabling one, assert the type `*Base[any]`, which no extension
has, and the process dies of the panic: the page never sees them succeed.
`spoiled` records instances that kept a message no stream waited for.

`EditExtension` is five steps, between which other edits of the extension may run:
the look for the instance (`EditLooks`), the map (`EditRemoves`), the row, read and
written (`EditStores`), and for an enabling edit the second read of the row
(`EditLoads`) and the map again (`EditInstalls`). Any of its table calls may fail:
a row that cannot be read counts as not enabled, an update that fails goes
unnoticed, and so does a load that finds nothing. `Restart` is the loading at the
start of a process, which takes the extensions in any order, stops at the first
table call that fails for good, and overwrites a row it cannot read with one that
is not enabled (`seen`, `reset`). `missed` records the extensions that a failing call
left enabled and not loaded; it is what `EnabledIsLoaded` excepts. The reading and
writing of a row is one step: a row has nothing but the switch in it that is
modelled.

The registration of the extension service (extension/interface.go:125) and of the
host at the gRPC server (grpc_server.go:42) is commented out at this commit; the
modules describe the host as it works once both are registered.

`ExtensionPage` adds the page: the list and its loads, the switches, the current
extension, the form and the dialog with its listeners. A stream is never
cancelled, and each dialog leaves a listener behind that submits `CloseDialog`
for the current extension when any dialog is hidden. A `Connect` that is refused
is answered with headers only, which grpc-web reports as an error and not as an
end (rpc.js:723-727 and 10033), so the page does not connect again. `muddled`
records the cases in which `ListSettles` promises nothing: two loads at once, a load
that failed, and a row that changed behind the list, when a process starts.

### ProfileRepository

Rows, files, the active profile and what each call is about to do. A call is
split at every table access, file operation and download; the table calls are
atomic, as `CoreDB` shows they are. Three variables are history: `removed`, the
profiles whose removal was begun; `bare`, the rows that may lack their file; and
`twice`, the addresses that may have two rows because their adds overlapped, the
lookup failed, or a client wrote one itself with `UpdateProfile`. A failed lookup
counts as "none" in the code (`FindsNone`), and the file goes before the row. To
delete or mark a profile by an address or a name that is not found panics
(`FindPanics`); by id a delete goes straight to the file and the row, be they there
or not, and a mark reads the row first. `UpdateProfile` writes whatever row it is
given, also under an id that has none or that the client made up (`MadeUp`): such a
row is `bare` from then on, as is one whose file a removal took before its row was
gone. A download tries three
times, the last with an instance of its own that is never closed (`instances`
counts them; the code promises nothing about their number).

### TunnelService

The service process (`up`, `launching`, `exiting`), its box (`s.box`) and those
that run (`live`), the handlers under way, and per client process the command it
gives. A client's local steps between two calls are one step. When a deadline
passes, the client goes on and its handler stays, as an *orphan* (`GivesUp`).
`Exit` ends the process a second after its answer, and the commander waits a
second before it looks at the port: either may come first.

What the module shows of the code beyond its properties: `s.box` is never
cleared, so that a second Stop is an error; two overlapping activations may leave
a box running that no call closes (`crossed`); an activation may be answered by a
service that is about to end; a Start that outlived its client may bring a tunnel
up after the activation has failed. `ExitTunnelService` drops the error of its call
and answers the wrong way round: true when `Exit` gave no answer, false and no error
when it did (`ToldToExit`). `tunnelServiceRunning` is written and never
decides anything, and `ExecuteCmd`'s result does not say whether a service runs
(`RunsService` allows both).

## 4. The runs

| run | instance | shows |
|---|---|---|
| `core` | 2 goroutines, 2 boxes, 2 configurations, requests by content, by path and empty; every error return, no panic | the lifecycle invariants (one box alive among them), truthful replies, refinement of `CoreService` |
| `core_panics` | 1 goroutine, 3 boxes, every external call may panic, also inside the recovery | status, truthful replies |
| `core_returns` | 2 goroutines, 1 box, panics everywhere | every call returns although alerts run beside the mutex; only a panic inside a handler is fatal |
| `snapshot_outbounds` | 2 callers, 1 worker, alerts, 2 changes of the core and an alert past them; start, select, read, poll | freshness, monotony, finished calls are seen |
| `snapshot_live` | 1 caller, alerts, 3 changes, fairness; start, stop, URL test, read, poll | rates are of one box; snapshots find out about an alert |
| `standalone` | 3 configurations, edits at any time, any start may fail, the signal at any time | the updater's `current` is what runs, edits are taken over, a clean end unless the signal met a restart |
| `table` | 3 processes, 2 keys, 3 batches, 2 attempts of which 1 read-only | refinement of `CoreTable` |
| `table_comment` | 2 processes, 3 attempts | *violation*: a read creates the table |
| `connection` | 1 click handler, 2 presses, 1 operation, failure or alert of others, 1 end or break of the stream, 1 status on its way | the pane settles on the core's last status; it keeps coming back to that |
| `extensions` | 2 extensions, one enabled, 2 streams, 2 edits, 3 submissions, 4 of these calls together, 3 loads, 1 fault, any table call may fail | forms go home, the list settles, enabled is loaded or was missed, streams block only on a spoiled queue, an opened page gets its form |
| `profiles` | 2 calls at a time, 4 in all, 2 addresses, 3 profiles, an id that a client made up, 2 faults | a row has its file, an address one row, the active profile its row, with the named exceptions |
| `tunnel` | 2 client processes, 2 commands, 1 orphaned handler, 1 death | one tunnel, true reports, commands return |

Bounds. Two goroutines give every pair of operations in every interleaving; the
invariants are about at most two parties (a body and whoever comes next, or a
body and an alert). Two boxes are enough without panics, because at most one
is referenced from `static.Box` and one from a local; with panics a half-started one
stays behind, hence three. `MaxVersion` bounds the changes of the core, but for
one alert more: with two, a start, a selection or test and an alert fit, which is
what the outbound caches have to sort out; with three, a second box as well,
which the traffic rates are about. Two attempts,
one of them read-only, give every kind of attempt `getDB` makes; three
processes give a reader, a writer and one that is refused. Three configurations
let the profile move on while the updater goes from one to another.

One handler and one operation of others make two parties at the core's lock, and
two presses give a start and a stop; the one message a full buffer drops needs
three statuses, which a start that fails or an alert beside one supplies. Two
streams are the page opened before and the one opened after; three submissions
fill a queue of one with and without a stream and leave one waiting; three loads
are the first one, one that overlaps it and one after an edit. Two edits overlap in
every way, of one extension or of two, in either direction. The streams, edits and
submissions of a behaviour are four together (`MaxCalls`), so that each pair of them
meets with something before or after it; that the safety properties hold for any
number is a theorem (section 5). In `profiles`, four calls are two adds of one address, a
removal and a call that uses what it left. In `tunnel` two commands are every
pair. The invariants, action properties and refinements of all runs hold for any
number, by the theorems of section 5 and under the conditions named there.

`CHECK_DEADLOCK FALSE` stands only where the system may come to a real end: the
process dies (`crashed`, a nil box) or returns (`standalone`), or the bounded
number of clicks, calls, commands and faults is used up and all is quiet.

Fairness. Goroutines are scheduled by the Go runtime, so each enabled step of a
goroutine is eventually taken (weak fairness). `sync.Mutex` switches to
starvation mode after a waiter has waited a millisecond and hands the lock over, so
taking a mutex is strongly fair. External calls return, fail or panic. The
timers of the background goroutines fire, and the profile of the standalone
runner can be read now and then (a failed read only sets its timer again). That
the calls of `CoreService` take effect and return is what `EveryCallReturns` shows
of `CoreLifecycle`. The page's event loop turns and what was sent on a connection
that does not break arrives; a handler of the tunnel service ends, and a client
waits no longer than its deadline. The handlers of the tunnel service share one
weak fairness condition, as some handler's step is always enabled while one is
under way and each has at most two. The signal need not come. Nobody is assumed to
make a call, to press a button, to restart a process or to break a stream, and no
outcome of a call is assumed.

Every property has a mutant: a definition marked "Mutant of" in the module, a
plausible slip in that code, under which TLC finds the property violated.

### A disagreement with a comment

`getDB` says "Check if the database file exists; if not, set to readOnly"
(v2/db/core_db.go:18) and does the opposite: it clears `readOnly`, so that the
first read of a table creates it. Run `table_comment` shows it. The code is
probably what was meant, the comment is not.

## 5. The proofs

`CoreLifecycleProofs` (checked by `tlapm`, like the others) proves for every set
of goroutines, boxes, configurations and requests:

* with any panics: `TypeCorrect` (`TypeOK`), `RecoversAreInPlace`
  (`OnlyHandlersDie`), `MutexIsNeverLeaked` and `CallsEnd`;
* under `PanicSite = {}`: `StatusIsRight`, `NeverTwoBoxes` (`OneRunningBox`), `RemembersRunning`,
  `RepliesAreTruthful` and `CallsAreAtomic`, the refinement of `CoreService`;
* with any panics, as long as no handler meets another goroutine (`Undisturbed`):
  `UndisturbedIsSafe` (`StatusMatchesBox` and `RunningIsRemembered`) and
  `UndisturbedIsTold` (`ReplyIsTruthful`); and if moreover `Start()` and `Close()` of
  a box do not panic, `UndisturbedIsOne` (`OneRunningBox`);
* with any panics and one goroutine, as corollaries: `OneCallerIsSafe` and
  `OneCallerIsTold`.

They rest on the assumption `ConstantsOK` of `CoreLifecycle` (the null values
are not members of the sets they are null for).

The argument. None of the properties is inductive: `StatusMatchesBox` speaks only
of moments when the mutex is free, and nothing in it stops a body from leaving
with the wrong status. The inductive invariant `IInv` adds what the code relies on
silently: a goroutine is inside a body exactly if it holds the mutex; only
the holder has an `instance`; and each label of a body fixes what `CoreState`,
`Box` and the life of the instance are there (for example: at "startPublish" the
status is STARTING, there is no box and the instance runs). `InvStep` goes
through the actions one by one; each needs the clause of its own label, and the
clauses of all other goroutines follow because they do not hold the mutex. The
properties then follow from `IInv`, `ReplyIsTruthful` as a property of the step
that returns. For `CallsAreAtomic` each action is a step of `CoreService` under the
mapping of `CoreRefinement`, or none: a call takes effect where its body publishes
the box, takes it away or finds that it has nothing to do, and `IInv` says what the
box is at that label.

What panics leave of this. The handler of a recovered panic runs after the deferred
unlock, hence without the mutex: with two goroutines it can close the box another
call is about to report as started, so that `StatusMatchesBox` and
`ReplyIsTruthful` fail. `UndisturbedIsSafe` and `UndisturbedIsTold` say that it takes
this to make them fail: they assume `[]Undisturbed` (while a handler works without the
mutex nobody else is inside a body or a handler) and nothing about panics or the
number of goroutines. They do not speak of `OneRunningBox`, which panics break in a
second way: an instance whose `Start()` panicked is alive, at least in part, and
nobody can close it any more, while the status says STOPPED and the next start
succeeds. `UndisturbedIsOne` has the assumption that excludes just that, and
`NoHalves` is what follows from it. The inductive invariant `CalmInv` has the labels' clauses
again, this time also for the labels of a handler, and `Between`: with nobody
inside, status and box agree. As everybody else is outside (`Alone`), a handler is
a piece of the one body at work, like an error return. The hypothesis is met
where it matters: `OneIsUndisturbed` shows it for a single caller, whose theorems
follow, and `NoPanicNoDisturbance` for any number of callers and no panic.

Deadlock and endless loops. `MutexIsNeverLeaked` (`MutexFits`) holds with any panics
and any goroutines: inside a body a goroutine holds `static.lock`, in an alert it
may (if an error return raised the alert), anywhere else it does not. So whoever
waits for the mutex waits for somebody inside a body or an alert, who waits for no
more than the mutexes of the caches, which `MutexesInOrder` below is about.
`CallsEnd` gives every label a position, and to a call the number of steps it may
still make (`StepsLeft`): each step of it lowers that number, also through alerts, a
panic inside a handler and both halves of a `Restart`. The two are what
`EveryCallReturns` says without the fairness: what is left of it is that the steps
are taken. `EveryCallReturns` itself stays with TLC (run `core_returns`).

`StandaloneUpdaterProofs` proves, for every set of configurations and from
`UpdaterConstantsOK` (`Down` is not a configuration): `TypeCorrect`, `CurrentRuns`
(`RunsCurrent`) and `EndsClean` (`NothingLeftRunning`). Both properties speak of
moments between calls; the inductive invariant says what each call in progress
has done so far: `Calls` ties a goroutine's label to its call, `Alone` covers the
time before the updater exists, `Together` the restart, where the service is down
from the return of `Stop` to the effect of `StartService`, and `Ending` the time
after a signal that met no restart. `TypeCorrect` needs it too: `current` is a
configuration only because the request of a restart always carries one. The
proof rests on the actions of `CoreService`, so it holds of the code as far as
`CallsAreAtomic` does, hence without panics.

`FFISnapshotProofs` proves `SnapTypeCorrect` (`TypeOK`), `QuietFresh`
(`QuietIsFresh`), `NeverBack` (`NeverGoesBack`), `ReadsSee`
(`ReadsSeeFinishedCalls`) and `RatesOneBox` (`RatesAreOfOneBox`) for any callers,
workers and bound on the versions, from `SnapshotConstantsOK`. The inductive
invariant `SnapInv`, beside `TypeOK` and which mutex an actor holds where
(`OpFits`, `Mutexes`): no cache is newer than the core, `main` follows `all`, and
what a refresh has read is no older than what the caches show, since it read it
under the mutex of the refresh (`Versions`); what a call has written is in the
caches it has passed (`Shown`); when a cache is not what the core is, some call or
worker has still to refresh it, unless an alert took the box away (`Owed`, the
clause behind `QuietIsFresh`); and a status outlives its box only between a stop
and its look at the status (`Rates`).

`MutexesInOrder` is about the three mutexes together: `static.lock` (as far as a
start or a stop holds it), `ffiOutboundsRefreshLock` and `ffiStatusLock`. Whoever
holds one is at a label between its Lock and its Unlock (`Held`), and the holder of
one of the last two takes no other; so a chain of waiting goroutines has at most two
links (`WaitsEnd`): a caller waits for a start, which waits for a reader's refresh.

`CoreDBProofs` proves `DBTypeCorrect` (`TypeOK`) and `TableIsAtomic`, the refinement
of `CoreTable`, for any processes, keys, values, batches and attempts, from
`DBConstantsOK`. The invariant: what a process asks for fits where it is
(`AskMatchesPc`), LevelDB's lock excludes (`LockWorks`), and a writer has written
the first items of its batch to `base` and nothing else (`WritesInOrder`). While a
writer is at its items the abstract batch has not begun; it takes effect when the
writer is done or fails, or at the death of its process, as far as it came.
`DBCallsEnd` bounds a call, whoever holds the lock: each step lowers the number of
attempts and items that are left (`StepsLeft`), and a lock is held only between the
open and the close of a call.

`PageProofs` proves, of `Wire`, for every class with distinct field names and every
message: what a class writes it reads back (`RoundTrip`); between two generations
that agree on the numbers they share, shared fields arrive and others get their
default (`SharedFieldsArrive`); and a relay drops what it does not know
(`RelayDropsUnknown`). With `PageWire`'s assumptions, which TLC evaluates, they say
of the bundle and this commit's server which messages arrive
(`PageAndServerAgree`) and which are refused (`ChangedAreRefused`). They are about
any record of any size and need no induction: a message is a function, and so is
what is on the wire.

Of the connection pane it proves `ConnTypeCorrect` (`TypeOK`) and `SettlesAlways`
(`SettlesOnCore`) for any number of clicks, other operations, stream ends and
messages, from `ConnectionConstantsOK` (the lock's two other holders are no
clicks). `SettlesOnCore` speaks of moments when nothing is on its way. The
inductive invariant `ConnInv` follows the core's last status there: once it is
emitted it is, unless the ghost knows that it was lost, the last thing in the
observer's buffer, or, that being empty, in the subscription's, or on the
connection, or what the pane shows (`LastWord`); of two statuses that are still to
be emitted one is the core's (`OneFresh`), so that emits in the other order are
noticed. Whatever has the core's number is the core's status (`Pipes`, `NetFits`,
`ShownFits`), and `SharedFieldsArrive` makes it the one the page compares.

`ExtensionProofs` proves `ExtTypeCorrect` (`TypeOK`), `FormsGoHome`
(`FormGoesHome`), `ListsSettle` (`ListSettles`), `EnabledLoaded`
(`EnabledIsLoaded`) and `BlockedSpoiled` (`BlockedOnlyIfSpoiled`) for any
extensions and any number of streams, edits, submissions, loads and faults, from
`HostConstantsOK` and `PageConstantsOK`. `ExtInv` is about the host and the page
together: an instance was made at first, by a restart or by an edit, which bounds
their number (`Instances`); a queued message has a stream that will take it, or
its instance is spoiled (`Queues`, `Kept`); an extension whose row is on and that has
no instance was missed by a failing call, or an edit of it is between its steps
(`Loading`), which rests on the order of those steps: off the map before the row,
the row before the load; form and dialog are of the current
extension, and what was filled in keeps its own (`Shows`); one load at a time is
under way, and what it read differs from the rows only where the page waits for
the answer to an edit, after which it loads again (`Lists`).

`ProfileProofs` proves `ProfileTypes` (`TypeOK`), `ProfileContent`
(`RowHasContent`), `ProfileActive` (`ActiveIsKnown`) and `ProfileUrls`
(`OneProfilePerUrl`) for any number of calls under way, addresses and ids, from
`CallAssumption`. The inductive invariant adds what each call knows: one that is
about to insert has its file, as nobody else can have its id yet (`Fresh`), one that is
about to mark has its row or a removal was begun, and of two adds of one address
under way, or one beside a row of it, the address is in `twice`.

`TunnelProofs` proves `TunnelTypes` (`TypeOK`), `TunnelOne` (`OneTunnel`),
`TunnelDeactivation` (`DeactivatedIsDown`) and `TunnelActivation`
(`ActivationIsTruthful`) for any finite set of clients and any bounds, from
`TunnelAssumption`. The invariant is `TypeOK`, `Serves` (a client's command and
the handler of its call belong together), `Undisturbing` (an undisturbed command
has the service to itself) and, as long as nothing crossed an activation, `Serial`:
an activation between its Stop and its Start is alone in the service; one Start is
handled at a time, and what runs is what it started, or what `s.box` holds;
a Stop that nothing can undo closes all that runs, so that there is no tunnel
once it is answered. Without `crossed` none of this holds, and two boxes run.

Only model-checked is liveness: `EveryCallReturns`, `SnapshotsFindOut`, `UpToDate`,
`KeepsUp`, `OpenedShowsForm` and `CommandsReturn`. A liveness proof goes from weak
or strong fairness through ENABLED, which the prover's backends do not treat, and
over steps that come in no bounded number. `ReadsCreateNothing` is violated, as
section 4 says. TLC also evaluates the constants' assumptions, in each run for the
instance it uses, and those of `PageWire`, which are about the classes as they are.

## 6. Not modelled, and why

* sing-box itself: `NewService`, `Start` and `Close` of a box are calls that
  succeed, fail or panic. That a `Start` that returns an error leaves nothing running
  is sing-box's own promise and is assumed (`RunFails`). Of a `Start` or a `Close`
  that panics nothing is assumed: its instance may be left half started or half
  closed, without a reference to it in hcore.
* The contents of configurations, statuses and groups; only equality matters.
* `DeferPanicToError` sleeps five seconds after its handler. It delays the
  return and holds nothing.
* `CoreState` and `Box` are read and written without synchronisation. The model
  gives each access one value, as the build does for word-sized fields; it does
  not explore the reorderings the Go memory model would permit.
* The other streams (system info, outbounds, logs): they send what a ticker or
  the log gives them and keep no state others read.
* The bytes of a message: varints, UTF-8 and numbers beyond 2^53, which the
  bundle reads as doubles; a field read as another type of the same wire type is
  `Garbled`. The bundled libraries (ansi_up, grpc-web, google-protobuf) are
  modelled only by what the generated code uses of them.
* What an extension does with its data, `doStoreData`, and the hooks of
  the main service, which run an extension's own code.
* What a profile contains: parsing, the subscription's headers, and
  `UpdateSubscription` and `Patch`, which are empty.
* The box of the tunnel (`makeTunnelConfig`), and the operating system's
  commands that install the service: they launch one or do not.
* The mobile binding, the gRPC servers, the independent instances, the settings
  (`ChangeCoreSettings`, `Setup`) and the configuration pipeline: planned in
  section 2, with their hazards in `PROJECT.json`.
* Command line, exports, operating-system helpers, generated Go: they pass
  arguments on and keep no state.
