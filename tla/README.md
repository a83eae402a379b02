# Lodestone core in TLA+

Lodestone runs and supervises game servers. Its core (`core/src`, Rust) is one
process: an HTTP and web-socket server, a registry of instances with one child
process each, macros in JavaScript isolates on threads of their own, and one
broadcast channel that carries every event to everybody. These modules model the
parts of the core whose correctness depends on the order in which those actors
move, check them with TLC and prove the safety part with TLAPS.

## 1. Inventory

| Component | State it keeps | Operations | Interacts through | Hard behaviour | What makes it correct |
|---|---|---|---|---|---|
| State table (`traits/t_server.rs`) | none | `try_new_state`, `try_transition` | called under the instance's state lock | – | two users never both get a transition that is allowed once |
| Minecraft process control (`implementations/minecraft/server.rs`) | `state`, `process`, `stdin`, `rcon_conn`, players | `start`, `stop`, `restart`, `kill`, `send_command`, reader task | locks per field, pipes, broadcast events | every operation awaits between its steps; the reader runs beside all of them; kill bypasses the table; clients hang up | one server per world; no state without an owner; events tell the state |
| Macro executor (`macro_executor.rs`, `minecraft/macro.rs`) | process table, exit-status table, one thread per macro | `spawn`, `abort_macro`, `shutdown_all`, the two futures, the lists | events only | a thread that may fail or panic anywhere, an abort in three steps, receivers that lag | exactly one `Stopped`, the right status, nothing waits for ever |
| Macro settings (`macro_executor.rs:555-935`, `minecraft/macro.rs:184-283`) | the cached values beside each macro | view, store, validate, run | files | the source is edited between two of them | a run gets values of the declared types |
| User accounts (`auth/user.rs`, `handlers/users.rs`, `handlers/setup.rs`) | map of users, setup key, `users.json` | add, delete, logout, rename, password, permissions, setup, load | a write lock over the whole operation | unflushed writes, hang-ups between change and write, crashes | one owner; exact undo; the file follows memory |
| Event broadcaster and consumers (`event_broadcaster.rs`, `handlers/events.rs`, `lib.rs:581-627`) | ring of 512 events, two buffers | `send`, `subscribe`, `next_instance_*`, streams | broadcast channel | lag, re-subscription per call, lost events | buffers and store hold what was sent, in order; a stream ends with its session |
| Event store (`db/`) | SQLite table | insert, search | broadcast channel | an insertion error ends the task, and the task's end is a shutdown | nothing but the failed row is missing |
| Instance registry and ports (`handlers/instance.rs`, `port_manager.rs`, `lib.rs:139-228`) | `DashMap` of instances, allocated ports, directories, rights | create, delete, restore | users' lock, port lock, events | creation is a detached task; deletion removes before it checks; guards are held over awaits; macros use instances without a guard; a save truncates first | directory, registry and ports agree; what is deleted stays gone |
| Generic instances (`implementations/generic/`) | core macro, pending procedure calls | every method is a call over the bridge | macro ops, broadcast | two results per call, shared by all callers; lag; the macro may end with calls outstanding | a method returns its own result |
| Configuration (`traits/t_configurable`, `minecraft/configurable.rs`, `minecraft/mod.rs`) | settings manifest, `RestoreConfig`, two files, the jar | view, update, set, change of version | config and manifest locks | half-applied changes, overlapping writes, failed saves and reads, writes that outlive their request | files follow memory; an update keeps the other lines |
| Files (`handlers/instance_fs.rs`, `global_fs.rs`, `util.rs`) | directories | upload, copy, zip, unzip, move, write, remove | progression events | free names looked for long before they are used; failures and hang-ups halfway; blocking calls go on without their handler | no completed file is lost; failures leave no part of a file |
| Docker bridge, Playit.gg | caches of external state | event loops, start and stop | Docker API, tunnel process | reconnects | cache follows the source |
| Start-up and shutdown (`lib.rs:404-811`) | everything above | run, cleanup | – | order of subscriptions, exit before the servers end | nothing created is lost |

## 2. Modules and how they correspond to the code

`InstanceState` holds the table as the operator `TryNewState(s, a)`.
`InstanceLifecycle` is the abstract specification: what the dashboard, the event
log and macros may see of an instance, as two variables, the stored state and the
last state announced.

`InstanceServer` is `server.rs`. Every operation is a sequence of actions, one per
stretch of code between two awaits, with a program counter per caller:

* `start`: `UserStart`, `PortFree` / `EarlyReturn`, `PrelaunchOver`, `Spawn` /
  `SpawnFails`, `StoreStdin`, `StoreProcess`, `Persist`, `StartWaitOver` / `WaitLagged`;
* `stop`: `UserStop`, `WriteStop`, `DropRcon`, `StopWaitOver`; the blocking `restart`
  goes on with `start`, the detached one is a caller that cannot hang up;
* `kill`: `KillCheck`, `KillNothing` / `KillRefused` / `KillSignal`, `KillReap`,
  `KillSet`, `KillSend`; the process mutex is a variable because it is held while
  the child is being waited for;
* the reader task: `ReadReady`, `BecomeRunning`, `ConnectRcon`, `PlayerLine`, `Eof`,
  `ClearPlayers`, `TakeRcon`;
* the server process, which is external: `Bind`, `PrintReady`, `Exit`;
* `Cancel`: hyper drops the handler's future when the client hangs up.

A blocked caller skips every event up to the first that decides its wait, so its
queue is that first deciding event (`sub`). The event and the assignment of a
transition are one step because the code sends the event while it holds the state
lock; the two steps of `kill` are not. Events that a generic instance's own macro
may emit in its name (`emit_state_change`) are outside this module, which is the
Minecraft implementation. The table's two `todo!()` entries need the state `Error`,
which no Minecraft operation assigns. The server is assumed to keep its pipes open
until it exits. `Lifecycle == INSTANCE InstanceLifecycle` maps the pair of state and
last event to the abstract specification (`ImplementsLifecycle`).

`MacroExecutor` is `macro_executor.rs` with its callers: `thread` walks through
`MacroThread::run` and `run_macro`, `aborter` through `MacroHandle::abort`, `caller`
through `spawn` and what `run_macro`, the prelaunch macro and the two uses of a
generic core macro do next. V8 and the script are external: a macro alternates
between running and waiting for ops, and may finish, throw, panic or do neither
for ever. Termination ends running JavaScript only; the permit of `Notify` ends an
idle event loop only. A panic is caught because no profile of the workspace sets
`panic = "abort"`.

`UsersManager` is the accounts and `users.json`. An operation holds the write lock
from its change in memory to the hand-over of the write, so one is in progress at
a time (`op`, with `undo` for its error path). tokio's `File` is external: opening
(and truncating) is awaited, the data is given to a blocking thread (`work`) and
nobody waits for it. Writing at offset 0 over other contents may leave a file that
does not parse (`Overwrite`). An empty file is read as no accounts, as `load_users`
does. Passwords and secrets are revisions.

`SettingsManifest` has the operators of `manifest.rs`: types, values, sections, set and
unset, validation. A value is a kind and a number; a text is a number too, and three
tables say of the few texts where it matters what becomes of them: `Piece` of one with
a `=` or with blanks at its ends, `Breaks` of one with a line break, `Squeeze` of one the
macro parser squeezes. `ServerProperties` is the table of the settings of
`server.properties`: how each is read from a line, written to one, put in the manifest
and taken out again, with the two that `try_from` asks for as another type and the six
it has no arm for. What a manifest is written as is a set of files (`FormatProperties`):
a text with a line break brings lines along, of which the last of a name stays, and a
line without `=` makes the file unreadable; a line that begins with `#` is a comment.
`MinecraftSettings` is one instance's manifest, its `RestoreConfig`, the config file,
`server.properties` and the jar under concurrent requests: `view` clears the section
and reads the file, or fails to and goes on (`misread`); `update` sets, syncs, writes
both files; `set_port`, a label, a change of version. A text handed to tokio's `File` lands
later (`inflight`, `Land`), as for the accounts. A client that hangs up drops its future and
its locks, and the thread it waited for goes on: a save of the config file, an opening
of `server.properties` and the renaming of the jar may be carried out afterwards
(`lateConfig`, `lateProps`, `lateJar`), over what others have saved meanwhile.
`MacroSettings` is the configuration of one macro: extraction from its source, the
cache, validation, injection. A client stores what it likes: a page it filled in, or
anything of the type of the request (`Uploads`), because the handlers validate nothing.

`InstanceRegistry` is `handlers/instance.rs` with start-up and shutdown. `creation` and
`deletion` are the program counters of the two operations of each instance;
`files` says which of the directory, its marker `.lodestone_config` and its
configuration are there, and whether the configuration is torn or
`server.properties` unreadable (`Contents`), which is all that start-up looks at; `shard`
and `starting` say which references into the `DashMap` are held over awaits, `held` who
was cloned out of it by a macro (`MacroHolds`, `MacroStarts`), and `portLock` who holds the
mutex of the port manager, by a deletion from `LockPorts` on while the instance is
asked for its port. `BeginSave` truncates the configuration and `EndSave` writes it, with or
without the request that wanted it. Of a server only running or stopped is kept:
`InstanceServer` has the rest. `gone`, `cut`, `revived`, `mixed`, `raced` and `meant` are
records for the properties: instances deleted, left halfway by a hang-up or
a panic, or started by a restart or a macro behind the registry's back; ports shared
or changed; rights that changed under a copy.

`EventBroadcast` is the channel and everybody who listens. Events are known by their
place in what was sent; a receiver has a place of its own, and what it has lost is
`missed`. `ProcedureBridge` is a generic instance and its core macro: a method is one
of four kinds by what becomes of its result (`BridgeProcedures`), the macro's three
handlers emit one result, and the end of its loop emits another for the same call.
`ProcedureCall` is the abstract specification of a method: no channels and no results
in transit, only what was asked, what it came to and what was returned;
`ImplementsProcedureCall` maps the bridge to it. `FileTransfers` is a
directory as slots, slot 0 the name and slot n the name with the postfix that
`resolve_path_conflict` tries; files are known by the operation that made them. An upload
of several fields, a copy and an unzip of several entries go on after the one that is
in the model (`more`), or fail there. A handler that is dropped leaves the create, rename
or removal it waited for to a thread (`late`, `late_remove`), and a chunk that `write_all`
took is in the file only after `FlushChunk`, which may come after the end or fail unseen.

`MCInstanceServer`, `MCMacroExecutor`, `MCUsersManager`, `MCSettings` and `MCApp` give TLC
the instances. `MCApp` and `MCSettings` put components side by side that share no
variable: a behaviour has a subject, chosen at the start, and steps only that
component, so the states explored are the sum and not the product.
The `*Proofs` modules hold the proofs; `SettingsProofs` those of `MinecraftSettings` and of
`MacroSettings`, the two uses of the settings manifest. The definitions called mutants in comments are
plausible bugs, one per property; no specification uses them.

## 3. What the runs check

| Run | Bounds | Checks |
|---|---|---|
| `inst_safety` | 2 callers, 2 process incarnations, start / stop / blocking restart / kill, hang-ups | `TypeOK`, `RunningHasReader`, `StartingHasOwner`, `SingleProcessUnlessKilled`, `EventsMirrorState`, `RunningOnlyFromStarting`, `ImplementsLifecycle` |
| `inst_liveness` | 1 caller, 2 incarnations, 1 player, start / stop, blocking or not / restart / kill, hang-ups | `SessionHasReader`, `StoppingEnds`, `ExitIsReported` |
| `macro_threads` | 1 macro of 4 kinds of caller, 2 aborters, lag | `ExactlyOneStopped`, `InterruptionIsNoFailure`, `SpawnedCanBeAborted`, `FailedSpawnLeavesNoMacro`, `StoppedLeavesTaskList`, `AbortEndsMacro`, `SpawnIsAnswered` |
| `users_store` | 2 accounts, 2 names, 2 revisions, 2 blocking threads, failures, crashes | `SingleOwner`, `MemoryIsAcknowledged`, `SettledFileIsAcknowledged`, `OwnerIsKept`, `TypeOK` |
| `settings` | 2 clients with 6 menus of requests, 2 files, 2 texts with line breaks, 1 pending write, 1 late operation per file, hand edits, crashes; 7 sources of a macro, 4 uploads that are no page | `DiskMatchesMemory`, `UpdateKeepsTheRest`, `PanicNeedsUnreadablePort`, `JarIsConfiguredVersion`, `ReadBack`, `InjectedConfigFits`, `FilledPageNeverPanics` |
| `app` | 2 instances, 2 ports, 2 shards, macros, restarts and saves with 1 instance; ring and buffers of 2, 4 events; 2 callers, 2 calls, channels of 1 and 2; 2 transfers of any form, 3 of which the first is an upload and the others zips or moves, 4 slots | `CreatedIsKept`, `DeletedStaysGone`, `PortsAreOwned`, `RightsAreKept`, `NoLockCycle`, `HistoryIsComplete`, `ConsoleEndsWithSession`, `ReturnsItsResult`, `ImplementsProcedureCall`, `NothingIsOverwritten`, `FailedLeavesNoPart` |

Why the bounds are enough: the hazards of an instance need two operations that
overlap and one incarnation after another (a stale reader beside a new server, a
kill beside a start), which two callers and two incarnations give; the proofs
cover every number. Macros share nothing but the channel, whose losses are
nondeterministic here, so one macro with two aborters shows every interleaving.
Two blocking threads are the least that can reorder two writes. In the registry
every hazard is between one instance's creation, deletion and use, or between two
instances that share a port, a shard, the runtime directory or the requester's
rights. A ring of two is overrun by three events, and four leave one that a slow
receiver still sees. Two callers with three results between them can each pass
over the other's and lag. Three operations are the least for one that finds a name,
one that takes it and one that takes it away. Macros, restarts and saves use one
instance and share nothing with another's, so one shows all they do. `MCSettings` says which menus
of requests may leave which late operation, one at a time, and in which a save may
fail: the late write of a configuration and its opening of `server.properties` are of
different files and different properties. `MaxLate` and `MaxInflight` of 1 let a stale
write land after a later save, which is what they are for; the proofs have no bound.

Conditions in the properties of `app` are what the code does not promise, each
found by a counterexample: a deletion whose requester hangs up after the instance
was taken out loses it until the next start (`cut`); a detached restart, or a macro
that cloned the instance, has it and starts it in a directory that is being deleted
(`revived`); a save that a crash cuts short leaves a configuration that cannot be read,
and so does a line without `=` in `server.properties`, which hides the instance from the
next start (`torn`, `garbled`); `set_port`
does not tell the port manager and two instances may have one port (`mixed`);
two creations, or a creation and a change of rights, overwrite each other's
(`raced`); two instances whose uuids hash to one shard can lock up; two operations
may find the same free name, because it is looked for long before it is used
(`contested`), and a thread whose request was given up still has it in mind; the last
chunk of an upload may not be in the file when it is told to be complete, or never
be; a global upload that cannot write never ends its progression. Those of
`settings`: a save that failed, or whose client hung up, leaves file and memory apart
until a next one (`unsaved`); a read of `server.properties` that fails is ignored, the
update goes on with what the manifest has, or panics (`misread`); a text that its line
does not keep is not read back; a value that nobody validated is injected as it is.

Fairness. `StopStep`, `KillStep` and the reader's steps are weakly fair because the
runtime polls every task that is ready; a server that has read `stop` exits.
Nothing is assumed of clients, prelaunch macros or crashes: `StoppingEnds` is about a stop
whose line is written, or is about to be by a task that nobody drops. An HTTP stop
that is dropped between the change of state (`server.rs:546`) and the line leaves a
server that runs on in `Stopping`, which neither a second stop nor anything but a kill
or its own end takes it out of; no fairness would mend that. In the executor the
steps of threads, tasks and aborters are weakly fair; the script's are not. The
other runs check safety and assume no fairness.
Deadlock is checked in the `inst_` runs. Elsewhere the system may
stop: Lodestone stays down when `users.json` does not parse, a macro with no aborter
may loop or end with nothing left to happen, and the bounded numbers of events,
calls and transfers run out.

Six runs find the code at odds with what it says of itself:

* `inst_two_servers`: kill assigns `Stopped` without the table (`server.rs:628`). If that
  lands while another caller is starting, a second start is let through and two
  servers run, which `t_server.rs:104` says cannot be.
* `inst_blocking_start`: the subscription (`server.rs:474`) comes after the reader runs,
  and ends with the first `Running` from then on: after a kill and a second start, with
  that of a server it has not spawned, while its own has not got ready.
* `inst_kill_report`: the block at `server.rs:623` lacks an `else`; every kill that works
  reports that there was no process, and an error.
* `macro_exit_future`: the future subscribes when first polled (`macro_executor.rs:539`);
  a macro that has stopped by then is waited for for ever.
* `users_durable`: `write_to_file` does not wait for its write (`user.rs:420`); the two writes
  of a password change may land in the wrong order.
* `wait_next`: `next_instance_state_change` subscribes anew after every event that is
  not the one it waits for (`event_broadcaster.rs:80`) and passes over a change of
  state sent meanwhile.

## 4. What is proved

Every invariant and action property that a passing run checks is a theorem, and so
are the refinements of `InstanceLifecycle` and `ProcedureCall`, for any number of
callers, processes, players, macros, aborters, accounts, threads, instances, ports,
shards, calls, requests, events, transfers and late operations. Each rests on an
inductive invariant (`IInv`, or `LinesInv` and `MacIInv` in `SettingsProofs`) that TLC was
given first.

What is assumed of the constants are the named `ASSUME`s of the modules, which TLC
evaluates in the runs of each:

* a null value (`NoProc`, `NoMacro`, `NoUser`, `NoOne`, `Old`, `NoFile`) is not in the set it
  completes, job and kind sets are among the known ones, flags are Boolean, and
  capacities and the sizes of the event buffers are positive;
* `SlotsAssumption`: there are as many names to try as operations, and the name
  itself. The code tries names without end;
* `RequestsAssumption`, `TextsAssumption`, `PieceAssumption`, `BreaksAssumption`: a request
  carries a value the Rust type can hold, the texts of a file are numbered, and the
  ones that are cut or have a line break are numbered apart from those that spell
  something, because none of them parses;
* `UploadsAssumption`: what a client stores has the shape of the request, values and
  types of any kind;
* `SourcesAssumption`: a macro declares finitely many fields, of the types that
  `get_config_value_type` knows.

The arguments:

* **Instance.** `Inductive` proves an invariant that says who owns each process:
  the caller that spawned it until `StoreProcess`, its reader afterwards. With that
  ownership, a program counter between `UserStart` and `StoreProcess` excludes a
  second such caller until a kill, from which `SingleProcess`, `RunningIsWatched`,
  `StartingIsOwned`, `EventsTellState`, `SessionIsOwned` and `RunningEntry` follow. None of
  these is inductive alone: each needs to know that the process of a finished
  reader has exited. `Refinement` maps every step to a step of `InstanceLifecycle`
  or a stutter.
* **Macro executor.** `Inductive` ties what was reported to where the thread is
  (`ReportInv`), the flag to the other two steps of an abort (`AbortInv`), and what a
  caller was told to what has happened (`CallerInv`).
* **Accounts.** `SingleOwner` is not inductive: a failure returns to an earlier map and
  a restart to whichever write landed last. The invariant says of every copy of
  the map (memory, undo, pending writes, file) that it has one owner at most, and
  that while a setup key is out no map it could fall back to has one.
* **Registry.** All five properties are proved. `PlaceInv` says which stages of a
  creation and a deletion exclude each other and the registry; `FilesInv` what is on
  disk at each stage, a torn configuration included, so that start-up finds what was
  announced (`NoInstanceIsLost`); `UseInv` that who saves, restarts or holds an instance
  got it from the registry;
  `GoneInv` that no stage after the removal of the marker leads back
  (`DeletionIsFinal`); `PortsInv` and `RightsInv` extend `PortsAreOwned` and
  `RightsAreKept` to the instances on their way in or out. `NoDeadlockAcrossShards`
  follows from `PlaceInv`: whoever holds the port manager's mutex is not yet
  registered, so no start can refer to it.
* **Bridge.** A caller takes the first result with its id. `FirstIsOutcome` says that
  the first is what the procedure came to, `PassedOver` that a waiting caller has
  none of its own behind it, and `MacroInv` that no result has the id of a call the
  macro has not taken; `ResultsAreOnesOwn` follows, for any capacity. `Refinement` maps
  every step to a step of `ProcedureCall` or a stutter: a procedure is carried out
  (`Handle`) once at most and never after a later one, because what has not been
  taken has come to nothing yet (`UndoneInv`).
* **Events.** What a receiver has got is what was sent since its subscription and
  before its place, but for what it missed (`Got`); a lag moves its place and adds
  exactly what it skips to the missed, so nothing is got by it. Of a buffer that
  lists the latest of a set, pushing a later event leaves one that lists the latest
  of the larger set (`PushKeepsLatest`), which is the step of `HistoryInOrder`. For
  `NothingAfterLogout` the invariant says that a console stream that got a logout is
  closed, and that what it delivered lies before its place (`ConsoleInv`).
* **Files.** An operation that looked for a free name has a claim to it until it
  ends. Whatever comes into that slot meanwhile came by another claim to it, and
  the two have met (`MeetInv`, `ClaimInv`); a file that met no other is emptied,
  replaced or removed by a request that names it only (`MadeInv`), which gives
  `CompletedFilesStay` and, with where an upload's file can be (`WhereInv`),
  `FailuresLeaveNoPart`. A thread whose handler was dropped keeps its claim until it is
  done, which is why it does no harm to a file that met no other. `FreeSlot` is that a free name exists: there are more slots
  than other files, and a file is in one of them at most.
* **Files of the configuration.** `FileFollowsMemory` holds for any number of clients
  because whoever changes the config is about to save it, what is saved is the
  config at that moment, and a write that is still to come late counts as unsaved
  (`SaveInv`): the next save that begins when there is none repairs what it left.
  `JarFollowsConfig` needs `JarInv`: while no two changes of version overlap and none is
  cut short, a jar that does not match has been renamed by the one client that is
  about to store its version.
* **Lines of `server.properties`.** `ManifestInv` says what the manifest can hold at all:
  for each setting a value of its kind, within what its type admits. `SettingsReadBack`
  is then a fact about the file (`PrintedPlainly`: texts that a line keeps get one line
  each) and about each kind of setting (`SettingConverts`, with the exceptions of
  `try_from`). `OtherLinesAreKept` and `PanicsNeedUnreadablePort` are about a request
  that no other overlaps: it is the only one and nothing is on its way to the file
  (`AloneInv`), so from the moment it has read the file, if it could, to its own write
  the manifest has every line that can be read, but for the setting it sets itself
  (`KeptInv`).
* **Macro configs.** The cache has an entry of the declared type for each field of the
  source it was validated against (`CacheInv`), and so has what is injected (`RunInv`).
  The values fit their types if the cache was a page filled in (`careful`) and are there
  if it was the page of this source (`current`): both are kept along with the cache,
  because the code cannot tell. It compares the number of entries with the number of
  fields and looks each entry up; that this leaves no field out is a fact about
  cardinalities (`ValidatedEntries`), and why `SourcesAssumption` asks for finitely many
  fields. `PanicInv` says that a cache that is the page of the source as it is, filled in,
  does not make the page panic (`FilledPagesNeverPanic`).

Only model-checked: the four liveness properties (`StoppingEnds`, `ExitIsReported`,
`AbortEndsMacro`, `SpawnIsAnswered`), since liveness under fairness is out of the prover's
reach, and the violation runs, whose counterexamples are TLC's. The type invariants
of the executor, the registry, the settings, events, files and the bridge are parts of
the inductive invariants; no run lists them for themselves. `SettingsReadBack` is proved by
cases over the kinds of settings and not by induction over texts: texts are
numbers here, and what the code does to single characters is not modelled.

## 5. Not modelled

* The Docker bridge and Playit.gg: their behaviour is that of Docker's event stream
  and of a third-party client.
* Global settings: three fields under one lock; the way they are saved is the one
  modelled for the accounts.
* Extensions, migrations, installers' downloads, the command console, monitors:
  input and output with no state that another part depends on.
* Operations on files that only read, the making of directories, one-time keys of
  downloads.
* Event queries, searching the store, and the wording of everything.
* The permission check beyond the rights named above, a pure function.
* The dashboard, which renders what the core reports.

## 6. Plan

1. An abstract log of events that every receiver of `EventBroadcast` refines: a
   subsequence, in order.
2. The composition of `InstanceServer` with the deletion and the shutdown of
   `InstanceRegistry`, with the lifecycle in place of running and stopped.
