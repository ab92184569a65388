# Verification of the Hauzer Utility Exporter

The exporter is a Home Assistant app (Python, one process) that does two
independent jobs:

- every five minutes it reads new utility statistics from the Home Assistant
  recorder and posts them to Hauzer, remembering how far it got in
  `/data/state.json`;
- a worker thread mirrors Home Assistant's floor, area and device registries to
  Hauzer, over one persistent WebSocket for reading and a delivery thread for
  posting.

Source paths below that do not begin with `src/` are relative to
`src/hauzer_utility_exporter/rootfs/usr/lib/hauzer_utility_exporter/`.

## Inventory

| Component | State | Operations | What makes it correct | Model |
|---|---|---|---|---|
| Utility import cycle (`service.py`) | locals of one `run_cycle`: window end, loaded state, mappings, readings | `run_cycle`: load, discover, window, fetch, hold back, post batches, save | the saved cursor never passes a reading Hauzer has not taken; a new mapping is replayed; a recorded reading arrives in the end | `ImportService` |
| Durable cursor (`state.py`) | `/data/state.json`: `window_end`, `backfill_hours`, `mapping_keys`; its `.tmp` | `load` (with the rewind for a larger backfill), `save_atomic` | never half-written; saves never move back | `ImportService` |
| Delivery to Hauzer (`hauzer.py`) | one call: attempt number, pause, stop event | `post_batch`, `post_registry`, `_post`, the two `_classify`, `_retry_after` | bounded duplicates, "acknowledged" only for what was taken, returns, stops promptly | `HauzerPost`, `Delivery` |
| Registry schedule (`registry.py`) | `refresh_at`, `change_at`, `reconnect_at`, `_reconnect_allowed_at` | `changed`, `reconnected`, `due`, `started` | debounce, daily refresh, reconnect cooldown | `RegistrySchedule`, `RegistryTiming` |
| Registry worker (`registry.py`) | schedule, failures, whether it was connected, the delivery thread | `run`, `sync_if_due`, `read_snapshot`, `_on_event`, `_deliver` | no registry change is forgotten, one delivery at a time, the mirror converges, the worker stops | `RegistrySync` |
| WebSocket sessions (`home_assistant.py`) | the socket, the message counter, subscriptions | `session`, `command`, `subscribe`, `poll`; one-shot commands and REST reads of the import | events between a command and its result are not dropped; a result answers the call it is returned from; no socket is left open | registry session in `RegistrySync`; the import's reads in `HomeAssistantCalls`, `AtomicRead` |
| Main loop and shutdown (`__main__.py`) | stop event, two threads | start, loop, signal handler, join | a failed cycle does not end the loop; nothing the registry threads do delays the end of the process | `ExporterMain` (its inside also in `ImportService`, `RegistrySync`) |
| Reading construction (`readings.py`) | none | `build_readings`, `chunked`, `floor_to_five_minutes` | a delta counts from the row before, across windows; order; rounding | `Readings`, `MeteredImport`; window, filter and chunks in `ImportService` |
| Utility discovery (`discovery.py`) | none | `discover_utilities` | a meter is not switched, lost states change no unit, volumes do not disturb electricity | `Discovery` |
| Configuration (`configuration.py`) | none | `AppConfig.from_options` | refuses invalid options before anything is touched | `ExporterMain` |
| Host override (`networking.py`) | `/etc/hosts` | one idempotent append | one line of its own, over restarts | `ExporterMain` |
| Service scripts (`rootfs/etc/services.d/`) | the container | `run`, `finish` | an exit with an error halts the app, any other restarts it | `ExporterMain` |
| Smoke fixture, other packaging | | | | not modelled |

How they interact: `main` validates the options, installs the host override,
starts the registry worker and enters its loop. The main thread calls the import cycle, which calls Home
Assistant (three reads, then the recorder) and the Hauzer client and then saves
the cursor. The registry worker owns the WebSocket session and the schedule; it
starts a delivery thread, which is another caller of the Hauzer client. All
threads share one stop event, set by the signal handler; the Hauzer client looks
at it before each attempt and waits on it between attempts. Nothing else is
shared between the import and the registry worker.

What is hard: crashes, loss of power and failed writes between posting and
saving; a failure in the middle of a series of batches; a recorder that is
behind the clock; a set of mappings, a backfill and a clock that change between
cycles; requests that time out and are taken nevertheless; answers that arrive after
their question was given up; readings that are refused for ever; overlapping
windows whose deltas must meet; states that vanish while Home Assistant starts;
exits, kills and restarts in every phase of the process; a stop between a
check and its request; registry changes that arrive during a read, during a
delivery or while the connection is down; reads that fail after the schedule was
cleared; event storms and flapping connections. `PROJECT.json` lists them at
their lines with the properties that cover them.

## Modules

### `Delivery` and `HauzerPost`

`Delivery` is the contract of one delivery: *acknowledged* is returned only for a
payload Hauzer has taken, *failed* says nothing, Hauzer takes at most `MaxCopies`
copies, and the call returns. `HauzerPost` is `_post` line by line: `CheckStop`
is the stop check at the head of an attempt, `Send` the transport call,
`Accepted`, `Refused`, `Mismatched`, `Busy` and `Lost` the answers the
classifiers tell apart, `RetryOrGiveUp` the two `except` branches, `Wake` the end
of the interruptible wait. Hauzer takes a request independently of what the
client learns of it (`Take`), and one it has not taken when the client is done
with it (`Abandon`: the connection was lost, or a proxy answered in its place)
may be taken at any later time (`TakeStray`). `ImplementsDelivery` is the refinement. The callers
in the other two models use a delivery only through this contract; in them a
failed delivery is taken or not at the moment it fails, and a copy taken later
only adds to what Hauzer has.

### `ImportService`, `ImportContract` and `ImportProperties`

Time is counted in five-minute slots: `now` is `floor_to_five_minutes` of the
wall clock, a reading is one completed slot of one mapping. One action stands for
one segment of `run_cycle` between two calls that may fail or block:
`BeginCycle` (clock and `ImportState.load`), `Discover`, `NothingCompleted`,
`HoldBack`, `NoReadings` and `Fetch` (the outcomes of reading the window),
`PostBatch`, `BatchAcknowledged`, `BatchFails`, and `WriteTemporary`,
`FlushTemporary`, `ReplaceFile` for `save_atomic`. `EndCycle` is the return to
the loop of `__main__.py`. `Crash` ends the process anywhere: a kill leaves the
files as they are, a loss of power undoes a rename whose directory entry the
file system had not flushed (`durable`, `FlushDirectory`);
`Restart` reads the options anew. The recorder compiles a slot at any time after
its end (`Record`), discovery may return any other set of mappings
(`Rediscover`), the clock ticks also inside a cycle, and may be adjusted.

Three variables are history and no action of the code reads them: `fetchedTo`
(how far the recorder has been read), `late` (slots recorded after a window past
them was read) and the component `since` of a state (the slot from which a
mapping has been imported without a break).

`ImportContract` is the contract of the import with whoever relies on its file:
Hauzer takes only what the recorder had been read past, the file promises only
settled slots (taken, late, or with nothing to send), and a loss of power brings
back the promise flushed last. `ImplementsContract`
is the refinement: a state file promises the slots it covers of its own mappings
(`Claim(disk)`, and `Claim(durable)` for what a loss of power leaves), and the
horizon is `fetchedTo`.

`Rejected` are readings for which Hauzer answers 422 to their whole batch
(`BatchRejected`), such as a reading without a sum.

Abstracted: the value of a reading (see `Readings`), the bodies of requests, the field-by-field validation of a state file. A file that no save
produced is not modelled; `Torn` is a file the app itself left half-written.

### `RegistrySchedule` and `RegistryTiming`

The four deadlines as the time left until each, which is all the class ever
compares. `RegistryTiming` adds a history (how long ago a read, an event, a
reconnect, a covering read) and states the timing DOCS.md promises.

### `RegistrySync`, `RegistryFeed` and `RegistryProperties`

The worker's `run`, with the session it owns, the delivery thread and Home
Assistant at the other end. Registry contents are version numbers. Home
Assistant answers a command and reports changes on one connection in order
(`inbox`); the worker receives them inside a command (`EventInCommand`,
`Subscribed`, `ListReceived`) or in a poll (`PollEvent`, `PollTimeout`).
`StartRead` is the head of `sync_if_due`, `ReadFails` its `except`,
`StartDelivery`, `SkipSnapshot` and `StartDeliveryFails` its three ends. `BackOff`
is the `except` of `run` with the wait of `WakeUp`. `ChangeRegistry`,
`LoseConnection`, `RefuseCommand` and `RequestStop` come from outside at any
moment. Every timer is an instance of `RegistrySchedule`'s operations, which
`FollowsSchedule` states as a refinement, so the timing shown for
`RegistryTiming` holds of the worker. Two variables are history: `seen`, the
version of each registry the worker read last, and `begun`, the versions at the
moment a read takes its `generated_at`.

`RegistryFeed` is what Hauzer is promised about the snapshots: one in flight at a
time, and every registry in it as it was at the stamp or later in the same read,
so that the one with the later stamp is nowhere older. `ImplementsFeed` is the
refinement (`reading` is `pc = "read"`, `stamp` is `begun`). It says nothing of
the mirror: what Hauzer makes of snapshots that reach it late is its own affair.

### `Readings` and `ReadingsCheck`

`build_readings` as a recursive function over the sorted rows: `InOrder` lists
them by rank, `ReadRow` is the body of the `Loop`, with the three cases of a row before, inside and behind the window,
`Delta` the three of the previous sum, `Payload` scaling and quantizing. Sums are
integers, `Scale` of which make one in the last decimal sent. `Imported` is what
one cycle makes of a recorder. `ReadingsCheck` builds every table of rows, in
every order, and states the result by neighbours instead of by a loop.

`readings.py:41` sorts by the text of the start, `InOrder` by the time it stands
for. The two agree for what Home Assistant sends: epoch milliseconds, all of one
width, or texts in one UTC offset. They would differ for texts of mixed offsets,
which `parse_datetime` also accepts; `DeltasAreBetweenNeighbours`,
`WindowsCompose`, `DeltasAddUp` and their theorems do not speak of those.

### `MeteredImport`

`ImportService` with what each reading counts: `from[r]` is the slot whose row
its delta is taken from, `held[k][t]` the same for the copy Hauzer keeps (the
last it took). Every action of `ImportService` is conjoined with what it does to
the two (`MeasuredFetch`, `BatchHeld`, `BatchInDoubt`, `Unmetered`), so windows,
replays, resent batches, crashes and clock adjustments are the ones of the
import.

### `Discovery`

`discover_utilities` as operators over the configuration and three answers of
Home Assistant, which change independently of one another: `EnergyDashboardIds`,
`Score`, `Candidates`, `HighConfidence`, `Automatic`, `Mapped`, `UnitFor`. An id
stands for the words the code looks for in it, a state and a listing for the
attributes it reads. The actions are the changes of its inputs; the properties
say what a change of one may not do to the result.

### `HomeAssistantCalls` and `AtomicRead`

`AtomicRead` is what the import relies on in every read: a result is what Home
Assistant had to say at a moment between the call and the return, and the call
comes back. `HomeAssistantCalls` is `SupervisorWebSocket.command` message by
message and the REST request of `states`, with Home Assistant at the other end:
its next `duty` on the connection is done, left undone, or replaced by anything
else, also by a result that belongs to another command. `ImplementsRead` is the
refinement. It is what makes one step for each read in `ImportService` enough.

### `ExporterMain`

The process from the options to its exit code: `ReadOptions`/`RefuseOptions`
(validation by the class of each value), `InstallHostOverride`, `SetUp`,
`StartWorker`/`WorkerNotStarted`, the loop, `Leave` and `Join`; the registry
threads only as activities that may take as long as they like; signals, kills,
`finish` (`Halts`), the container that stops and starts. Cycles and the worker
have their inside in the other modules.

### MC modules

`MCHauzerPost`, `MCImportService`, `MCRegistrySync`, `MCDiscovery` and
`MCExporterMain` define the values and the symmetry the configurations refer to.
The other configurations give their constants directly.

## Runs

| Run | Configuration | Question |
|---|---|---|
| `hauzer_post` | `HauzerPost.cfg` | Does one delivery call, against every answer, loss and stop, bound duplicates and late requests and implement `Delivery`? |
| `import_safety` | `ImportSafety.cfg` | Does the durable cursor ever run ahead of Hauzer, or a save move it back, also with a wall clock that is adjusted? |
| `import_liveness` | `ImportLiveness.cfg` | Does a recorded slot within reach arrive in the end, also with a reading behind it that is refused in every cycle? |
| `import_blocked` | `ImportBlocked.cfg` | Violation: does electricity arrive although a gas mapping has no data? |
| `import_overtaken` | `ImportOvertaken.cfg` | Violation: is every completed interval sent? |
| `registry_timing` | `RegistryTiming.cfg` | Do the deadlines keep the documented timing under every sequence of events? |
| `registry_worker` | `RegistryWorker.cfg` | Is any registry change ever forgotten; are the snapshots sent what `RegistryFeed` promises; without the floor list command, does the mirror of the others still converge; does the worker end? |
| `readings` | `Readings.cfg` | Are deltas those between neighbours, for every table, order and window; do windows compose and deltas add up? |
| `metered_import` | `MeteredImport.cfg` | Over replays, crashes and resent batches, does Hauzer hold readings that count everything once; does every step keep `ImportContract`, past two faults? |
| `discovery` | `Discovery.cfg` | What may vanishing states and volumes do to the mappings and units found? |
| `calls` | `Calls.cfg` | Do the reads implement `AtomicRead`, whatever arrives, and leave no socket? |
| `exporter_main` | `ExporterMain.cfg` | Is start-up all or nothing, does nothing halt the loop, does the process end after the stop event, do imports go on? |

Every property of a passing run has a mutant: a definition with a plausible bug,
written next to the one it replaces and marked `Mutant`, under which the run
finds the property violated.

### Bounds and why they are enough

- `HauzerPost`: three retry delays as in the code; header values below, at and
  above the limit. Nothing else is bounded. Deadlock is not checked, since the
  model is of one call, which ends.
- `ImportSafety`: two mappings (a replay held back or run for one because of the
  other), two values of the backfill (raised and lowered over restarts), a batch
  smaller than two mappings with two slots, so that cycles have several batches;
  the clock advances once, so that there is a slot before and one after the first
  save; one change of the mapping set, one adjustment of the clock and one fault,
  each placed anywhere. Two faults, so that a crash or a lost rename can follow a
  failed batch or write, are left to `MeteredImport`, which trades the second
  mapping for them and a third slot. Mappings are symmetric: nothing in the code
  orders them.
- `ImportLiveness`: two mappings, batches of one, the first slot of one mapping
  refused in every cycle: readings of the other lie ahead of it or behind it in
  the same window. One fault and one change, each placed anywhere.
- `RegistryTiming`: Debounce 2 < Cooldown 5 < Refresh 8 in the order of the
  code's 10 s < 5 min < 24 h, with room for two debounces in a cooldown and a
  refresh inside or outside one.
- `RegistryWorker`: three registries, of which the first is the one that may not
  be known (a change before, at or after the one being read), two changes, two
  faults, deadlines 1 < 2 < 3, backoff list of two so that its end is reached.
  Timers stay in range by construction of time left, so real time is not bounded.
- `Readings`: four slots give a window with a row before it, two inside and one
  behind; sums -1 and 2 rise, stay and fall by amounts that `Scale` 2 rounds
  in both directions; a row may lack its sum or its start. The state only grows,
  so deadlock is not checked.
- `MeteredImport`: one mapping, two backfills, batches of one, three slots, two
  faults, one change and one adjustment of the clock: a window that overlaps one
  before it, with a slot recorded in time, late or not at all between.
- `Discovery`: four statistics of which two compete for electricity, two for gas
  and one for both volumes; the scores below, at and above both thresholds
  occur; an override, two dashboards or none. The statistic the override and a
  dashboard name may be unlisted and in litres, so that the fall back to the
  default unit occurs.
- `Calls`: three calls, so that an answer to the first or the second may come in
  the third; two changes, so that versions before, during and after differ. The
  number of calls is bounded, so deadlock is not checked.
- `ExporterMain`: accepted options and, for the fields, values that are refused
  for one field alone, with both bounds of the backfill; hosts files empty, with
  and without a final newline; four faults, so that a kill can follow a worker
  that did not start and a second start.

### Fairness

- `HauzerPost`: the thread runs and `REQUEST_TIMEOUT` ends every transport call.
  Nothing is assumed of Hauzer or the signal handler.
- `ImportService`: the main thread runs, each of its calls returns (all have
  timeouts), and the service supervisor starts the app again after an exit or a
  crash. Nothing is assumed of the clock, the recorder or discovery: the
  liveness property is conditional on what they offer.
- `RegistrySync`: the worker and the delivery thread run, time passes, a sound
  connection answers. Strong fairness is assumed of `PollEvent` and `PollFails`:
  a poll may time out while a message is still on its way, but not for ever. A
  delivery that does not fail (failures are bounded) succeeds.
- `HomeAssistantCalls`: the calling thread runs, and `REQUEST_TIMEOUT` ends every
  wait for a message. Nothing is assumed of Home Assistant.
- `ExporterMain`: the main thread runs, each cycle ends (its calls return: see
  `HomeAssistantCalls` and `HauzerPost`), a join ends after two seconds, and s6
  starts the service again after an exit that does not halt the container.
  Nothing is assumed of the registry threads, of cycles succeeding or of the
  container staying up: `ImportsGoOn` is conditional on that.

## What the runs show

- The cursor in the file, before and after any crash, never covers a slot of a
  known mapping that Hauzer has not taken, unless the slot was recorded after
  the window past it had been read. Only a lost rename or an adjusted clock move
  the cursor back.
- Past finitely many faults a recorded slot within reach arrives, provided no
  replay stays held back and no refused reading is ahead of it or in its batch.
- What a slot used is part of the delta of exactly one reading at Hauzer: a delta
  never begins before a row that was recorded in time, and it begins at the
  neighbour if that was recorded in time. The slot before the window that
  `run_cycle` asks for is what this rests on.
- Within a window, deltas are those between neighbouring rows in whatever order
  they come, and two windows send what one would if the seam has a row.
- States that vanish never switch a metric to another meter, never drop what an
  override or the dashboard names, and never change a unit Home Assistant lists: a
  statistic found automatically always has one, a chosen one without it falls back
  to the default. Volumes never disturb electricity. Automatic discovery takes no
  meter for both directions; an override or the dashboard may.
- A read returns an answer made to it, after it was asked, also when an earlier
  call timed out and its answer comes later; the mapping set and the rows of a
  cycle are never older than the cycle.
- Refused options change nothing; the host override is one line of its own after
  any number of restarts; no failure of a cycle or of the registry worker halts
  the app or ends the loop; the process ends after the stop event although
  registry threads may hang.
- Every change of a registry leaves something behind that will read it: an
  event on the way, a deadline, a read that has still to reach it, or a session
  still to be subscribed.
- Snapshots of the registries are sent one at a time, and none says of a registry
  what was no longer true when its `generated_at` was taken.
- Duplicates of a payload are bounded by the attempts, and at most one request
  leaves after the stop event.

Two disagreements between what is documented and the code:

1. **Missing data blocks.** DOCS.md line 13: "Missing or ambiguous gas or water
   data does not block electricity." When the mapping set differs from the saved
   one - always on the first import, and when a meter is added -
   `service.py:103-116` holds back the whole replay while one mapping has no row
   in the window, and nothing is saved. A gas statistic that exists but has no
   rows in the backfill window keeps electricity from being sent for as long as
   it is silent (`import_blocked`: electricity has a row, gas has none). Holding
   back a partial replay is intended: `src/tests/test_service.py:201` pins it for
   electricity and a silent grid export. `MissingDataDoesNotBlock` therefore
   speaks of electricity mappings only, and not of a replay that a silent
   electricity mapping holds back; what the documentation rules out is that one
   of gas or water does, and the code makes no difference between them. Once the
   mapping set is known, a silent mapping does not block (`HoldBack` is guarded
   by `MappingChanged`).
2. **Late rows are passed.** DOCS.md line 13: the app "sends completed utility
   intervals". `service.py:144` saves the end of the window as the cursor as soon
   as the window has any reading. If one mapping's newest slot is compiled and
   another's is not, or a longer window is missing its newest slot only, the
   missing slot is behind the cursor for good (`import_overtaken`). The recorder
   compiles five-minute statistics some seconds after each boundary, so a cycle
   that falls between a boundary and that moment, with an older slot still
   unsent (after an outage, say), is enough.

## Proofs

The theorems hold for every value of the constants that satisfies the named
assumptions of the modules: any set of mappings, backfills and batch size, any
list of registries and delays, any bound on faults and changes. The assumptions
only give types, and that the two file markers differ from every state and from
each other, and a missing sum from every number.

- `ImportProofs`. `TypeCorrect`; then `CycleInvariantHolds`, from which
  `CursorNeverAhead` (`CursorCovers`), `FileAlwaysWhole` and `KnownMappingsSent`
  follow. `CursorCovers` is not inductive by itself: a cycle saves what it set out
  with a long time before. `CycleInvariant` says what it has established in
  between: the state it loaded was covered (`LoadedCovers`, which stays true
  because what Hauzer has only grows and a slot recorded meanwhile is late);
  every row of its window is sent, still to be sent or late
  (`WindowAccountedFor`); nothing is left when it saves (`AllPosted`); and the
  temporary file is exactly what it will move (`ReadyToReplace`).
  `SavesMoveForward` (`SavesNeverRewind`) needs one more invariant,
  `CursorBehindClock`: without an adjusted clock no file is ahead of the clock,
  nor of the window's end while a cycle runs.
  `ImportImplementsContract` is the refinement of `ImportContract`. It needs, beside
  the cycle invariant, that what a cycle has still to post, and what Hauzer has,
  was read (`TodoWasRead`, `TakenWasRead`), and that what a file covers is settled
  (`ClaimIsSettled`). `ContractKeepsPromises` shows what the contract is good for:
  from its steps alone, whatever the file promises, or would promise after a loss
  of power, stays settled. The same module proves of `MeteredImport` that its steps are steps
  of the import (`MeteredIsImport`, hence `MeteredImplementsContract`), and
  `ConsumptionCountedOnce` and `NoConsumptionLostBetweenNeighbours` from one
  invariant, `MeteredInvariant`: every reading built or delivered lies before the
  end of the furthest read (so that a row recorded below it from now on is late),
  and counts from a row that no timely row lies above. That one uses the type
  invariant of the import only: which windows a cycle reads does not matter, as
  long as each is read with the slot before it.
- `HauzerPostProofs`. One invariant: the position in the loop fixes the number of
  requests sent, each of them is in flight, abandoned, taken or refused, and a
  late one needs a stop check passed before. It gives `DuplicatesBounded`,
  `LateSendBounded`, `UnavailableSpent` and the refinement
  `PostImplementsDelivery` of Delivery's safety part.
- `RegistryTimingProofs`. The invariant adds to `DailyRefreshOnTime` that a
  deadline is never nearer than the age of what set it allows; it gives
  `DailyRefresh` and `Debounced` for every three intervals, in any order.
- `RegistryProofs`. `WorkerFollowsSchedule` (so the timing theorems apply to the
  worker), `RegistryTypeCorrect`, `FirstReadStaysPending`,
  `ChangesAreNotForgotten` and `WorkerImplementsFeed`. `ChangesAreNotForgotten`
  rests on three invariants: `Conversation` (a command is answered at most once and
  no other is asked meanwhile), `SubscriptionsHold` (Home Assistant reports what the
  worker has been promised) and `AnswersAreFresh` (an answer that is out of date
  when it is received has been followed by the event that says so). The refinement
  of `RegistryFeed` needs `ListsAreOfThisRead`: the lists received and the answer
  still in the connection lie between the stamp of the read and the present; with
  `Conversation` no answer of an earlier read is left when one starts.
- `ReadingsProofs`. What `build_readings` returns, for every table of rows in every
  order and every window: `DeltasBetweenNeighbours`, `WindowsDoCompose` and
  `DeltasDoAddUp`. Four steps lead there. Induction over finite sets comes from
  the well-foundedness of strict inclusion (`LeastNumber`, `Induction`), and gives
  the recursive functions their equations (`Solves`, `Recursion`). The ranks of the
  rows number them without a gap, so that `InOrder` is their one ordered enumeration
  (`RankedRows`, `OneEnumeration`). The loop has a closed form: after each row, its
  readings are those of the rows so far and its previous sum is that of the last
  one (`LoopSteps`, `LoopReadings`), which gives the reading of a slot by its row
  and the row before (`ReadingOf`). Two windows then compose because the
  enumeration of the rows is the two joined (`EnumerationsJoin`), and the sums
  telescope up to the error of quantizing each (`QuantizedError`).
- `DiscoveryProofs`. For every catalogue of statistics, words and states: losing
  states only lowers scores and leaves what is chosen (`NoSwitchOnLoss`), a
  candidate's unit is never the state's (`UnitsKeptOnLoss`), volumes are no electricity candidates before or
  after (`ElectricityUndisturbed`), and `OneMetricEach`.
- `ExporterProofs`. `NoTraceOfRefusal`, `OverrideInstalled` and `LoopIsNotHalted`,
  for any combination of options and any hosts file: the invariant ties each
  phase of `main` to what has been validated and written before it.
- `HomeAssistantCallsProofs`. `SocketsAreClosed` and `ReadsAreAtomic`, the safety
  part of the refinement. `CallInvariant` says that Home Assistant and the client
  take turns (`InTurn`), so that the first message after the command was numbered
  is one made for it, or one whose number the client refuses (`AnswersAreSeen`).

Only model-checked: the liveness properties (`RecordedSlotArrives`,
`MirrorConverges`, `WorkerStops`, `StopEndsProcess`, `ImportsGoOn`, and the
liveness halves of `ImplementsDelivery` and `ImplementsRead`), since fairness and
`ENABLED` are out of the prover's reach. Every safety property of a passing run is
a theorem. The inductive invariants, and the type invariants of `MeteredImport`,
`Discovery` and `HomeAssistantCalls`, are proved and no run repeats them.

## Not modelled, and why

- The smoke fixture: a test double that runs one cycle in order.
- Dockerfile, build and manifest files: no behaviour of the program.
- The text of timestamps, decimals, ids and URLs: parsing is modelled by the
  classes of values the code tells apart afterwards.
- Authentication, TLS, redirects, request and response bodies, logging: no
  property here is about them.
- The heartbeat of the WebSocket and its framing: the library's.
- A state file edited or damaged from outside the app: `StateFileIsWhole` is about
  what the app itself writes.
- Starts of recorder rows in texts of mixed UTC offsets (see `Readings`).
- A recorder that purges old rows, or a unit that changes between two reads of
  one cycle: what should be sent then is documented nowhere, so the hazards are
  listed without a property.
- How long a shutdown takes beyond the join: a cycle under way may still make
  several calls of twenty seconds. The models have no clock there; a process
  that is killed meanwhile is `ImportService`'s `Crash`.
- Hauzer's handling of duplicates and of registry snapshots that arrive out of
  order: outside this repository; `Delivery` says what it must be ready for.

## Plan

What could still be added:

1. A recorder that purges rows, once it is decided what a replay past the purge
   should send.
2. The shutdown in seconds: the calls of a cycle and the join against the grace
   period of the container.
