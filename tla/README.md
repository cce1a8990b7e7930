# Verification of the iGrill remote server

TLA+ models of the server in `src/service/`, the TLC configurations that
model-check them, and TLAPS proofs about them. The reference is the code;
`PROJECT.json` maps every definition to the lines it stands for.

The server reads thermometers over Bluetooth, records the readings of a
cooking session in SQLite, compares them with the targets the user set,
runs one timer per probe and tells browsers and phones about all of it over
WebSockets and push notifications. It is one asyncio process. What makes it
hard is therefore not parallelism but what happens at every `await`: another
coroutine may run there, the call may fail or be cancelled there, and the
process may die there.

## Inventory

| Component | State | Operations | What makes it correct |
|---|---|---|---|
| History store, `history/store.py` | tables `sessions`, `session_devices`, `session_targets`, `probe_readings`, `device_readings`; `_current_session_id`, `_last_session_id`; the connection's open transaction | recover, start, end, discard, leave, rejoin, add device, save and update targets, record | one open session at most and it is the current one; ended and discarded sessions stay so; no row outlives its session; readings are not lost |
| Probe timers, `history/store.py`, `timers.py` | table `session_timers`; the list a scan found | upsert, start, pause, resume, reset, complete; scan | one alert per run, completion is final, no time is credited that did not pass, no timer is forgotten |
| Session requests, `api/websocket.py` | nothing of their own: locals kept across `await`s | start, end, discard, update, update targets, add device, notes | evaluator and database agree, every end is announced once, broadcasts tell the truth |
| Device workers, `ble/device_worker.py` | connection, next sequence number, session id in hand | connect, authenticate, rejoin, poll, record, leave | connected members are recorded, no sequence number is used twice, nothing stale is shown, a device is never given up |
| Alert evaluator, `alerts/evaluator.py` | targets per session; flags and time of the last reminder per (session, probe) | evaluate, set targets, clear | no silent cook, no repeated alert, reminders on time |
| Downsampler, `history/downsampler.py` | none | a pass over the readings of one session and range | averages only what is over; keeps one row per bucket |
| Simulator, `simulate/` | a task that writes readings | start, stop, poll | a cancelled write leaves the store consistent |
| Client queues, `api/websocket.py`, `models/device.py` | two bounded queues per client, the bounded event queue of the store | enqueue, evict, send, remove | a slow client delays nobody, critical events come first |
| Rate limiter, `api/websocket.py` | request times per peer | admit, sweep | never more than the limit in a window, and nothing refused below it |
| Connection state and device manager, `ble/connection_state.py`, `ble/device_manager.py` | state and failure count per device; the workers' tasks | scan, spawn, respawn, stop | every device in range ends up with one live worker |
| Push service, `push/service.py` | table `push_tokens`; the time of the last update; the tokens a loop has still to send to | register, alert, update and end Live Activities, test | one token's failure costs no other anything, only refused tokens are dropped, no alert twice, updates spaced |
| Migrations, `db/migrations.py`, `db/schema.py` | `schema_version`, the schema itself | create, migrate | a migration is applied wholly or not at all, and once; the older notes survive it |
| Start-up and shutdown, `main.py` | the tasks | recover, rehydrate, run, stop | alerts work again before readings arrive |
| HTTP API and envelopes, `api/routes.py`, `api/envelope.py` | none | queries, export, simulator control | |
| BLE protocol and readings, `ble/protocol.py`, `models/reading.py` | none | parse bytes | covered by unit tests |
| Configuration, logging | read once | | |
| Web dashboard, `web/static/` | the session a page shows | reduce broadcasts | shows what the server has |

How they interact: handlers and workers call the store, one call at a time
under its `asyncio.Lock`; they arm, clear and ask the evaluator, which is
synchronous; they put events into the store's event queue, which a broadcaster
drains into the client queues and the push service. The completer scans the
timers every five seconds. The device manager starts and restarts workers.

Two facts about the concurrency carry all the models:

* A call of `HistoryStore` holds the lock from its first statement to its
  return. Between two calls of one coroutine any number of calls of others can
  run: the lock is handed over in order of arrival. The methods of `DeviceStore`,
  `AlertEvaluator` and the synchronous helpers never yield.
* All calls share one SQLite connection. The driver opens a transaction before
  the first INSERT, UPDATE or DELETE; a method that raises afterwards releases
  the lock and leaves the transaction open, to be committed or rolled back
  by whichever call comes next.

## Modules

| Module | Models | Extends or uses |
|---|---|---|
| `HistoryStore` | the store, to the commit; its connection; crash and recovery; downsampling passes | `SessionPromise` |
| `SessionPromise` | what the store promises: one active session id, closed ids stay closed | |
| `HistoryStoreProofs` | theorems about `HistoryStore` | `HistoryStore`, TLAPS |
| `ProbeTimers` | timer rows, the requests on them, the completer, the clock | |
| `ProbeTimersProofs` | theorems about `ProbeTimers` | `ProbeTimers`, `SessionPromise`, TLAPS |
| `SessionServer`, `SessionServerMC` | request handlers and workers on top of the store's calls, with the evaluator's targets and the lifecycle broadcasts; symmetry and view for TLC | |
| `SessionServerProofs` | theorems about `SessionServer` | `SessionServer`, `SessionPromise`, TLAPS |
| `DeviceWorker` | the life of one device's worker: connection state machine, backoff, polling, sequence numbers, respawn by the manager | |
| `DeviceWorkerProofs` | theorems about `DeviceWorker` | `DeviceWorker`, `SessionPromise`, TLAPS |
| `AlertEvaluator`, `AlertEvaluatorMC` | the evaluator for one probe index; configurations and temperatures for TLC | |
| `AlertEvaluatorProofs` | theorems about `AlertEvaluator` | `AlertEvaluator`, TLAPS |
| `Broadcast` | the queues of the store, the broadcasters, the hub, each client's queues and sender | `EventFeed` |
| `EventFeed` | what a client is promised about critical events | |
| `BroadcastProofs` | theorems about `Broadcast` | `Broadcast`, TLAPS |
| `PushService` | tokens, alerts, Live Activities | |
| `PushServiceProofs` | theorems about `PushService` | `PushService`, TLAPS |
| `RateLimiter` | the sliding window and its sweep | |
| `SessionNotes` | migrations and notes, behind the limiter | extends `RateLimiter` |
| `SessionNotesProofs` | theorems about `RateLimiter` alone and about the composition | `SessionNotes`, TLAPS |

### HistoryStore

`db` is what the connection sees and `disk` what the last COMMIT made durable.
They differ only while `inTxn`. Each action is the stretch of a method between
two points at which others can see the state: a commit, a failure, the
release of the lock. Most methods commit once and are one action.
`start_session` commits the end of the previous session before it inserts the
new one, so it is `StartSession` and `FinishStart`; `recover_orphaned_sessions`
is `Recover` and `EndDuplicates`. `pc` says which of them is under way.
`Crash` can happen at all of these points. `Commit`, `Abandon` and `Rollback`
are the three things that happen to the connection; `WriteChild` is a
statement that a foreign key may refuse, and such a refusal leaves the
transaction open with no change in it. `UpdateTargetsFails` is the one failure that
leaves changes in it: a list that names a probe twice violates the primary key after the
DELETE and some INSERTs. `RecordReadingCancelled` is the simulator being
stopped inside `record_reading`. `DiscardSession` and `DownsamplePass` start with
an explicit BEGIN, which fails inside an open transaction; their handlers then
roll the other call's work back.

A session id is a uuid and is modelled as the number of its start, which is
the order of `started_at`. A reading cycle has no row, its device row, or all
of its rows. Names, notes and the devices table are `WriteElsewhere`: only
the commit matters here. `Init` allows any set of sessions and members a
previous run can have left, several open ones included.

### SessionPromise

`active` is the session a restart would resume, `closed` the other ids ever
issued. A step starts a session that was never used or closes the active one.
`HistoryStore!PromiseSpec` instantiates it with `active` the newest open
row on disk; a crash, a recovery or a failed call must be a stutter.

`ProbeTimers`, `SessionServer` and `DeviceWorker` have sessions too, but not
the store's transactions: a `start_session` with a session active is one step
there. `CallSpec` has it as `Replace`, and the proofs about these modules show
that each implements `CallSpec`. So their reduced stores are not assumptions
about `HistoryStore` that could contradict it: what they take for granted of
session ids is what the store provides.

### ProbeTimers

A row has a mode, a duration, `started_at`, `accumulated_secs`, and of `paused_at` and
`completed_at` whether they are set: the code looks at nothing else. A request
and its broadcast do not yield in between and are one action. The completer is
`FindExpired`, which keeps the list in `expired`, and one `CompleteTimer` per
entry, with requests, `EndSession`, `StartSession`, `DiscardSession` and
`Restart` in between. A request the code refuses is not a step. The clock
ticks in half seconds, so that the truncation of elapsed time to whole seconds
shows, and `SetClockBack` sets it back, since the code reads the wall clock.
`ran`, `stops` and `alerts` are history: the time a timer really ran, how often it
was stopped, and the alerts it raised, since its last reset.

### SessionServer

`req[c]` is the handler client `c` has in progress and `worker[d]` the worker of
device `d`: the place between two store calls, and the session id it
carries from one to the next. Each action is one store call and what follows
it up to the next await. A WebSocket connection handles one message after the
other, so one handler per client is all there is. A handler that raises ends
the connection (`Dies`): what it wrote stays. `armed` is
`AlertEvaluator._targets`; `over` counts the session_end and session_discarded
broadcasts; `shown` is the session a page shows that applies the broadcasts in
order, as `sessionStore.js` does.

A call of the store succeeds (`Commit`), raises and leaves its transaction
open (`Abandon`), or finds one open at its BEGIN and rolls it back (`Rollback`).
`targets` is the table of target lists as the one connection sees it,
`durable` as the last commit left it, and `failedTxn` the part of
`HistoryStore!inTxn` that matters here. So the failures are actions of their
own next to the ones that succeed: `WriteTargetsFails` is `update_targets` raising
after its DELETE and some of its INSERTs, at a probe that the list names
twice for instance, which the handler does not refuse; `SaveTargetsFails` the same in
`save_targets`, at a number that SQLite cannot hold; `RequestStartFails` is
`start_session` raising at its INSERT, when the end of the session before is
committed already; `DownsampleFails` a pass of the downsampling that finds a transaction
open. A half-done list is visible at once, becomes durable with whatever is
committed next (`WriteElsewhere` has the writes of timers and notes) and goes with the
next rollback. What `half` is left of a list is any other list.

Three history variables say how far such a failure, or an overlap, reaches.
They appear in the properties as the exceptions the code does not allow to
drop, and in no guard:

* `lost`: the sessions whose end nobody is left to broadcast, because the handler that
  had to failed, or the process died;
* `garbled`: the last change of the active session was made while another handler
  had broadcasts to make, or its own were lost;
* `halfDone`: the devices of the active session whose list a handler that
  failed changed, until a handler loads the lists again, or, if what was loaded is
  not committed and may yet be taken back, one after it.

`SessionServerMC` adds what TLC needs for two clients, two devices, a crash and
all of these failures: clients and devices are interchangeable, no value of either is
named anywhere in the specification; and the view leaves `member`,
`readings` and `worker` out. No device is in range in that run, so
no worker moves, and neither the properties of the run nor any guard or any
assignment of another variable looks at the three: `readings` and `worker` never
change but with a discard or a restart, and only workers ask for `member`.

### DeviceWorker

`SessionServer` has what workers do to sessions that requests change under
them; `DeviceWorker` has the rest of one worker's life. `pc` is the place in
`run` or `_poll_loop`, `state`, `failures`, `hadSuccess` and `backoff` are the
`ConnectionStateMachine`, `prev`, `held` and `probes` the locals of
`_poll_loop`, `entry` the device's entry in the `DeviceStore`, and `task` what
`DeviceManager._tasks` holds for it. `probeRows` and `deviceRows` are the
sequence numbers in the two tables of readings, which `Record` fills with
INSERT OR IGNORE and `Seeded` reads back. `Connect`, `Authenticate` and `Read`
may fail; `LinkDrops` may happen at any time and shows at the next look at
`client.is_connected`; a cycle in which the link dropped, or whose
sockets are empty, has no probes. `Leave` is the marking of the device as
having left, the zeroing of the readings and the way into backoff in one step. When the power
of two no longer fits a float (`MaxDoublings`, 1023 in the code) the worker
dies there, and the manager's health check, `Respawn`, puts a new one in its place. `Restart` is
the death of the process and the recovery of the open session. The jitter is
left out. `lastWait` is history: the wait before, 0 after a success.

### AlertEvaluator

Sessions and probe indices do not influence each other in the evaluator, so
the module is one such pair: `target` has the configuration per device,
`state` the flags, which all devices share. `Evaluate` runs the loop over the
targets as a recursive function, `SetTargets` replaces the list and decides
whether the flags start afresh, `ClearSession` drops both. Modes, units,
offsets, both bounds of a range and the reminder interval are all there; a temperature is an
integer number of ninths of a degree Celsius, exact for both units. `heard`,
`loudest` and `lastNews` are history: what a user of the device has been told.

### Broadcast and EventFeed

A message of `publish_event` goes through `eventQueue`, is put by
`BroadcastEvent` into the queue `events[c]` of each client of the hub whose
connection is open, and is taken and sent by the client's sender task: `hand[c]` is
what it is about to send. Readings take the same way through queues of their
own, of which the client's holds one. `Put` is what all four queues do when
full: the oldest entry goes. A broadcast does not yield; a send does, and it
may fail, which ends the sender but not the connection. `Close` is the
client's doing or the heartbeat's, `Remove` the end of the handler, `CloseSender` the task
that a broadcast starts for a client that it found closed. The clients in `Slow` are
under no obligation to ever finish a send. An event is the number of its
publication, since of its content nothing here depends; `published` is the newest.
`since`, `got` and `shown` are history. The pushes that a broadcaster awaits are in
`PushService`; here it may take any time before its next message.

`EventFeed` is the promise: a client gets events in the order of publication,
each at most once, and may miss only those that `Window` newer ones have
followed. `Broadcast!FeedSpec` instantiates it with the smaller of the two capacities.

### PushService

`row` is the table `push_tokens`: per token no row, a row without a Live
Activity, or the token of one. `alerting[t]` is the coroutine of `send_alert` for
one token, with its one retry; `ending` and `updating` are what is left of the lists
that `end_live_activities` and `send_live_activity_update` read at their
beginning. Both loops wait twice, for the answer of APNs and for the database
when that refuses a token, so each has an action for either. `broadcast_events` is
in one of the first two at a time (`EventsIdle`), `broadcast_readings` in the
third; registrations and test pushes come in between. `dead` is what APNs
refuses from now on; a push to a token of `Flaky` may also fail for good, or as unavailable.
`sinceUpdate` is the age of `_last_la_update_ts`, counted up to the
interval. `alerted`, `ended` and `age` are history.

### RateLimiter and SessionNotes

`RateLimiter` is `_RateLimiter`: `Admit` and `Refuse` are the two outcomes of `allow`, each with
the sweep when it is due and the pruning of the peer's own list. `admitted` is
history: every request ever admitted. `_MAX_TRACKED_KEYS`, which the code
never reads, is left out.

`SessionNotes` puts it in front of the requests that change notes, and these on top
of a schema that has to be migrated first. `Script` is the kind of each statement
of each migration; a column that exists cannot be added again, which is what makes
a half-done migration fatal. `Execute` is one statement in the explicit transaction,
`Record` the version row and the COMMIT, `Fail` the ROLLBACK, after which the
server does not start, and `Crash` the death of the process at any point. `Init` is
any database that a server from version 0 to 4, before the notes had a
table, can have left. `legacy` is `sessions.notes` and `rows` the table `session_notes`.
`legacyOnly` is history: the sessions whose legacy column `update_session` wrote alone.

## Runs

| Run | Question | Bounds |
|---|---|---|
| `store_lifecycle` | Do memory, connection and disk agree on the session, through crashes, failures and recovery? Does the store implement `SessionPromise`? Is an open session always resumed? | 3 sessions, 1 device, 1 probe: start over an open session, end, and one more from before |
| `store_readings` | Is a reading of a running session ever lost, or left without a session? | 2 sessions, 1 device, 2 cycles: one session is averaged while the other is recorded; a bucket of two cycles |
| `timers` | What can requests, ends, discards, restarts and a clock set back between a scan and its completions break? Is elapsed time right? | 1 timer in 2 sessions, so the scan can find two; 3 ticks, countdown of 1 s, 2 stops, 1 set back, 1 restart |
| `server_targets` | Does the evaluator end up with the stored targets, whatever two clients do at once and whichever of their calls fail? Is every end announced, once, and do the broadcasts tell which session is active? | 2 clients, 2 sessions, 2 devices, 1 crash; any number of failing calls and other writes |
| `server_workers` | Is a connected member recorded while a client ends and discards sessions under its worker, and its calls fail? | 1 client, 1 worker, 2 sessions, 1 crash |
| `server_rejoin` | Does a device that reconnects take part again? No. | 1 client, 1 worker, 1 session |
| `device_worker` | Are sequence numbers ever used twice, stale readings shown, a device given up, a wait wrong, through lost links, a dead worker, a restart and new sessions? | 2 sessions, 2 recorded cycles in each, 1 restart; waits of 2 and 4 s, then the cap of 7 s, then the overflow |
| `alerts_one_device` | Is a user told, once and in the right order, whatever edits of the target come in between? Are reminders on time? | 7 configurations, 8 temperatures below, on and above each threshold, 4 s |
| `broadcast_events` | Does eviction only take the oldest, does one client's slowness cost another an event? Does `Broadcast` implement `EventFeed`? | 2 clients, one slow; 4 events, queues of 2, so that both overflow |
| `broadcast_readings` | Does a screen ever go back to an older reading, does the last one arrive, is anything left of a closed connection? | 2 clients, one slow; 2 readings and an event that overtakes them |
| `push` | What can a failing, dying or re-registered token do to the pushes of the others? Are updates spaced, and do they go on? | 2 phones, 2 activities, one of each flaky, 1 token that dies |
| `notes` | Are migrations whole after crashes, do the two places of a note agree, does any window hold more admitted requests than the limit? | 1 session, 3 texts, versions 0 to 4 at first, 2 troubles; 2 requests in a window of 2 ticks, a sweep when more than 2 have passed, 5 ticks |

Why these bounds: every race in these modules is between two parties (a scan
and a request, two handlers, a worker and a handler, a broadcaster and a
sender, two loops over tokens) over at most two sessions, the one in hand and
the one that followed it; a third session covers a
recovery that finds several. The passing runs fire every action. Most safety
properties are proved for all values, so there TLC only has to confirm that
the statements are the right ones and that faults violate them. For the server the
second client is what matters; a third adds only more of the same
pairs. For a worker, two sessions cover the change from one to the other in the
middle of a cycle, and two cycles a number that is used again; the cap is no
power of two and lies below the overflow, so that the waits reach all three
regimes. Four events through two queues of two make each overflow, also while
the sender has one in hand. For the migrations one trouble interrupts a
statement and the second the repetition. Values that only have to be told
apart (target lists, devices, tokens, texts) are
model values or strings; ids are numbers because recovery compares them.

The runs are kept to the properties that are hard to see from the code. Type
invariants and a few safety properties that are proved for every value of the constants
(`RowShape`, `HistoryIsFrozen`, `NoRevival`, `InOrder`, `NotTwice`, `RefusedAtLimit`) are
not checked a second time; the one type invariant checked by TLC is that of
`AlertEvaluator`, since it includes the order in which the flags are set.

Every property of a passing run is violated when one seeded fault, an operator
marked as such just before the definition it would replace, is put in its
place; `PROJECT.json` lists the pairs.

### What the violated run shows

* `server_rejoin`: README.md says that a device is "automatically rejoined". `run` rejoins
  only a device for which `is_device_in_session` holds, and it does not hold of one that left.
  Adding the device again does not help either: INSERT OR IGNORE keeps `left_at`.

Seen while modelling, and not shown by a run (README.md is the
repository's):

* README.md says "Count-down timers auto-complete when elapsed >= durationSecs". A
  timer that is reset, or set up anew, between the completer's scan and its completion
  is completed at once, with its alert: `complete_timer` does not check again.
* `get_max_seq` says that it returns "the highest seq number recorded for a
  device in a session". It looks at `probe_readings` only, and a cycle without
  probes has a row in `device_readings` only. The next connection uses its
  number again, and the battery, propane and heating of that cycle are
  ignored. `ProbesAreKept` is therefore about temperatures.
* README.md speaks of per-device targets. Targets are looked up by probe index
  alone, so a reading of one device raises alerts for another's.
* A phone that registers again, with the same token, between the refusal of that token and its
  removal loses the new registration: `remove_token` deletes by token
  whatever was written in between. The same goes for the token of an activity.
* A Live Activity whose token two device tokens carry, which happens when a
  device token is rotated, is in every round twice.
* The tokens of activities stay in the table when the session ends, so
  readings that follow the end, of the next session for instance, are sent to
  activities that were ended. A push of the end that fails is not repeated.
* `update_session` writes notes to the legacy column only, although README.md
  calls it "dual-written alongside the new `session_notes` table"; the two then
  differ until the next `session_notes_update_request`. `NotesAgree` excepts these sessions.
* In `downsample_range` the probes of one device whose rows in a bucket begin at
  different sequence numbers keep one device row each, averaged over
  overlapping rows; the second group's delete removes the row that the first one
  inserted if its number is among its own.
* A sender that fails ends without closing its connection; until the heartbeat does, the
  client stays in the hub and gets nothing.
* README.md says "When a session ends, the raw readings are downsampled". A
  session that the next start ends, or that recovery ends as a duplicate, is not:
  only `end_session` does it.
* The comment in `_poll_loop` says "Only record to DB and evaluate alerts when a
  session is active and this device is part of it". The id comes from one call
  and the membership check from the next; a session ended, or replaced, in
  between gets the reading. The actions `Poll`, `Check` and `Record` of
  `SessionServer` have this race; `MemberIsRecorded` allows for it: the hazards it does not catch, a
  reading that comes late and a device marked as having left the wrong session, are
  named in `PROJECT.json` with the reason.
* README.md says that the backoff is capped at `IGRILL_MAX_BACKOFF`; up to a
  quarter of jitter is added after the cap.
* README.md lists connecting and disconnected among the states that
  `device_state_change` reports; only polling and backoff are published.
* `update_targets` with a repeated probe leaves the DELETE and some INSERTs in
  the open transaction; the next commit of any call makes the half-done list
  durable, although the request failed. The handler does not get to `set_targets`,
  so the evaluator goes on with the list of before until the next
  `target_update` or start of any client, which loads what is stored, half of a
  list included. If that load comes before the commit, and the list is rolled
  back instead, the evaluator is left with a list that the store no longer has.
  The same goes for `save_targets`. `ArmedAsStored` excepts these devices (`halfDone`)
  and no others.
* README.md says of `session_start` and `session_end`: "Broadcast when sessions
  change." A `session_end` is lost when `start_session` raises after it has
  committed the end of the session before (a `targetDurationSecs` beyond 64 bits is
  not refused), when the handler of a start dies at `save_targets`, for instance
  because a second client has discarded the new session, and in a crash; the
  evaluator keeps the targets of that session. `BroadcastsTell` excepts these
  sessions (`lost`) and demands every other end.
* With two clients a `session_start` can be broadcast before the `session_end` of
  the session it follows (`end_session` downsamples before its handler
  publishes), and a page that applies them in order shows no session.
  `BroadcastsTell` excepts a change whose handler met another with broadcasts to
  make (`garbled`), until the session changes again.
* A `target_update` that finishes after its session ended arms the evaluator
  for a session nobody clears any more.
* Two devices with targets on one probe index share flags, so the alert of one
  can silence that of the other (`NeverSilent` needs one device); and storing an
  unchanged list can re-arm the alerts, because `old_target_by_idx` keeps the last one.
* Raising only the low bound of a range does not re-arm.
* README.md says of `session_discard` that it stops the simulator; the handler
  does not.

## Fairness

* `HistoryStore`: weak fairness of `Recover` and `EndDuplicates`, because `main.run`
  always recovers before it serves and the supervisor always restarts it; and
  of `FinishStart`, because a coroutine that holds the lock is resumed.
  Nothing makes a user start or end a session.
* `ProbeTimers`: weak fairness of the scan and of each completion, because the
  completer is a loop that sleeps five seconds and catches what a pass raises.
* `SessionServer`: weak fairness of `Continue` of each client and of the worker
  of each device in range, because the event loop resumes every ready coroutine and the
  lock is fair. No fairness for new requests, failed connections, links that drop or crashes.
* `DeviceWorker`: weak fairness of the worker's steps, because its sleeps, its
  GATT calls, which have timeouts, and its store calls end; and of `Respawn`,
  because `scan_loop` catches what a scan raises and checks its workers every
  time round. Which of a step's outcomes happens is left open: a connection
  may fail every time. A device need not advertise, a link need not drop.
* `Broadcast`: weak fairness of both broadcasters, loops that catch what a
  push raises; of the senders of clients that are not slow; and of `Ends`: the
  heartbeat of 30 s closes a connection on which sending has failed, and a
  handler whose connection is closed comes to its end. Nothing is assumed of a slow client's sender.
* `PushService`: weak fairness of each alert, of the end and of the update, as
  every push is answered or fails, and the database answers; of `SendUpdate`, so
  `UpdatesGoOn` is about a server whose readings keep coming; and of time.
  Which answer a flaky token gives is left open.
* `SessionNotes`: weak fairness of the start and of each step of the
  migrations: the supervisor starts a server that is down, and nothing but
  a bounded number of crashes and failures stops it.
* `AlertEvaluator` has safety properties only; `RateLimiter` and `EventFeed` need none.

No run turns deadlock checking off.

## Proofs

Each proof follows the usual three steps: `Init => IInv`,
`IInv /\ [Next]_vars => IInv'`, `IInv => property`, with one step per action.
They assume the named assumptions of the modules (`StoreAssumption`,
`TimerAssumption`, `ServerAssumption` and so on), which bound nothing but
the types of the constants and the distinctness of their values: the numbers of
sessions, clients, devices, tokens and events, the capacities, limits, durations and the
bounds on clocks and crashes are arbitrary.

`HistoryStoreProofs` proves `TypeOK`, `CurrentIsOpen`, `OpenIsCurrent`,
`LifecycleCommitted`, `NoOrphanRows`, `NoRevival`, `ActiveReadingsKept` and that
`Spec` implements `PromiseSpec`.
The invariant is needed because none of them is inductive alone. A rollback can
only be harmless if the open transaction holds no session and no membership
row (`LifecycleCommitted`); for the commit of a start to leave one open row, the
current session must have been the only one (`OpenIsCurrent`), which holds when
the lock is free and has to say, for the two-commit methods, what is true half-way:
while a start is under way no row is open, and while recovery is, the
current session is the newest open row. Ids not yet issued have no row, which is
what makes a new session newest and `NoRevival` true of it. The refinement
follows: every action either leaves the newest open row alone or closes it,
or opens one above all others. For the readings, `Readings`: downsampling
passes are left only for sessions that are over, and a cycle that is whole on
disk is whole for the connection too, so that neither a commit nor a rollback
takes it away.

`ProbeTimersProofs` proves `TypeOK`, `RowShape`, `Accounting`, `AlertedOnce`,
`HistoryIsFrozen` and `CompletedIsFinal`. The core of the invariant: a
completed row is paused and never started, so it cannot be running and a start or resume
is refused; what a scan found and has still to complete is not
completed, so a completion's alert is the first since the reset; and the time
a timer ran is at least what was credited plus the run in progress, the
difference being less than a second per stop unless the clock was set back.
Its sessions implement `SessionPromise!CallSpec`.

`SessionServerProofs` proves `TypeOK`, `OverOnce`, `ArmedAsStored`, `BroadcastsTell` and
`AlarmsStayArmed`, for any number of clients, devices and failures. That an end is announced once
needs to know who will do it: in `Debts` a session whose end is not
announced yet is owed by one handler at most, and is not open any more, so that
no second handler can come to owe it; `Ledger` says that only the current
session is open and that ids not issued are blank. For the evaluator, `Loaded`, device by
device: the list of the active session is armed as stored, unless some handler has
yet to load it (`ToLoad`) or one has failed at it (`halfDone`). The handlers that load
are many and each loads what the others wrote, so the last one leaves the two equal;
`ArmedAsStored` is the case that none is left. It is not inductive without a second
half: a rollback changes what is stored and no handler hears of it, so a list that is not
`halfDone` must be committed (`CommittedFor`). That is why a load takes from `halfDone`
only the devices whose lists are durable.
`NoOrphans`: of a session that does not exist there are no members, targets or
readings, although handlers and workers keep its id across awaits; every call
either finds the session, violates a foreign key or updates no row, and no
rollback brings one back. The sessions implement `SessionPromise!CallSpec`.
`BroadcastsTell` has two halves. `Announced`: a session that is over was announced to
be, is owed by a handler in progress, or is `lost`; `Debts` makes the announcement the
only one. `Follows`: unless the change was `garbled`, one handler at most has
broadcasts to make, the one that changed the session last, and when it has made them
the browser shows the active session.

`DeviceWorkerProofs` proves `TypeOK`, `NothingStaleIsShown`, `ProbesAreKept`,
`BackoffDoubles`, `DiesOfOverflowOnly`, `NoOrphans` and, again, `SessionPromise!CallSpec`. The
invariant ties the local variables of the loop together: the
session that is recorded is the one the numbers were resumed from
(`SessionInHand`), and the counter has reached every number used there
(`NumbersUsed`), even if another session is current by now. For the waits,
`LastOfFailures`: the last wait is the one for the failures so far, and after a
success there are none. That each power of two is twice the one before
(`PowersDouble`) needs that the recursive function `PowerOfTwo` exists; were it
not so, there would be a smallest number of doublings without one.
For `NoOrphans`, `SessionsIssued`: a session in hand has been issued, so that a row
can be refused to it only because it was discarded.

`AlertEvaluatorProofs` proves, for any number of devices that share a probe
index, `TypeOK`, `OnceForAll` (a one-shot event is raised for one device at
most, and only while its flag is clear) and `RemindersApart`; and for one device
`NeverSilent`, `NewsIsRecent`, `NotRepeated`, `StagesInOrder` and `RemindersSpaced`. The loop
over the targets is a recursive function; it exists, by the same argument
(`LoopExists`), and `LoopInv` holds after each of its passes: flags are only ever
set, and what was raised is what the flags did not hold back before and do now.
`Told` ties the flags to what the device has been told: every event it heard since
its target was raised is held back, and an exceeded target is no higher than
the loudest it was told about. The hypothesis `NumDevice = 1` is that of the
properties themselves: two devices share the flags, and one of them can take
the other's events away, see above. For any devices, `OnceForAll` is what
remains.

`BroadcastProofs` proves `TypeOK` with the bounds of all queues, `InOrder`,
`RecentKept`, `ReadingsForward` and the refinement of `EventFeed`. The store's
queue is a block of consecutive numbers up to the newest (`StoreInv`). A
client's queue is increasing and spaced (`Spaced`): it may have gaps, from the time
before the client connected and from evictions in the store's queue, but not
among the newest; so what an eviction drops has `Window` newer events after it.

`PushServiceProofs` proves `TypeOK`, `NotTwice`, `OnlyRefusedAreDropped` and
`UpdatesSpaced`. A loop that is about to remove a token keeps it in a local
while others change the table; the invariant says that it was refused and is
still dead. For the spacing, `AgesCount`: unless a round in which a push
succeeded is under way, every activity's last update is at least as old as the
throttle says.

`SessionNotesProofs` first proves `WindowBound` and `RefusedAtLimit` of the limiter
alone, from the fact that sweeping and pruning only forget what is no longer
fresh. Every window that holds a request ends at or after it, so that the
count at the last admission bounds the window that ends with it, and by
induction over steps every other.

It carries both over to the composition and proves `TypeOK`,
`MigratedWhole` and `NotesAgree`. What the connection sees is what is on disk
plus the statements of the migration that have run (`Migration`); before the
statement that moves the notes there are no rows, and afterwards the two
places agree (`Notes`, of `db` and `disk`). That a migration is not
done twice rests on the version row being in the same transaction.

Only model-checked: the liveness properties `OpenSessionResumes`,
`ExpiredIsCompleted`, `MemberIsRecorded`, `KeepsTrying`, `NewestArrives`, `LatestShown`,
`Forgotten`, `HealthyAreReached`, `UpdatesGoOn` and `ComesUp`, which need
reasoning about fairness and about when an action is enabled. Every safety
property of a passing run has a theorem.

## Not modelled

* What a GATT read returns and how its bytes are parsed: input of the workers.
* `DeviceManager.stop` and the order of a shutdown: after it nothing is left to go wrong
  but what a crash at the same point does, and crashes are modelled.
* The names of sessions, exports, queries: columns and reads no other component
  depends on.
* The averages of the downsampler and its grouping by probe: arithmetic on
  floating-point columns inside one transaction. `HistoryStore` has which cycles survive a
  pass and what its transaction does to the others.
* What a push says: titles, bodies and the content state of a Live Activity; the
  connection to APNs and its configuration.
* The loop of the simulator and its curves: a worker without a link.
  `HistoryStore` has the cancelled write, `ProbeTimers` the simulated timer requests.
* The rounding of floating-point temperatures, and the jitter of the backoff:
  `BackoffDoubles` is about the wait before jitter is added.
* A clock that is set forward while a timer runs: `ProbeTimers` sets it back only. The
  code would credit the time that was skipped.
* What a restart of the process costs besides the store: the throttle of the Live
  Activity updates and the flags of the evaluator are in memory, so that the
  first update comes at once and alerts are raised anew. `PushService` and
  `AlertEvaluator` are about one life of the process.
* A failure of `start_session` at its INSERTs of devices: the handler has checked that
  they are addresses of devices the store of devices knows, and what these INSERTs refer to
  was inserted just before. `RequestStartFails` is the failure at the session's own INSERT.
* Front-end components, BLE parsing tables, configuration, logging: stateless, or
  presentation.
