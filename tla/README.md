# OpenRackScreen in TLA+

OpenRackScreen draws a rack's status on small panels. A **server** (FastAPI on
one asyncio loop, SQLite) holds the configuration of every rack and serves the
web interface; a **daemon** on each rack (threads) drives the panels and keeps
one websocket to the server. This directory models that system, checks the
models with TLC and proves what matters most with TLAPS.

## Inventory

| Component | State | Operations | Hard behaviour | What makes it correct | Here |
|---|---|---|---|---|---|
| Configuration link, server side (`api/changes.py`, `api/daemons.py`, `pairing.py`, `snapshot.py`, `link/hub.py`, `link/ws_daemon.py`) | the `daemon` rows (credential, `config_version`), the hub's connection and confirmed version per row, one handler per socket | create, rotate, delete, edit and push, hello, ack, supersede, drop | handlers interleave at each await; sends fail or time out; sockets are superseded while their reader runs | no edit is lost; a version shown as applied is applied | `RackLink` |
| Configuration link, rack side (`link.py`, `__main__.py`) | link file, snapshot cache, running version, panels, the stop event | connect, boot, hello, re-ack, apply, refuse, re-clock, pair, exit | crashes and failed writes between two steps; SIGTERM during a push; another process writes the same files | the version a rack claims is what it runs; it converges on the row's configuration | `RackLink` |
| Link messages (`ors_schema/link.py`) | none | parse, serialise | skew between versions | unknown fields tolerated, unknown types refused | messages of configuration, frames and questions |
| Requests and replies (`hub.py` `request`/`deliver_reply`, detection and probe routes, `link.py`'s send lock and watchdog, `hardware.py`) | pending waits, racks being probed, the lock of a rack's socket | ask, answer, time out, abandon, abort | a late reply, a reconnect during a wait, cancellation, a send that never returns | each wait ends once, with its own answer; the guard is always released | `Requests`, `Asking` |
| Live frames (`link/ws_ui.py`, `hub.py` watchers, daemon `frames.py`) | watcher sets, what a tab owes a rack, bounded queues, the pending frame | watch, arm, disarm, frame, drop, resume | coalescing window against disconnects, drop-oldest queues, reconnects, a screen removed while it is watched | a rack ends up streaming what is watched of the screens it shows | `Frames` |
| Supervisor (`supervisor.py`) | panels, workers, sources, the shutdown lock | start, apply, watchdog, probe, reap, stop | a signal re-enters `stop`; a push races `start`; a wedged worker is replaced; a retired source outlives its name | one live owner per panel; every panel is put to sleep once; a removed source stays removed | `Supervisor` (panels), `Sources` (integrations) |
| Screen workers, snapshot store, pollers (`screen.py`, `snapshot.py`, `poller.py`) | the store's condition variable, pause flag, source health | wait, wake, pause, resume, poll, retire | lost wake-ups; a poller outliving its source | a stopped worker stops; no reading is slept through | `Sources`; lease and pause in `Supervisor` |
| Claims (`claims.py`, `api/claims.py`, daemon `join.py`) | pending claims, sealed grants, denied fingerprints | file, poll, approve, deny, expire, collect | a claim is replaced or expires around its approval; an answer is lost; the queue is full | a grant is opened by the rack that was approved, and its row stays its own | `Claims` |
| Tunnel (`tunnel.py`) | the kubectl process, failures | launch, probe, relaunch, shut down | shutdown on other threads than the loop; two tunnels on one port | no process outlives the daemon; the configured tunnel gets the port | `Tunnels` |
| Login and limits (`auth`, `limiter.py`) | attempts in a window | allow | the boundary of the window | what is refused now is let through later | the limiter, in `Claims` |
| Editing API (`api/*.py`) | rows of screens, templates, integrations | one SQL statement or two | none of its own: one transaction on one loop | content checks | only its effect on racks (`SaveEdit`) and on watchers (`Frames`) |
| Rendering, schema, displays, integrations, discovery, installation, server wiring, web views | none or a device | pure functions, device or file I/O, React views | none a state space would show | golden images, unit tests | not modelled |

How they interact: an HTTP handler commits its edit to SQLite, then awaits the
hub's sends one rack after the other. Each daemon socket has a handler that
authenticates the hello, registers with the hub, pushes and reads acks. On the
rack the link thread gives each push to a handler that calls the supervisor,
then writes the cache and acks. The supervisor's threads read the snapshot
store and draw. Browsers subscribe through the hub's watcher queues.

`PROJECT.json` lists each hazard at the line where it bites, with the property
that covers it or the reason there is none.

## Modules

| Module | What it is |
|---|---|
| `RackLink` | the configuration link, both ends, with rows, credentials, edits, sockets, disks, processes and faults |
| `RackLinkProofs` | its types; the hub and the sockets agree; the confirmed version is the running version; all proved |
| `RackLinkClaimProofs` | a claimed version is of the row the key is for, a row in step is shown, and no saved edit is lost, proved |
| `MCRackLink` | the symmetry of its instances for TLC |
| `Supervisor` | the threads that own a rack's panels: start, push, probe, watchdog, stop and signals, with the workers and their leases |
| `SupervisorProofs` | its types and its safety: no panel is closed twice, left lit or drawn on by two workers, no device is opened twice or under a writing worker, and a rack between calls shows one configuration; all proved |
| `MCSupervisor` | a rack of two panels on one bus, and what it is pushed |
| `Sources` | a rack's integrations and their pollers, the reaper, the snapshot store, and the screen workers that wait on it |
| `SourcesProofs` | no reading is slept through, and a forgotten name stays forgotten, proved |
| `Tunnels` | the kubectl processes of tunnels that follow each other on one port |
| `TunnelsProofs` | no process is left behind, proved |
| `Claims`, `MCClaims` | racks that join without a token: the server's tables and the rack's loop |
| `ClaimsProofs` | its queue, its grants and its rows, proved |
| `Frames`, `MCFrames` | tabs, the hub's watchers, and a rack's stream |
| `FramesProofs` | what a page shows and what a rack streams, proved |
| `Asking` | what whoever asks a rack something is promised, without connections |
| `Requests` | how that is done over sockets that are lost, stall and are replaced; it implements `Asking` |
| `RequestsProofs` | its type correctness, the probes' guard, what the hub tells whoever waits, and that every step is one of `Asking`'s, proved |

`Supervisor`, `Sources` and `Tunnels` are one program cut along what its threads
share: the panels, the store, and a process each. `_shutdown_lock` is in each of
the first two, since it is what keeps an apply whole.

### RackLink, against the code

A step is the stretch one asyncio task runs between two awaits, or what the
rack's link thread does with one message. Nothing else of the same process can
come in between: the hub and the handlers share one loop, and the rack's link is
one thread. The await in the middle of an edit's pushes (`Hub.push_config`) and
the one in the middle of the greeting of a newly paired rack (`paired` is sent
before `register`) are therefore step boundaries: `PushLoop`/`ResumePushing`
and `HelloWithToken`/`GreetPaired`.

| State | In the code |
|---|---|
| `rows`, `token`, `key`, `config_version` | the `daemon` table; `born` counts the rows an id has named, since SQLite reuses the largest id |
| `pushing[e]` | the pushes the handler of an edit has still to send (`changes.change`) |
| `connections`, `acked` | `Hub._connections`, `Hub._acked` |
| `socket`, `session`, `closed` | a handler of `daemon_socket`: where it is, the row it authenticated, the `closed` event of its `Connection` |
| `up`, `down` | bytes written and not read, each way |
| `link`, `cache` | the link file and the snapshot cache |
| `running`, `settings`, `version`, `shown`, `zone`, `stopping`, `dialled` | the daemon process: the link settings and `config_version` of `LinkClient`, what the supervisor has applied, the timezone it booted with, the stop event, its socket |

| Actions | In the code |
|---|---|
| `CreateDaemon`, `RotateKey`, `DeleteDaemon`, `SaveEdit`, `ResumePushing` | the routes; "push configuration now" is a `SaveEdit` of one rack, as in the code, where it mints a version too |
| `HelloWithKey`, `HelloWithToken`, `GreetPaired`, `HelloRefused`, `HandleMessage`, `CloseSuperseded`, `SeeDisconnect` | `_hello`, `_authenticate`, `claim_token`, `_serve`, `_handle` |
| `SendFails`, `LoseSocket`, `LoseLink`, `RestartServer`, `Crash`, `Signal` | faults: a send that fails or times out, a lost socket seen by either end first, a crash of either process, SIGTERM |
| `Connect` | `ors-daemon connect`, a second process that writes both files |
| `Boot`, `TickOnce`, `LinkClosed`, `Exit` | `_boot`, `LinkClient.tick_once`, the ends of a session and of a process |
| `SkipPush`, `IgnorePush`, `RefusePush`, `ReclockPush`, `ApplyPush` | the exits of `LinkClient._config`, with the handler `_snapshot_handler` makes |
| `Paired` | `LinkClient._paired`, with each of its writes failing or not |

A configuration's content is abstracted to the row and version it is of. Four
constant sets say which versions are special: `Unusable` (the rack cannot
resolve it), `Unservable` (the server cannot build it), `Abroad` (another
timezone than UTC), `Unclocked` (a timezone the rack's host does not have). A
credential is the row it was minted for and a serial number; the code only
compares them, and only properties read the row. A handler whose reader had
already finished when its socket was superseded may still handle that message;
the model lets it handle any number before it closes, which allows more than the
code does and so makes the safety properties stronger.

Left out of this module: frames and questions (modules of their own), logs,
heartbeats and commands, malformed messages and the protocol number, the
timeout of a hello, and a daemon started with a configuration file instead of a
snapshot (it boots with no version, as one with an empty cache does).

### Supervisor, against the code

The main thread runs `run_forever`; the link thread runs `apply`, `probe` and,
for a push of another timezone, `stop`. A signal makes the main thread run
`stop` in the middle of anything, its own earlier `stop` included. So each
thread has a stack of calls (`stack`), a signal pushes one, and a call that
returns pops one. `_shutdown_lock` is re-entrant: `Lock(t)` asks that no other
thread is inside a locked call, and says nothing of the thread's own. A step
ends where the other thread, a worker or a signal handler could see the
difference: between opening a panel and the next, between a worker's
`Thread.start` and the assignment to its slot, between `_diff` and `self._slots
= kept`, between a panel's claim and its close.

| State | In the code |
|---|---|
| `stack` | the calls of the two threads with their locals |
| `stopped` | `_stopped`, `_stop_event` and the closed snapshot store, which `stop` sets together |
| `config` | `_config` and `_screens`; `issue` says of which push they are, for the identities `apply` sorts by |
| `slots`, `unavailable` | `_slots`, `_unavailable` |
| `screen`, `worker`, `restarts`, `shut`, `stop` | the fields of a `_Slot`; `issue` is the identity of its screen, `lease` numbers its `_Panel`s, `closes` counts its backend's closes |
| `live` | the `_Panel`s whose `live` is true |
| `doing`, `on`, `by`, `held` | each worker thread, the slot and `_Panel` it draws by, who is paused |

| Actions | In the code |
|---|---|
| `BeginTick`, `Show`, `Shown`, `Leave` | `ScreenWorker.run` and `tick`; `Show` is `_Panel.show` reading `live`, `Shown` the backend's return |
| `BeginOpen`, `SkipOpen`, `OpenFails`, `OpenPanel` | `_open_panel`, `_skip_open` |
| `StartWorker`, `RecordWorker`, `StartFails`, `DropSlot` | `_start_worker` and its failure |
| `StartReturns`, `Lap`, `Exit` | `start`, `run_forever` |
| `EnterTick`, `Replace`, `RecordReplacement`, `ReplaceFails`, `TickReturns` | `_tick_locked`, `_check`, `_replace` |
| `Push`, `EnterApply`, `JoinRetired`, `Pause`, `PauseFails`, `BlankRetired`, `OpensDone`, `ApplyReturns` | `_snapshot_handler`, `apply`, `_diff`, `_retire`, `_off_the_bus` |
| `Probe`, `EnterProbe`, `ProbePaused`, `ProbeLights`, `ProbeReturns` | `probe` |
| `Reclock`, `Signal`, `EnterStop`, `JoinAll`, `ClaimPanel`, `ClosePanel`, `StopReturns` | `stop`, and who calls it |

A screen is a device (bus and chip select) and an edition, which stands for
everything else `_unchanged` compares. Timeouts are choices: a join gives up on
a worker inside a tick, a pause fails on one, and a heartbeat is stale when its
worker is inside a tick. A healthy worker can be told from a wedged one by time
only, so the model lets the code take any worker in a tick for a wedged one. When
a screen fails after its last restart the code writes one log line; the model
stops at `MaxRestarts`. A slot whose panel is closed, and a worker that has left, give
their ids to new ones.

Left out: integrations (`Sources`, `Tunnels`), the status file,
`identify` (paints and changes nothing else), and faults of `sleep` and `close`,
which the code logs.

### Sources, against the code

| State | In the code |
|---|---|
| `health`, `version`, `closed` | `SnapshotStore`; a health is whether the source ever succeeded and its failures since |
| `running`, `named`, `stop`, `poller` | `Supervisor._sources`, and of each `_Source` its name, stop event and thread |
| `reaperUp`, `queue`, `reaping` | `Supervisor._reaper`, its queue and its thread |
| `abandoned`, `unreaped` | the sources whose poller the reaper stopped waiting for, and those it was never handed |
| `worker`, `retired`, `read`, `seen`, `glass` | each `ScreenWorker`: its thread, its stop event, the `Snapshot` it drew from, `_seen_version`, `_selected_scene` |
| `waking` | `_retire` between setting the stop events and `SnapshotStore.wake` |

| Actions | In the code |
|---|---|
| `PollBegins`, `Publish`, `FailPoll`, `PollerEnds` | `Poller.run`, `poll_once`, `SnapshotStore.put` and `fail` |
| `AddSource`, `MoveSource`, `RemoveSource`, `RetireScreen`, `RetireOrphans`, `StartScreen` | `apply`: `_reconfigure_integrations`, `_start_integration`, `_retire_source`, `_retire` |
| `HandOver`, `NoReaper` (in `Retire`) | `_retire_source` with a reaper that runs or starts, and with one whose thread will not start |
| `Wake`, `Stop` | the notification of a retirement; `stop` with `SnapshotStore.close` |
| `Reap`, `Reaped`, `ReapGivesUp` | `_Reaper.run` and `_reap` |
| `ReadStore`, `Draw`, `Park`, `Floor`, `Leave` | `ScreenWorker.tick`, `_should_render`, `_show`, `_wait`, `run` |

`put` bumps the version and notifies in one step, under the condition; `fail`
does neither. `Event.set` does not take the condition, so `_retire`'s events and
its `wake` are two steps. A source that is retired while the reaper's thread will
not start is left to leave by itself: its poller is joined by nobody and its entry
stays, until some retirement finds the reaper. Left out: the fault latch and the night (a worker that
is faulted or asleep waits on its own event, which `_retire` sets), and a source
whose tunnel cannot be built, which is not in `_sources`.

### Tunnels, against the code

`thread` is where each tunnel's loop is, `process` its `_process`, `hand` a
process that somebody is ending or a loop has just launched and not yet stored.
The three threads that may end a process are the tunnel's own, the reaper and
the one in `stop`; `Take` is the swap at the head of `_kill`, after which one of
them has it. `Launch` and `Launched` are the two halves of `_start`'s
assignment: in between, nobody else can see the process. A process started
while another holds the port exits, as kubectl does, so a probe of a tunnel may
be answered by the other's process: `ProbeAnswers` asks only that somebody
listens. kubectl itself is external: it listens or exits before a probe unless
that is a fault, and a process that is signalled dies. A daemon that exits with
its shutdown budget spent, threads and all, is not modelled.

### Claims, against the code

The server's routes have no await, so a request is one step. `claim`, `denied`
and `daemon` are the tables, `attempts` the `Limiter` of filings. The rack's loop
(`phase`) has one request under way at a time; a filing is a message of its own
(`posts`), because it may be handled after its rack gave it up, while a poll and
its answer are one step or a lost one. `Expire` is `_expire`, which every
operation on claims runs first. An id, a key pair or a key is any that nothing
mentions. Times are ages, advanced by `Tick`, which stop at the limit they are
compared with. `Sealed` keeps what a blob is sealed to; whether it opens is
whether that is the rack's last key pair. Left out: the limiter of polls, other
than as a poll that got no answer, and a rack that finds two servers or none.

### Frames, against the code

`screens`, `hot` and `owed` are a tab's `_Watcher`: what it watches and of which
rack, the racks inside their window, and the racks owed a request. `conn` is the
hub's table, `"dead"` when the rack's end is gone and the server does not know;
`greeting` is `_hello` while it awaits the send of its push, with the screens
the session was given. `down` is what is on its way to a rack. `enabled`,
`pending` and `taken` are `FrameStream`'s `_watched` and `_pending`, and what
`FramePump` took from it. `believes` is what the page shows as online. `refused`
says that the rack nacked the last configuration it read, and `unserved` that the
last edit of its row was saved and pushed to nobody, because nothing could be
built of it; `Behind` is either.

| Actions | In the code |
|---|---|
| `Open`, `Subscribe`, `Unsubscribe`, `WindowPasses`, `Flush`, `Close`, `Tell`, `Leave`, `Write` | `ui_socket` with its three tasks, `_changed`, `_flush`, `_let_go`, `_tell_the_racks` |
| `AddScreen`, `RemoveScreen` with `PushScreens` | the routes of screens, with the push they cause, or none if `changes._assemble` cannot build it |
| `Connect`, `Greet`, `ResumeAfterPush`, `LoseLink`, `DropConnection` | a rack's session, `_hello`, `_resume_frames`, `Hub.drop` |
| `Receive` with `Apply`, `Refuse` | `LinkClient._receive`: a request of frames; a configuration that `Supervisor.apply` takes, or that `_config` nacks |
| `Draw`, `Take`, `SendFrame` | `FrameStream.offer`, `take`, `encode`; `Hub.relay_frame` |

A send to a rack is awaited, but what it sends is read and written before the
first await, so it is one step. A hello whose row's configuration cannot be built
has its socket closed: to the rack that is `LoseLink`. Left out: the cap on the
screens one request names, frame rates, the page's own reconnects, which are tabs
that close and open, a rack that restarts or stops (and with it the push of another
timezone and the one that is read while stopping, which are `RackLink`'s), and what
the panels do: one that does not open, or an `apply` that raises halfway, is
`Supervisor`'s.

### Requests and Asking, against the code

`Asking` has three variables: the question of each handler, its outcome, and how
many were asked. `Requests` has the hub's `_connections`, `_pending` and the set
behind `one_probe_at_a_time`; each socket with what is on its way both ways; the
handlers of daemon sockets; and each rack's link thread, with the message it has
in hand and the threads that hold or wait out a send. `INSTANCE Asking WITH`
reads the question and outcome off the handler and its future; `Asked!Spec`,
fairness included, is the run's property `Implements`.

| Actions | In the code |
|---|---|
| `Ask`, `SendReturns`, `SendFails`, `Answered`, `GiveUp` | the routes, `one_probe_at_a_time`, `Hub.request` |
| `Register`, `Read`, `HandlerEnds`, `HelloLost` | `_hello`, `_serve`, `_handle`, `Hub.drop`, `_abandon_waits` |
| `Dial`, `Receive`, `Handle`, `BeatDue`, `LinkSend`, `LinkSent`, `RecvFails`, `End` | `tick_once`, `_receive`, `_answer`, `_beat`, `_send`, `_settle` |
| `PumpSend`, `PumpSent`, `Abort` | `LinkClient.send` on the pump's thread, `_wedged` on the watchdog's |
| `Lose`, `Stall` | faults: a lost connection, a peer that takes no more bytes |

A handler that gives up may find its answer already there (`GiveUp` in any
phase), which covers a timeout, a cancelled browser and a stopping server. The
rack's two handlers answer whatever happens, so `Handle` has one outcome.

## Runs

| Run | Expected | Question |
|---|---|---|
| `RackLink_one` | pass | one row, one rack, two sockets, two faults: does the rack converge, and is what the interface believes of it true? |
| `RackLink_two` | pass | one rack moved between two rows whose versions collide: is a claimed version ever believed of the wrong row? |
| `RackLink_order` | violation | do concurrent edits push in the order they were saved? |
| `RackLink_reuse` | violation | is the version confirmed for a row confirmed by a rack of that row? |
| `Supervisor_watch` | pass | with a watchdog, a push that drops a screen, probes and signals: is a panel drawn on by one worker, and dark in the end? |
| `Supervisor_push` | pass | with pushes, refused panels and threads, wedged workers, probes and a stop from either thread: is the rack of one configuration, are devices opened safely, does it stop? |
| `Supervisor_early` | violation | can a push during `start` cost a panel its shutdown? |
| `Claims` | pass | do two racks of one name or of two, behind one address and one place in the queue, both pair, with keys they can open and rows nobody takes? |
| `Frames` | pass | whatever tabs, edits, refused configurations and lost links do, does a rack end up streaming what is watched of what it shows, and does a tab know who is online? |
| `Requests` | pass | does every question get its own answer or none, is a rack probed for one handler at a time, does the link come back from a stalled send? |
| `Sources` | pass | is a reading ever slept through, does a removed source stay removed, does what was told to leave leave? |
| `Tunnels` | pass | is a kubectl ever left behind, does the configured tunnel get the port? |

Properties of the passing runs of `RackLink`:

- `TypeOK`: the one type invariant.
- `AckTruth`: once a rack's acks are read, the version shown as applied for its
  row is the version it runs, through reconnects, restarts, re-pairings and
  late acks. `AckInv` is the inductive invariant it is proved from, checked
  here as well.
- `InStep`: a row whose confirmed version is its version has a rack that shows
  the row's configuration.
- `NothingLost`: an online rack with nothing on its way shows its row's
  configuration, unless that one cannot be used.
- `OneSocketPerRow`: a handler not told to close is the one the hub routes to.
- `ClaimIsOwn`: a claimed version is of the row the rack's key is for. The
  server compares bare numbers, so the whole protocol rests on it.
- `Converges` (liveness): when edits and faults end, a rack with a live key
  shows its row's configuration for good.

Of `Supervisor`:

- `NoneLit`: when the process ends no panel is lit, whatever was being opened,
  replaced, applied or probed when the signals came.
- `ShutOnce`: no panel is closed twice.
- `OneDrawer`: of all the workers the watchdog has given a slot, one at most can
  put another frame on the panel.
- `Coherent`: between calls, each slot shows a screen of the claimed
  configuration and has a worker, each screen is shown once or reported
  unavailable, and nobody is held.
- `OneOpenPerDevice`: no device is opened while a panel on it is open.
- `OpenGuarded`: while a device is opened, no worker a slot knows of is writing
  on its bus.
- `Stops` (liveness): a rack told to stop ends, though a worker never returns
  from its write.

Of `Claims`:

- `Openable`: a grant that a rack polls for is sealed to the key pair it still
  holds, however often it filed before.
- `PairedIsKnown`: the key a rack paired with opens a row until an admin deletes
  that row, though the rack has not dialled in and looks like one that never
  collected its key.
- `QueueSound`: the queue keeps to its limit and to one claim per rack, and a
  denied rack has none, whatever of it was still on its way.
- `Joins` (liveness): everybody pairs, unless another row has the name.

The first two except a rack of which a filing was handled after it had given that
filing up (`straggled`), and no other: the claim is then sealed to a key pair that
is gone, or, if the rack has paired, is a new one whose approval can take its row.
See below.

Of `Frames`:

- `StreamsWatched`: a rack with nothing on its way streams the screens of its own
  that somebody watches, and no other. One that refused its last configuration, or
  was not sent it, still streams those of them that it shows, and nothing that
  nobody watches.
- `Informed`: a tab that reads all that waits for it knows who is online, unless
  pictures pushed the only list out of its queue.
- `Settles` (liveness): every rack ends up linked, told, and streaming what is
  watched in the sense of `StreamsWatched`.

Of `Requests`:

- `Implements`: it implements `Asking`: one outcome per question, from the rack
  that was asked, to the handler that asked it; one probe of a rack at a time;
  and every handler returns.
- `GuardedWhileProbed`: a rack is marked as probed exactly while a handler probes
  it, and a wait is in the table exactly while its handler waits.
- `ToldAtOnce`: no handler waits on a rack the hub knows to be gone.
- `SurvivesOldCleanUp`: the clean-up of a replaced connection ends no question
  asked over the one that replaced it.
- `Recovers` (liveness): no handler waits for ever, no rack stays marked, and
  each rack is linked by the connection the hub has for it.

Of `Sources`:

- `NothingUnseen`: a worker parked in the store has drawn from what the store
  holds and was not told to leave, or a notification is on its way.
- `StaysForgotten` (action property): a name the store forgot comes back by
  being configured, or by a poller that the reaper gave up on, has still to reap, or
  was never handed because its thread would not start. A failed start excuses that
  poller only: the reaper may start at a later retirement, forget the name, and be
  held to every other source of it.
- `Settles` (liveness): a screen ends up showing what the health of its sources
  selects, also when the last change was a failure, which wakes nobody.
- `RetiredLeave` (liveness): pollers, workers and the reaper's work end.

Of `Tunnels`:

- `NoOrphan`: a process that runs was signalled, or a thread that will signal it
  has it.
- `OneForward`: a tunnel launches nothing beside a process of its own that runs.
- `Settles` (liveness): a tunnel told to leave leaves with its processes, and the
  configured one gets the port.

### Bounds

`RackLink_one`: two versions after 0, three credentials (a pairing, its key, a
rotation), two sockets (so that one can be superseded or lost while the other
is greeted), two faults of any kind (so that one can hit the recovery from
another), version 1 unusable and version 2 in another timezone (so that the rack
passes through a refusal and a restart). `RackLink_two`: two rows of one rack,
four credentials (a token and a key for each), versions up to 2 for both, so
that the same number names a configuration of each row, one fault (which can be a
failed write of the link file), version 0 unservable and version 2 unresolvable. A third socket adds only a second
superseded one, whose steps touch nothing another one's do not. The
violation runs are each as small as their counterexample allows. `CHECK_DEADLOCK
FALSE` because the bounds on versions, credentials and faults let every instance
come to rest, and a rack with no pairing waits for a person.

`Supervisor_*`: two devices on one bus, so that each is in the way of the other.
One push and one signal: `stop` is entered up to three times all the same (the
signal's, `run_forever`'s, `Reclock`'s), on top of every other call. Three
slots, so that a changed screen can be opened while its retired worker keeps the
old slot in use (two in `Supervisor_watch`, where nothing is changed); three
workers, so that one can be retired or replaced while two draw. When no slot
is free an open can only fail, and when no worker is free the watchdog replaces
nobody; with one push and these numbers a new panel always finds a worker. One restart in `Supervisor_watch`, none in `Supervisor_push`:
together they are too many states, so a restart meets a push that drops a
screen and not one that changes it.

`Claims`: two racks behind one address, two names with both ways to give them, a
queue of one, two attempts in a window: each limit is met by what the two racks
do unprompted. A lifetime of one tick and a suppression of two let a claim, a
grant and a denial expire in any order around a filing. One trouble (a lost
request, a crash, a denial, a row added or deleted); three claim ids and key
pairs, so that a rack can hold one while another of its own is in the table, and
four keys.

`Frames`: one rack, two tabs, one screen configured and one that may be added,
four clicks and one lost socket, queues of two: a tab can watch, be owed a
request and close while another watches the same screen, and a screen can be
removed or added between, and each of those edits can be taken, refused or not
be sent.

`Requests`: one rack, two handlers, two questions, three connections and one
fault, so that the recovery from a stalled or lost connection can race the
handlers of the two before it. The safety properties hold of four connections
and two faults as well (2.3 million states, not a run).

`Sources`: one name and one screen, two edits on top of the boot configuration, so
that a name can be removed and added while its first poller is still polling;
two readings, two failures until stale, one refused frame. The properties of one
name and of one worker speak of nothing else; the choice between three scenes
needs no second source. With three edits and one reading the safety properties
hold as well.

`Tunnels`: two tunnels, since a move retires one and starts the next and a third
only repeats that; three processes in use at once; two faults, so that a tunnel
can be relaunched after two failed probes in the middle of a move.

Their runs have `CHECK_DEADLOCK FALSE`: bounded edits, clicks and readings let
each come to rest, and a stopped rack does.

Four choices restrict the passing runs to what the code gets right. `EarlyPush`
is FALSE: the link calls after `start` has returned. `MayRefuse` is `{"apply",
"tick"}`: threads are refused there and not in `start`. `AddInGreeting` is
FALSE: no screen is added while its rack is being greeted. `ReuseIds` is FALSE:
no new screen gets the id of a removed one (`spent`, a history variable, holds
those). `Supervisor_early` and the
section on disagreements show what happens otherwise.

`DiskFaults` leaves `"unlink"` out of every run: `link.py:1016-1025` documents
that a cache that cannot be removed at a pairing survives it, and that a rack
restarted then claims the old row's version under the new key. The action has
the fault, so turning it on shows that gap; nothing is asserted about it, and
`ClaimInvariant` has it as its hypothesis.

### Fairness

Weak fairness, for each step the programs take by themselves: the handlers and
edits are tasks of a loop that runs every ready task; the rack's link thread
loops until stopped; a stopping process leaves; systemd restarts it
(`Restart=always` in the unit the installer writes). The steps of people
(`Connect`, the routes) and the faults have no fairness: `Converges` holds
because faults are finite in number, not because they are rare.

For `Supervisor`: weak fairness of each thread's next step, since both loops
run until stopped, and of a worker that reads its lease or has been told to
leave. None for `Shown`: a write may hang for ever, and `Stops` holds although
it does, because the joins give up. None for `BeginTick`, signals, pushes and
probes. The lock is taken with weak fairness, which is enough here because the
only thread that competes for it more than once, the link, starts no call once
`stopped` is set.

For `Claims`: weak fairness of each rack's loop, the requests it sent, and time.
Two strong ones: a poll is due every few seconds and a grant lives for half an
hour, so time does not run past every grant before it is polled; and an admin
who is shown a claim again and again approves it once. Only `Joins` rests on the
second, which is about a person.

For `Frames`: weak fairness of the tasks of a tab, a rack's link thread and its
handler, and of the discovery of a dead socket, which the keepalive of uvicorn
does. None for drawing, for people, or for a page's reading. `Greet` answers a hello
with a configuration or frames, so `Settles` takes it that a row's configuration
can be built in the end; a rack may refuse it for ever.

For `Requests`: weak fairness of the server's tasks, of the pump's way out of a
send and of the watchdog. Strong fairness of a rack's link thread: the pump takes
the same lock over and over, and leaves it free between two frames for longer
than a thread takes to be scheduled.

For `Sources` and `Tunnels`: weak fairness of every thread and every process; a
poll ends (its HTTP call has a timeout), the floor of a worker's wait passes.
None for edits, stops and failures.

### What the violations show

- `RackLink_order`: the docstring of `changes.change` says that awaiting the
  push in the handler keeps two edits from pushing out of order. It does for one
  rack. For an edit of several, the handler suspended in the send to the first
  rack pushes its older snapshot to the second after a later edit has pushed a
  newer one. The rack stays on the older one until the next edit or reconnect.
- `RackLink_reuse`: a deleted row's connection stays in the hub, and SQLite
  gives its id to the next row created.
- `Supervisor_early`: `_run` starts the link before `start`, and `start` takes no
  lock. A panel that `start` records between `_diff` and `self._slots = kept` is
  in neither list: no `stop` finds it.

### Disagreements without a run

Found in the same way, and reproducible by putting the named definition in a
`.cfg`; the modules keep the definitions.

- `UnusableIsNeverApplied` (`RackLink`): a push of another timezone is cached and
  acked without being resolved (`__main__.py:1085`), where the design document
  says a snapshot that fails validation is nacked. After the restart the rack
  boots with no screens.
- `OpensAlone` (`Supervisor`): `_off_the_bus` holds the kept workers and says the
  retired ones cannot reach the wire (`supervisor.py:1474-1477`). One that was
  past the lease's check is on it, as `_Panel`'s docstring says.
- `ShutOnce` with `MayRefuse` including `"start"` (`Supervisor`): `_start_worker`
  claims a panel it could not start a worker for without asking whether a
  signal's `stop` claimed it first (`supervisor.py:1942`), so it is closed twice.
- `OneDrawer` with `EarlyPush` (`Supervisor`): `apply` starts a worker on each slot
  that has none, and `start` on each slot it has listed (`supervisor.py:855-858`).
  A push that lands between the two starts a second worker on a panel that has one,
  by the same lease, and the slot knows of one of them only.
- `OpenGuarded`, `OneOpenPerDevice` and `Coherent` with `EarlyPush` (`Supervisor`):
  `start` says that "nothing is drawn until every panel is initialised"
  (`supervisor.py:849-850`). A push applied while its first device is in its init
  starts its own worker on the same bus; one that takes its diff then finds no slot
  for that screen and opens its device again, though `start` has lit it meanwhile; and
  a screen that the push drops then is recorded by `start` once `apply` is done with
  the slots, and stays lit and drawn on.
- `Answerable` (`Requests`): the docstring of `Hub._abandon_waits` says that
  questions in flight when a rack reconnects are still answerable, since "the
  daemon replies down whatever socket it has now". `LinkClient._answer` sends on
  the connection the question came on. A question written to the connection that
  was replaced is answered by nobody, and its handler sits out its timeout.
- `Kept` (`Frames`): the comment on `WATCHER_QUEUE` (`ws_ui.py:58-61`) says its
  size is not a bound on correctness. A page that stops reading while pictures
  arrive loses the one list that said a rack had gone, and shows it online until
  the next rack comes or goes.
- `StreamsWatched` with `AddInGreeting` (`Frames`): `_resume_frames` asks for the
  screens of `session.owned`, read before the push that is awaited. A screen added
  and watched during that send is not asked for, and its picture stays frozen
  until somebody subscribes again.
- `StreamsWatched` with `ReuseIds` (`Frames`; the history told here takes five clicks): `screen.id` is
  reused (`db.py:89`), as `daemon.id` is. A tab holds a subscription to a screen that
  is removed; its rack, pushed the new configuration, forgets the id. A new
  screen gets that id, and the tab's request for it is taken for one it already
  holds (`ws_ui.py:283`), so nothing asks the rack for it. Its picture stays frozen
  until another tab subscribes.
- `KnownWhileRunning` (`Sources`): the docstring of `_Reaper.retire` says why a
  name that is configured again must keep its entry (`supervisor.py:659-667`). The
  choice is made when the source is retired: a name removed by one push and added
  by the next, before the reaper got to it, loses the entry the new poller has
  just registered, until it polls.
- `Openable` and `PairedIsKnown` of a rack in `straggled` (`Claims`): a filing can be
  handled after its rack gave it up and filed again. If the rack polls its next
  claim by then, that claim's public key is replaced by one whose private half is
  gone, and the grant cannot be opened; the rack starts over. If the rack has
  collected its key, the late filing is a new claim in its name, and approving
  it deletes the collected row, since its rack has not dialled in; the comment in
  `claims.approve` speaks of an earlier grant "that was never collected, and from
  nothing else".

Two smaller ones. `link.py:850-855` says no production path
pushes a version the daemon already runs; `SkipPush` fires in
`RackLink_two`, since a hello and an edit can both push the same version. And
the design document and the comment at `db.py:45-48` speak of a rotation that
disconnects the rack, while `api/daemons.py:407-413` says why it does not; the
model follows the code.

## Proofs

Assumptions, each named in the module it is about: `None` (and `Daemon` and
`Sealed` in `Claims`) is none of the other values, of the credentials and of the
snapshots; rows are positive naturals;
bounds and limits are naturals, and the size of a tab's queue is not zero;
`DiskFaults` is a set of writes; in `Sources` the names are finite and no more
than `MaxSources`, since each is a source the rack boots with. Nothing else is
finite and no bound on what is explored is used: the theorems hold for any
number of rows, racks, sockets, edits, handlers, processes, panels, tabs and faults.
A few theorems have hypotheses on top, which are named there.

Of `RackLink`:

- `TypeCorrect`: `Spec => []TypeOK`. `TypeOK` is not inductive alone: the second
  half of a pairing's greeting reads the hello at the head of its socket's
  queue, and `TypeOK` allows that queue to be empty. `HelloKept` adds that it is
  not, and the two are proved together.
- `OneSocket`: `Spec => []OneSocketPerRow`. It is inductive given `SocketInv`,
  which says that the hub routes a row only to a socket served for that row
  (`Routed`), that a socket the server has left carries nothing up
  (`FreeIsClean`), and that a socket has one rack (`Exclusive`). Without
  `Routed`, a handler on its way out could take another's connection along.
- `AckTruthful`: `Spec => []AckTruth`, from `AckInv` (`AckInvariant`), which has
  three parts.
  `SocketInv` again. `RackInv`: the last ack under way on a rack's socket is of
  the version it runs, and once none is under way the hub's confirmed version
  is that one. A pairing changes the running version (to none) without an ack,
  so `RackInv` also says that a rack without a key has confirmed nothing; and
  that holds because no token is ever some row's key (`TokensAreNoKeys`), so no
  rack is greeted as a paired one before it is. A late ack of a superseded
  socket does no harm because `RecordAck` asks the hub first.

Of `RackLink` still, in `RackLinkClaimProofs`. All three are about numbers that
the server compares without knowing whose they are, so the proofs follow whose
everything is:

- `OwnRowInvariant`: `Spec => [](BornInv /\ OwnInv)`, without any hypothesis.
  `BornInv` says that each credential, snapshot and push, wherever it is
  (`Minted`, `Sent`, `Kept`), was made for a row that had its id by then.
  `OwnInv` says that what is on its way to a rack is of the row of the credential
  it holds: its hello waits unchanged until it is greeted, the session it is given
  is of that row, and the hub routes only that row to it.
- `ClaimInvariant`: `Spec => []ClaimInv`, if the removal of a cache at a pairing
  cannot fail. `Claims` is the property itself up to reused ids; to survive a
  restart it needs that a link file with a key is the process's own, and that a
  cache beside a key is of that key's row. A pairing that loses the write of the
  link file leaves the old one without a cache, which is why the code removes the
  cache first.
- `ClaimOwn` (`ClaimIsOwn`) and `InStepShown` (`InStep`), under `MaxBorn <= 1` too:
  a row that has a deleted row's id has its version numbers as well, and a rack of
  the deleted row can claim them (`RackLink_reuse`). With reused ids both still
  hold of the id and the version, which is what `ClaimInvariant` says. `InStep`
  follows from `ClaimInv` and `AckInv`: what is confirmed is what runs, and what
  runs is the row's.
- `NoEditLost` (`NothingLost`), if also no two handlers of edits overlap, since two
  that do may send their pushes in the other order (`RackLink_order`). `DeliverInv`
  says that the last configuration on its way to an online rack is its row's
  current one, and that the rack shows that one if there is none, unless the
  handler of an edit has still to push to the row (`Pending`). A greeting that
  pushes nothing keeps this only because of `ClaimInv`, and a push that is skipped
  because its number is the running one too. `DeliverInv` also says that an online
  rack without a key has a configuration on its way, which is not the first thing it
  will read: a pairing is (`UnpairedRack`).

These hypotheses are what the passing runs of `RackLink` are given, and each of
the runs and comments named shows the code without it.

Of `Requests`, in `RequestsProofs`:

- `TypeCorrect`: `Spec => []TypeOK`, from `TypeInv`. The hub reads a reply's
  fields off whatever a registered handler finds on its wire, so `HelloFirst`
  says that a hello is the first message of its connection and that no handler
  is registered before it is read. That needs `Held` (what the link thread has
  in hand is a question while it handles one, something to send while it sends)
  and `Wired` (a connection is the rack's that dialled it, so no two threads
  append to one). `Tabled`, that a wait is in the table just while its handler
  waits, is kept along with them.
- `Guarded`: `Spec => []GuardedWhileProbed`, from `ProbeGuard`: at most one
  handler probes a rack, and the rack is in `probing` just while one does. Each
  step asks, takes one handler out, or leaves every wait about what it was
  (`WaitSteps`), so the guard has three cases and not one per action.
- `Told` and `Survives`: `Spec => []ToldAtOnce` and `Spec =>
  []SurvivesOldCleanUp`, from `HubInv`, which says of each wait what a drop has
  to know of it (`Sound`): it has an outcome unless its rack is there, and the
  connection its question left over is either the rack's or closed. Without the
  last part a drop of the rack's connection could abandon a wait whose own
  connection is neither, and neither theorem would be inductive.

- `Refines`: `Spec => Asked!Init /\ [][Asked!Next]_(Asked!vars)`, the safety part
  of `Implements`. `Asking` delivers an answer only to the handler that asked and
  only from the rack asked, so `RefInv` follows each question over the wires:
  no two have one number and each went out on a connection of its rack
  (`Numbered`), what a wire or a thread holds is of a question that was asked and
  a reply goes up on a connection of the rack that made it (`Carried`), and a
  handler's reply is the one to its question (`OwnReply`). A reply of an older
  connection is dropped by its number and not by its connection, so without
  `Numbered` it could reach the wait of another question.

Of `Tunnels`, in `TunnelsProofs`: `TypeCorrect`, `NothingLeftBehind` (`NoOrphan`)
and `ForwardsAlone` (`OneForward`), from `TunnelInv`. `NoOrphan` says who holds a
process; to be kept it needs that no holder's hand or `_process` is ever written
over (`Holders`), that a tunnel is given to the reaper or to `stop` only once it
was told to leave (`ToldFirst`), and that one that was not has whatever it
launched (`Owned`).

Of `Sources`, in `SourcesProofs`:

- `TypeCorrect` and `NothingSleptThrough` (`NothingUnseen`). The second needs only
  that a worker is never ahead of the store (`Versions`).
- `ForgottenForGood` (`StaysForgotten`), an action property. A name comes back by
  a poller that publishes after it was forgotten; so `SourceInv` says where the
  source of every poller that is not out is (`Accounted`): it runs, the reaper has
  it or has given it up, or was never handed it. The last two are what the
  property excepts, and a reaper that is not up has nothing (`Idle`), so it forgets
  nothing either. That a name waits for its own removal holds because the
  queue has it behind every retirement of that name (`Succession`), and each
  source is handed over once (`HandedOnce`). `Numbered`, that sources are numbered
  without a gap, is what bounds the queue.

Of `Claims`, in `ClaimsProofs`: `TypeCorrect`, `QueueIsSound` (`QueueSound`),
`GrantOpens` (`Openable`) and `PairedStaysKnown` (`PairedIsKnown`), from
`ClaimsInv`. `Openable` is about a grant that is polled for, and whether it opens
was decided when the claim was filed; so `Filed` says that the id a rack polls
with is of a claim of its own as long as there is one, and `Fresh` that a pending
claim of a rack has the key pair it holds, is its only one, and that a rack that
paired has none. The last part is what keeps an approval from reclaiming a row
that was collected: `Rows` says that there is a row for the key granted to a rack
that polls, and for the key of a rack that paired. Like the properties, `Fresh`
and `Rows` except the racks with a straggling filing of their own: what an approval
takes back is a row of the rack approved, so no other rack's matters. `Finite` is there because
`QueueSound` counts the queue.

Of `Frames`, in `FramesProofs`, from `FramesInv`:

- `TypeCorrect`, with the bound of a tab's queue.
- `PagesInformed` (`Informed`), which is inductive given that only open tabs have
  anything in their queue.
- `QuietHasItsScreens`: a quiet rack that is not `Behind` shows just its own
  screens. `Arrives` says it of what the rack will have: the last configuration on
  its way is the table, unless an edit since was not sent. `Adopted` takes it from
  there: a rack with none on its way that did not refuse the last one shows it.
  A hello is answered without a push only if neither can be the case, which is what
  the rack's claimed version is for.
- `StreamsWhatIsWatched` (`StreamsWatched`), under `~AddInGreeting` and
  `~ReuseIds`: the code has both, and the section on disagreements says what each
  does. `Told` is `Arrives` for requests: a rack that no tab owes one will have
  the watched screens enabled, or nothing, with the resumed request still to
  come. A configuration on its way may disable a screen, so `Pushed` says that a
  screen a rack still owns is dropped by none of them; a screen that is added
  must be watched by nobody and be in nothing on its way, so `Watches` and `Known`
  say that tabs and racks speak of screens that are, or were, of that rack; and
  the request resumed after a push names the screens read before it, which
  `Greeted` says are still all of them. A rack that is `Behind` shows screens that
  nothing on its way speaks of, so `Watchful` says apart that no request leaves
  enabled what nobody watches as a screen of that rack, and `GreetsOwn` that the
  request resumed after a greeting cannot. The proof tells eight things a step can
  be to one rack (`RackCase`) and not one per action.

Of `Supervisor`, in `SupervisorProofs`. Each thread's calls are numbered from the
outermost, since a call keeps that number whatever a signal puts on top of it, and
three facts about them carry all the rest (`Called`): what each stack can look
like (`MainShape`, `LinkShape`: one method under any depth of `stop`), what each
call has in hand where it is (`FrameOK`), and what `_shutdown_lock` excludes
(`Locks`).

- `TypeCorrect` (`TypeOK`). A call's locals are used when it goes on, long after
  they were read: `StillOK` says that nothing done meanwhile can spoil them, since
  no slot that a call mentions is given to another panel.
- `ShutOnceHolds` (`ShutOnce`), under `"start" \notin MayRefuse`; the section on
  disagreements says what a refusal in `start` does. `Panels` says of each panel
  who may close it: the one `stop` that claimed it, at whatever depth of either
  stack, or the link's method that has it in hand outside `_slots` (`InHand`), and
  that nobody may if it was closed. `LinkHas` says that what `apply` retires is no
  longer in `_slots` when it is blanked, so no `stop` can claim it.
- `NoneLeftLit` (`NoneLit`), under `~EarlyPush`, for any refusals: a refused `start`
  closes a panel that a `stop` may have claimed too, which is once too often and
  not once too few, so `PanelOK` counts the closes only while that cannot happen,
  and one of the two conditions is enough to keep `Panels`. The last part of
  `PanelOK` says that whoever must close a lit panel still can: it is in `_slots`,
  claimed, or in hand. Then `Dark` is kept: once the last `stop` has returned every
  panel is closed, since it walked the slots under the lock and nothing is opened
  once it has. `Supervisor_early` is the counterexample without `~EarlyPush`.
- `OneDrawerHolds` (`OneDrawer`), under `~EarlyPush`, for any refusals. `Drawers`
  says that a busy worker's lease is live only if it is the last given out for its
  slot (`Gen`, which counts the one a replacement draws by before the slot knows of
  it), that no two workers have one lease, and that a slot somebody draws on has a
  worker or is about to be told of one (`Starting`), so none is started twice.

Three more are about what opens panels, for any refusals. They too need `~EarlyPush`:
then one call at a time opens anything, `start` or what the link is in, and `Job`
names it. Each invariant says where `Job` is and what that leaves true, and a step
that is not `Job`'s only has to leave it alone.

- `OpenGuardedHolds` (`OpenGuarded`). `Quiet`: from its pause on, `Job` holds off
  every worker a slot knows of or counts its bus among those it opens nothing on.
  `Known`: a worker that is busy draws on the slot that names it, from when it is
  spawned and not yet recorded, so the bus it may be writing on is that slot's. And
  while `start` opens panels no slot has a worker.
- `OneOpenPerDeviceHolds` (`OneOpenPerDevice`), from `Chips`, which is that property
  of `Job`, with `Panels`, by which a panel that is lit while a call opens another
  is in `_slots`, and `Placings`: the slots that go on (`Onward`; in `apply`, until
  the retired are gone, those it keeps) show screens of the configuration, none of
  which is still to be opened (`Ahead`), and a probe's device is no screen's. So
  what is opened next and what is lit are two screens of one configuration, and those
  have two devices. `Placings` says too that each of these slots is of the push
  that brought the configuration, so `ApplyReturns` never puts the old one back.
- `CoherentHolds` (`Coherent`) adds `Settling`. `Coherent` speaks of the moments
  between calls, which no step leads to alone; `Settling` says of every moment in
  between what is owed: each screen of the configuration is still to be opened, or a
  slot shows it, or it is reported, and never two of these (`Reported`); a slot
  without a worker is one that `Job` has still to walk (`Staffed`); a worker is held
  only while something may be opened (`Freed`). The first two hold while the rack is
  `Up`: a refused `start` leaves the loop with its work undone, and a stopped rack
  does not finish its own. When no call is left, what is owed is nothing.

Every invariant that a passing run checks is proved. Only model-checked are
`Converges`, `Stops`, `Joins`, `Settles`, `Recovers`, `RetiredLeave` and the fairness
part of `Implements`, and they stay with TLC for good: liveness under fairness is
beyond this prover, as are `ENABLED`, induction over data and `RECURSIVE` operators.
No module here uses the last two.

To repeat: `tlc -workers 2 -config RackLink_one.cfg MCRackLink`, `tlapm
RackLinkClaimProofs.tla`, and the like.

## Plan

Done: every module above, with theorems for each invariant its passing runs check.
What could come next:

1. The theorems of `Supervisor` that assume `~EarlyPush`, once `start` takes
   `_shutdown_lock`: the hypothesis would then be a fact about the code.
2. The hazards without a property: the push of another timezone, the name the reaper
   decides about too soon.

## Not modelled

Rendering and the configuration schema are pure functions of their input,
covered by golden images and unit tests. Displays, discovery, installation, the
status file and the server's start-up are device, network or file I/O without a
state that others share. The Prometheus integration is an HTTP query and
arithmetic; `Sources` has what its poller makes of it. The web interface is
views; a tab is modelled as the server sees it. Sessions are signed cookies. Of
the modelled components, the sections above say what each module leaves out.
