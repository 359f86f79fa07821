----------------------------- MODULE Supervisor -----------------------------
(***************************************************************************)
(* The threads that own a rack's panels, and how they are brought up,      *)
(* reconfigured, watched and taken down                                    *)
(* (daemon/src/ors_daemon/supervisor.py, with the loop of screen.py and    *)
(* the signal handler of __main__.py).                                     *)
(*                                                                         *)
(* Two threads run the supervisor's methods.  The main thread starts the   *)
(* rack, runs the watchdog and stops it; a signal makes it run stop() on   *)
(* top of whatever it is doing, so each thread has a stack of calls.  The  *)
(* link thread applies pushed configurations, probes panels and stops the  *)
(* rack when a push changes the timezone.  _shutdown_lock is re-entrant:   *)
(* it excludes the other thread and never the handler.  Every panel has a  *)
(* worker thread that draws on it through a lease.                         *)
(*                                                                         *)
(* A step ends where another thread, or a signal, could see the difference.*)
(***************************************************************************)
EXTENDS Integers, Sequences, FiniteSets

CONSTANTS
  Device,      \* the SPI devices, as <<bus, chip select>>
  Edition,     \* what a screen can draw: everything of it but its device
  Config,      \* the configurations the server can push: sets of screens
  Boot,        \* those the daemon may start with
  Slot,        \* the panels that can be open at one time
  Worker,      \* the worker threads that can be alive at one time
  None,        \* Python's None
  MaxRestarts, \* _MAX_RESTARTS: restarts of one screen by the watchdog
  MaxPushes,   \* bound: configurations pushed
  MaxSignals,  \* bound: SIGTERM and SIGINT received
  MayRefuse,   \* the calls in which the machine may refuse a new thread
  EarlyPush    \* whether the link may call before start() has returned

Screen == [device : Device, edition : Edition]
\* What a probe opens: a device that no configuration claims.
Candidate == [device : Device, edition : {None}]
Thread == {"main", "link"}
BusOf(x) == x.device[1]

ASSUME ConfigAssumption ==
  \A C \in Config \cup Boot : C \subseteq Screen /\ \A x, y \in C : x.device = y.device => x = y
ASSUME IdAssumption == Slot \subseteq Nat /\ Worker \subseteq Nat
ASSUME BoundAssumption == {MaxRestarts, MaxPushes, MaxSignals} \subseteq Nat
ASSUME ChoiceAssumption ==
  MayRefuse \subseteq {"start", "apply", "tick"} /\ EarlyPush \in BOOLEAN
ASSUME NoneAssumption == None \notin Nat

VARIABLES
  \* Each thread's calls, innermost first.
  stack,
  \* _stopped and _stop_event, and with them the closed snapshot store.
  stopped,
  \* _screens: which they are, and which push they came with.
  config,
  \* _slots and _unavailable.
  slots, unavailable,
  \* Each slot: its screen and the push that screen came with, its lease, its
  \* worker, its restarts, whether it is claimed, its stop event.
  screen, issue, lease, worker, restarts, shut, stop,
  \* How often each slot's panel was slept and closed: 0 while it is lit.
  closes,
  \* The leases that have not been revoked.
  live,
  \* Each worker thread: what it is doing, on which slot, by which lease; and
  \* the workers that something holds off their panel.
  doing, on, by, held,
  pushes, signals

slot == <<screen, issue, lease, worker, restarts, shut, stop, closes>>
thread == <<doing, on, by>>
vars == <<stack, stopped, config, slots, unavailable, slot, live, thread, held,
          pushes, signals>>

-----------------------------------------------------------------------------
(* Calls and the lock.                                                     *)

\* A call: which method, where it is, what it has still to go through (screens
\* to open, slots to walk), and its other locals: slots it keeps and retires,
\* buses it could not quiet, the screen, slot and worker it has in hand, the
\* configuration it replaces.
Frame(op, at) ==
  [op |-> op, at |-> at, screens |-> {}, slots |-> {}, kept |-> {}, retired |-> {},
   buses |-> {}, screen |-> None, slot |-> None, worker |-> None, before |-> None]

Top(t) == Head(stack[t])
In(t, ops, at) == stack[t] # <<>> /\ Top(t).op \in ops /\ Top(t).at = at

Go(t, f) == stack' = [stack EXCEPT ![t] = <<f>> \o Tail(@)]
Return(t) == stack' = [stack EXCEPT ![t] = Tail(@)]
Call(t, f) == stack' = [stack EXCEPT ![t] = <<f>> \o @]

\* Where an exception out of start() or tick() leaves run_forever: its finally.
Raise == stack' = [stack EXCEPT !["main"] = <<Frame("stop", "enter"), Frame("run", "over")>>]

Alive == stack["main"] # <<>>

Locked(f) == f.op \in {"stop", "apply", "probe", "tick"} /\ f.at # "enter"
Holds(t) == \E i \in DOMAIN stack[t] : Locked(stack[t][i])

\* _shutdown_lock can be taken: nobody else holds it.
Lock(t) == \A o \in Thread \ {t} : ~Holds(o)

-----------------------------------------------------------------------------
(* Workers.                                                                *)

InTick(w) == doing[w] \in {"ticking", "writing"}

\* What a join waits for, and what it gives up on: a worker asked to leave does
\* so at once unless it is inside a tick, where it may stay.
Left(w) == doing[w] = "done" \/ InTick(w)

Told(w) == stopped \/ stop[on[w]]

\* The worker takes its tick lock and finds something to draw.
BeginTick(w) ==
  /\ Alive /\ doing[w] = "parked" /\ w \notin held /\ ~Told(w)
  /\ doing' = [doing EXCEPT ![w] = "ticking"]
  /\ UNCHANGED <<stack, stopped, config, slots, unavailable, slot, live, on, by, held,
                 pushes, signals>>

\* The lease lets a frame through, or drops it.
Show(w) ==
  /\ Alive /\ doing[w] = "ticking"
  /\ doing' = [doing EXCEPT ![w] = IF <<on[w], by[w]>> \in live THEN "writing"
                                                                ELSE "parked"]
  /\ UNCHANGED <<stack, stopped, config, slots, unavailable, slot, live, on, by, held,
                 pushes, signals>>

\* The backend returns.  A worker wedged in the call never takes this step.
Shown(w) ==
  /\ Alive /\ doing[w] = "writing"
  /\ doing' = [doing EXCEPT ![w] = "parked"]
  /\ UNCHANGED <<stack, stopped, config, slots, unavailable, slot, live, on, by, held,
                 pushes, signals>>

\* A worker told to stop leaves, and ends its lease on the way out.
Leave(w) ==
  /\ Alive /\ doing[w] = "parked" /\ Told(w)
  /\ doing' = [doing EXCEPT ![w] = "done"]
  /\ on' = [on EXCEPT ![w] = None] /\ by' = [by EXCEPT ![w] = 0]
  /\ live' = live \ {<<on[w], by[w]>>}
  /\ UNCHANGED <<stack, stopped, config, slots, unavailable, slot, held, pushes, signals>>

-----------------------------------------------------------------------------
(* Panels and threads that are gone, whose ids can be used again.          *)

Mentions(f, s) == s = f.slot \/ s \in f.slots \cup f.kept \cup f.retired
InUse(s) == \E t \in Thread : \E i \in DOMAIN stack[t] : Mentions(stack[t][i], s)

Vacant(s) ==
  /\ s \notin slots /\ closes[s] > 0 /\ ~InUse(s)
  /\ \A w \in Worker : on[w] # s
Spare(w) ==
  /\ doing[w] = "done"
  /\ \A s \in Slot : worker[s] = w => Vacant(s)
  /\ \A t \in Thread : \A i \in DOMAIN stack[t] : stack[t][i].worker # w

NewSlot(s) == Vacant(s) /\ \A o \in Slot : o < s => ~Vacant(o)
NewWorker(w) == Spare(w) /\ \A o \in Worker : o < w => ~Spare(o)

\* A new thread draws on slot s by the lease of generation g.
Spawn(w, s, g) ==
  /\ NewWorker(w)
  /\ doing' = [doing EXCEPT ![w] = "parked"]
  /\ on' = [on EXCEPT ![w] = s]
  /\ by' = [by EXCEPT ![w] = g]

-----------------------------------------------------------------------------
(* Opening panels and starting workers: start() and apply() both do it.    *)

\* A device is about to be opened: a hardware reset and an init sequence.
BeginOpen(t, x) ==
  /\ In(t, {"start", "apply", "probe"}, "open")
  /\ x \in Top(t).screens
  /\ BusOf(x) \notin Top(t).buses
  /\ Top(t).op = "start" => ~stopped
  /\ Go(t, [Top(t) EXCEPT !.at = "init", !.screen = x, !.screens = @ \ {x}])
  /\ UNCHANGED <<stopped, config, slots, unavailable, slot, live, thread, held,
                 pushes, signals>>

\* A screen on a bus that could not be quieted is reported and left dark.
SkipOpen(t, x) ==
  /\ In(t, {"apply"}, "open")
  /\ x \in Top(t).screens /\ BusOf(x) \in Top(t).buses
  /\ unavailable' = unavailable \cup {x}
  /\ Go(t, [Top(t) EXCEPT !.screens = @ \ {x}])
  /\ UNCHANGED <<stopped, config, slots, slot, live, thread, held, pushes, signals>>

\* The device would not open.
OpenFails(t) ==
  /\ In(t, {"start", "apply"}, "init")
  /\ unavailable' = unavailable \cup {Top(t).screen}
  /\ Go(t, [Top(t) EXCEPT !.at = "open", !.screen = None])
  /\ UNCHANGED <<stopped, config, slots, slot, live, thread, held, pushes, signals>>

\* Slot s holds a panel that has just been opened for the screen in hand.
Opened(t, s) ==
  /\ NewSlot(s)
  /\ screen' = [screen EXCEPT ![s] = Top(t).screen]
  /\ issue' = [issue EXCEPT ![s] = IF Top(t).op = "start" THEN 0 ELSE config.issue]
  /\ lease' = [lease EXCEPT ![s] = 0]
  /\ worker' = [worker EXCEPT ![s] = None]
  /\ restarts' = [restarts EXCEPT ![s] = 0]
  /\ shut' = [shut EXCEPT ![s] = FALSE]
  /\ stop' = [stop EXCEPT ![s] = FALSE]
  /\ closes' = [closes EXCEPT ![s] = 0]
  /\ live' = live \cup {<<s, 0>>}

\* The panel is recorded first, and then a stop that has already begun is looked
\* for: it may have walked the slots before this one was there.
OpenPanel(t, s) ==
  /\ In(t, {"start", "apply"}, "init")
  /\ Opened(t, s)
  /\ slots' = slots \cup {s}
  /\ LET f == [Top(t) EXCEPT !.at = "open", !.screen = None]
     IN  stack' = [stack EXCEPT ![t] =
                     (IF stopped THEN <<Frame("stop", "enter")>> ELSE <<>>)
                       \o <<f>> \o Tail(@)]
  /\ UNCHANGED <<stopped, config, unavailable, thread, held, pushes, signals>>

\* Every panel is open: the kept workers are let go and workers are started.
OpensDone(t) ==
  /\ In(t, {"start", "apply"}, "open")
  /\ Top(t).screens = {}
  /\ held' = IF Top(t).op = "apply" THEN {} ELSE held
  /\ Go(t, [Top(t) EXCEPT !.at = "work", !.slots = slots])
  /\ UNCHANGED <<stopped, config, slots, unavailable, slot, live, thread, pushes,
                 signals>>

\* apply() starts workers where there are none, start() on every slot it walks.
ToStart(t) == {s \in Top(t).slots : Top(t).op = "start" \/ worker[s] = None}

\* A worker's thread runs before its slot knows of it.
StartWorker(t, s, w) ==
  /\ In(t, {"start", "apply"}, "work")
  /\ s \in ToStart(t)
  /\ Top(t).op = "start" => ~stopped
  /\ Spawn(w, s, lease[s])
  /\ Go(t, [Top(t) EXCEPT !.at = "begun", !.slots = @ \ {s}, !.slot = s, !.worker = w])
  /\ UNCHANGED <<stopped, config, slots, unavailable, slot, live, held, pushes, signals>>

RecordWorker(t) ==
  /\ In(t, {"start", "apply"}, "begun")
  /\ worker' = [worker EXCEPT ![Top(t).slot] = Top(t).worker]
  /\ Go(t, [Top(t) EXCEPT !.at = "work", !.slot = None, !.worker = None])
  /\ UNCHANGED <<stopped, config, slots, unavailable, screen, issue, lease, restarts,
                 shut, stop, closes, live, thread, held, pushes, signals>>

\* The machine has no thread to give.
StartFails(t, s) ==
  /\ In(t, {"start", "apply"} \cap MayRefuse, "work")
  /\ s \in ToStart(t)
  /\ Top(t).op = "start" => ~stopped
  /\ Go(t, [Top(t) EXCEPT !.at = "failed", !.slots = @ \ {s}, !.slot = s])
  /\ UNCHANGED <<stopped, config, slots, unavailable, slot, live, thread, held, pushes,
                 signals>>

\* Sleep and close the panels of S, which revokes their leases first.
ShutDown(S) ==
  /\ shut' = [s \in Slot |-> shut[s] \/ s \in S]
  /\ closes' = [s \in Slot |-> IF s \in S THEN closes[s] + 1 ELSE closes[s]]
  /\ live' = {l \in live : \A s \in S : l # <<s, lease[s]>>}

\* Faulty DropSlot: the slot of a panel that was blanked is kept.
DropSlotNot(t) ==
  /\ In(t, {"start", "apply"}, "failed")
  /\ ShutDown({Top(t).slot})
  /\ UNCHANGED slots
  /\ unavailable' = unavailable \cup {screen[Top(t).slot]}
  /\ IF Top(t).op = "start" THEN Raise
                            ELSE Go(t, [Top(t) EXCEPT !.at = "work", !.slot = None])
  /\ UNCHANGED <<stopped, config, screen, issue, lease, worker, restarts, stop, thread,
                 held, pushes, signals>>

\* A worker that would not start takes its panel and its slot with it, and out
\* of start() the exception goes on.
DropSlot(t) ==
  /\ In(t, {"start", "apply"}, "failed")
  /\ ShutDown({Top(t).slot})
  /\ slots' = slots \ {Top(t).slot}
  /\ unavailable' = unavailable \cup {screen[Top(t).slot]}
  /\ IF Top(t).op = "start" THEN Raise
                            ELSE Go(t, [Top(t) EXCEPT !.at = "work", !.slot = None])
  /\ UNCHANGED <<stopped, config, screen, issue, lease, worker, restarts, stop, thread,
                 held, pushes, signals>>

-----------------------------------------------------------------------------
(* run_forever and start.                                                  *)

\* start() is done, or was told to stop on the way.
StartReturns ==
  /\ In("main", {"start"}, "open") \/ In("main", {"start"}, "work")
  /\ stopped \/ (Top("main").at = "work" /\ Top("main").slots = {})
  /\ Return("main")
  /\ UNCHANGED <<stopped, config, slots, unavailable, slot, live, thread, held, pushes,
                 signals>>

Lap ==
  /\ In("main", {"run"}, "loop")
  /\ IF stopped THEN Raise ELSE Call("main", Frame("tick", "enter"))
  /\ UNCHANGED <<stopped, config, slots, unavailable, slot, live, thread, held, pushes,
                 signals>>

\* The last stop() has returned and the process ends, its other threads with it.
Exit ==
  /\ In("main", {"run"}, "over")
  /\ Return("main")
  /\ UNCHANGED <<stopped, config, slots, unavailable, slot, live, thread, held, pushes,
                 signals>>

-----------------------------------------------------------------------------
(* The watchdog.                                                           *)

EnterTick ==
  /\ In("main", {"tick"}, "enter") /\ Lock("main")
  /\ IF stopped THEN Return("main")
                ELSE Go("main", [Frame("tick", "check") EXCEPT !.slots = slots])
  /\ UNCHANGED <<stopped, config, slots, unavailable, slot, live, thread, held, pushes,
                 signals>>

\* The heartbeat of s is old: its worker has been inside one tick for too long.
Stale(s) == worker[s] # None /\ InTick(worker[s])

\* Faulty Replace: the old worker keeps its lease.
ReplaceUnrevoked(s, w) ==
  /\ In("main", {"tick"}, "check") /\ s \in Top("main").slots
  /\ Stale(s) /\ restarts[s] < MaxRestarts
  /\ restarts' = [restarts EXCEPT ![s] = @ + 1]
  /\ live' = live \cup {<<s, lease[s] + 1>>}
  /\ Spawn(w, s, lease[s] + 1)
  /\ Go("main", [Top("main") EXCEPT !.at = "begun", !.slots = @ \ {s}, !.slot = s,
                                    !.worker = w])
  /\ UNCHANGED <<stopped, config, slots, unavailable, screen, issue, lease, worker, shut,
                 stop, closes, held, pushes, signals>>

\* Faulty Replace: one restart too many.
ReplaceOnceMore(s, w) ==
  /\ In("main", {"tick"}, "check") /\ s \in Top("main").slots
  /\ Stale(s) /\ restarts[s] <= MaxRestarts
  /\ restarts' = [restarts EXCEPT ![s] = @ + 1]
  /\ live' = (live \ {<<s, lease[s]>>}) \cup {<<s, lease[s] + 1>>}
  /\ Spawn(w, s, lease[s] + 1)
  /\ Go("main", [Top("main") EXCEPT !.at = "begun", !.slots = @ \ {s}, !.slot = s,
                                    !.worker = w])
  /\ UNCHANGED <<stopped, config, slots, unavailable, screen, issue, lease, worker, shut,
                 stop, closes, held, pushes, signals>>

\* The wedged worker loses its lease, and another draws by a new one.
Replace(s, w) ==
  /\ In("main", {"tick"}, "check") /\ s \in Top("main").slots
  /\ Stale(s) /\ restarts[s] < MaxRestarts
  /\ restarts' = [restarts EXCEPT ![s] = @ + 1]
  /\ live' = (live \ {<<s, lease[s]>>}) \cup {<<s, lease[s] + 1>>}
  /\ Spawn(w, s, lease[s] + 1)
  /\ Go("main", [Top("main") EXCEPT !.at = "begun", !.slots = @ \ {s}, !.slot = s,
                                    !.worker = w])
  /\ UNCHANGED <<stopped, config, slots, unavailable, screen, issue, lease, worker, shut,
                 stop, closes, held, pushes, signals>>

RecordReplacement ==
  /\ In("main", {"tick"}, "begun")
  /\ LET s == Top("main").slot  w == Top("main").worker
     IN  /\ worker' = [worker EXCEPT ![s] = w]
         /\ lease' = [lease EXCEPT ![s] = @ + 1]
  /\ Go("main", [Top("main") EXCEPT !.at = "check", !.slot = None, !.worker = None])
  /\ UNCHANGED <<stopped, config, slots, unavailable, screen, issue, restarts, shut,
                 stop, closes, live, thread, held, pushes, signals>>

\* The machine has no thread to give: the old lease is gone all the same, and
\* the exception ends the loop.
ReplaceFails(s) ==
  /\ "tick" \in MayRefuse
  /\ In("main", {"tick"}, "check") /\ s \in Top("main").slots
  /\ Stale(s) /\ restarts[s] < MaxRestarts
  /\ restarts' = [restarts EXCEPT ![s] = @ + 1]
  /\ live' = live \ {<<s, lease[s]>>}
  /\ Raise
  /\ UNCHANGED <<stopped, config, slots, unavailable, screen, issue, lease, worker, shut,
                 stop, closes, thread, held, pushes, signals>>

\* The other slots are fine, or have been restarted often enough.
TickReturns ==
  /\ In("main", {"tick"}, "check")
  /\ Return("main")
  /\ UNCHANGED <<stopped, config, slots, unavailable, slot, live, thread, held, pushes,
                 signals>>

-----------------------------------------------------------------------------
(* The link thread's calls.                                                *)

LinkMayCall ==
  /\ Alive /\ stack["link"] = <<>> /\ ~stopped
  /\ EarlyPush \/ ~\E i \in DOMAIN stack["main"] : stack["main"][i].op = "start"

\* A push that resolves is applied.
Push(C) ==
  /\ LinkMayCall /\ pushes < MaxPushes
  /\ pushes' = pushes + 1
  /\ Call("link", [Frame("apply", "enter") EXCEPT !.screens = C])
  /\ UNCHANGED <<stopped, config, slots, unavailable, slot, live, thread, held, signals>>

\* The slots that go on with a configuration: one for each of its screens that
\* one of them already shows.
Keeps(C) ==
  {s \in slots : screen[s] \in C /\ \A o \in slots : o < s => screen[o] # screen[s]}

\* apply() has the lock: it adopts the configuration, and if anything at the
\* glass changes it revokes the leases of what goes and tells it to stop.
EnterApply ==
  LET C == Top("link").screens
      kept == Keeps(C)
      retired == slots \ kept
      fresh == C \ {screen[s] : s \in kept}
  IN  /\ In("link", {"apply"}, "enter") /\ Alive /\ Lock("link")
      /\ IF stopped THEN Return("link") /\ UNCHANGED <<config, issue, live, stop>>
           ELSE /\ config' = [screens |-> C, issue |-> pushes]
                /\ issue' = [s \in Slot |-> IF s \in kept THEN pushes ELSE issue[s]]
                /\ live' = {l \in live : \A s \in retired : l # <<s, lease[s]>>}
                /\ stop' = [s \in Slot |-> stop[s] \/ s \in retired]
                /\ IF fresh = {} /\ retired = {} THEN Return("link")
                     ELSE Go("link", [Frame("apply", "join") EXCEPT
                                        !.screens = fresh, !.kept = kept,
                                        !.retired = retired, !.before = config])
      /\ UNCHANGED <<stopped, slots, unavailable, screen, lease, worker, restarts, shut,
                     closes, thread, held, pushes, signals>>

Gone(s) == worker[s] # None => Left(worker[s])
HasWorker(S) == {s \in S : worker[s] # None}

\* The retired workers have left or are given up, and _slots is what is kept.
JoinRetired ==
  /\ In("link", {"apply"}, "join") /\ Alive
  /\ \A s \in Top("link").retired : Gone(s)
  /\ slots' = Top("link").kept
  /\ unavailable' = {}
  /\ Go("link", [Top("link") EXCEPT !.at = "pause", !.slots = HasWorker(Top("link").kept)])
  /\ UNCHANGED <<stopped, config, slot, live, thread, held, pushes, signals>>

\* A kept worker between two ticks hands its panel over.
Pause(s) ==
  /\ In("link", {"apply", "probe"}, "pause") /\ Alive
  /\ s \in Top("link").slots /\ ~InTick(worker[s])
  /\ held' = held \cup {worker[s]}
  /\ Go("link", [Top("link") EXCEPT !.slots = @ \ {s}])
  /\ UNCHANGED <<stopped, config, slots, unavailable, slot, live, thread, pushes, signals>>

\* Faulty PauseFails: what is on its bus is opened all the same.
PauseFailsQuietly(s) ==
  /\ In("link", {"apply", "probe"}, "pause") /\ Alive
  /\ s \in Top("link").slots /\ InTick(worker[s])
  /\ Go("link", [Top("link") EXCEPT !.slots = @ \ {s}])
  /\ UNCHANGED <<stopped, config, slots, unavailable, slot, live, thread, held, pushes,
                 signals>>

\* One that stays inside its tick does not, and nothing is opened on its bus.
PauseFails(s) ==
  /\ In("link", {"apply", "probe"}, "pause") /\ Alive
  /\ s \in Top("link").slots /\ InTick(worker[s])
  /\ Go("link", [Top("link") EXCEPT !.slots = @ \ {s},
                                    !.buses = @ \cup {BusOf(screen[s])}])
  /\ UNCHANGED <<stopped, config, slots, unavailable, slot, live, thread, held, pushes,
                 signals>>

\* Everything that would come off its panel has: the retired panels go dark.
BlankRetired ==
  /\ In("link", {"apply"}, "pause") /\ Alive /\ Top("link").slots = {}
  /\ ShutDown(Top("link").retired)
  /\ Go("link", [Top("link") EXCEPT !.at = "open", !.retired = {}])
  /\ UNCHANGED <<stopped, config, slots, unavailable, screen, issue, lease, worker,
                 restarts, stop, thread, held, pushes, signals>>

\* apply() sorts _slots by the screens of the push, and fails on one that is of
\* none of them: the claim goes back, the panels stay.
ApplyReturns ==
  /\ In("link", {"apply"}, "work") /\ Alive /\ ToStart("link") = {}
  /\ config' = IF \A s \in slots : issue[s] = config.issue THEN config
                                                           ELSE Top("link").before
  /\ Return("link")
  /\ UNCHANGED <<stopped, slots, unavailable, slot, live, thread, held, pushes, signals>>

\* A probe of a device somebody wired up.
Probe(x) ==
  /\ LinkMayCall
  /\ Call("link", [Frame("probe", "enter") EXCEPT !.screens = {x}])
  /\ UNCHANGED <<stopped, config, slots, unavailable, slot, live, thread, held, pushes,
                 signals>>

\* Faulty EnterProbe: only open panels are taken to claim their device.
EnterProbeOfUnclaimed ==
  /\ In("link", {"probe"}, "enter") /\ Alive /\ Lock("link")
  /\ IF stopped THEN Return("link")
       ELSE Go("link", [Top("link") EXCEPT !.at = "pause", !.slots = HasWorker(slots)])
  /\ UNCHANGED <<stopped, config, slots, unavailable, slot, live, thread, held, pushes,
                 signals>>

\* A device the configuration claims, open or not, is not probed.
EnterProbe ==
  LET claimed == \E x \in Top("link").screens, y \in config.screens : x.device = y.device
  IN  /\ In("link", {"probe"}, "enter") /\ Alive /\ Lock("link")
      /\ IF stopped \/ claimed THEN Return("link")
           ELSE Go("link", [Top("link") EXCEPT !.at = "pause", !.slots = HasWorker(slots)])
      /\ UNCHANGED <<stopped, config, slots, unavailable, slot, live, thread, held, pushes,
                     signals>>

\* A bus that is not quiet refuses the probe, and everyone is let go.
ProbePaused ==
  /\ In("link", {"probe"}, "pause") /\ Alive /\ Top("link").slots = {}
  /\ IF \E x \in Top("link").screens : BusOf(x) \in Top("link").buses
       THEN Return("link") /\ held' = {}
       ELSE Go("link", [Top("link") EXCEPT !.at = "open"]) /\ UNCHANGED held
  /\ UNCHANGED <<stopped, config, slots, unavailable, slot, live, thread, pushes, signals>>

\* The candidate opens and is held lit, outside _slots.
ProbeLights(s) ==
  /\ In("link", {"probe"}, "init") /\ Alive
  /\ Opened("link", s)
  /\ Go("link", [Top("link") EXCEPT !.at = "lit", !.slot = s])
  /\ UNCHANGED <<stopped, config, slots, unavailable, thread, held, pushes, signals>>

\* The hold is over, the paint failed, or the device did not open.
ProbeReturns ==
  /\ In("link", {"probe"}, "init") \/ In("link", {"probe"}, "lit")
  /\ Alive
  /\ ShutDown(IF Top("link").at = "lit" THEN {Top("link").slot} ELSE {})
  /\ held' = {}
  /\ Return("link")
  /\ UNCHANGED <<stopped, config, slots, unavailable, screen, issue, lease, worker,
                 restarts, stop, thread, pushes, signals>>

\* A push of another timezone stops the rack from the link thread.
Reclock ==
  /\ LinkMayCall
  /\ Call("link", Frame("stop", "enter"))
  /\ UNCHANGED <<stopped, config, slots, unavailable, slot, live, thread, held, pushes,
                 signals>>

-----------------------------------------------------------------------------
(* Stopping.                                                               *)

\* A signal runs stop() on top of whatever the main thread is doing.
Signal ==
  /\ Alive /\ signals < MaxSignals
  /\ signals' = signals + 1
  /\ Call("main", Frame("stop", "enter"))
  /\ UNCHANGED <<stopped, config, slots, unavailable, slot, live, thread, held, pushes>>

\* Faulty EnterStop: the lock is not re-entrant.
EnterStopAlone(t) ==
  /\ In(t, {"stop"}, "enter") /\ Alive /\ Lock(t) /\ ~Holds(t)
  /\ stopped' = TRUE
  /\ stop' = [s \in Slot |-> stop[s] \/ s \in slots]
  /\ Go(t, Frame("stop", "join"))
  /\ UNCHANGED <<config, slots, unavailable, screen, issue, lease, worker, restarts, shut,
                 closes, live, thread, held, pushes, signals>>

\* Faulty EnterStop: once stopping, a call returns early.
EnterStopOnce(t) ==
  /\ In(t, {"stop"}, "enter") /\ Alive /\ Lock(t)
  /\ stopped' = TRUE
  /\ stop' = [s \in Slot |-> stop[s] \/ s \in slots]
  /\ IF stopped THEN Return(t) ELSE Go(t, Frame("stop", "join"))
  /\ UNCHANGED <<config, slots, unavailable, screen, issue, lease, worker, restarts, shut,
                 closes, live, thread, held, pushes, signals>>

\* stop() has the lock: every worker is told, parked ones included.
EnterStop(t) ==
  /\ In(t, {"stop"}, "enter") /\ Alive /\ Lock(t)
  /\ stopped' = TRUE
  /\ stop' = [s \in Slot |-> stop[s] \/ s \in slots]
  /\ Go(t, Frame("stop", "join"))
  /\ UNCHANGED <<config, slots, unavailable, screen, issue, lease, worker, restarts, shut,
                 closes, live, thread, held, pushes, signals>>

\* The workers it knows of have left or are given up.
JoinAll(t) ==
  /\ In(t, {"stop"}, "join") /\ Alive
  /\ \A s \in slots : shut[s] \/ Gone(s)
  /\ Go(t, Frame("stop", "blank"))
  /\ UNCHANGED <<stopped, config, slots, unavailable, slot, live, thread, held, pushes,
                 signals>>

\* Faulty ClaimPanel: a panel is marked only by what comes after its close.
ClaimPanelLate(t, s) ==
  /\ In(t, {"stop"}, "blank") /\ Alive
  /\ s \in slots /\ ~shut[s]
  /\ shut' = [shut EXCEPT ![s] = closes[s] > 0]
  /\ live' = live \ {<<s, lease[s]>>}
  /\ Go(t, [Frame("stop", "close") EXCEPT !.slot = s])
  /\ UNCHANGED <<stopped, config, slots, unavailable, screen, issue, lease, worker,
                 restarts, stop, closes, thread, held, pushes, signals>>

\* A panel is claimed before anything is done to it: another stop() may begin
\* on this thread while it is being slept.
ClaimPanel(t, s) ==
  /\ In(t, {"stop"}, "blank") /\ Alive
  /\ s \in slots /\ ~shut[s]
  /\ shut' = [shut EXCEPT ![s] = TRUE]
  /\ live' = live \ {<<s, lease[s]>>}
  /\ Go(t, [Frame("stop", "close") EXCEPT !.slot = s])
  /\ UNCHANGED <<stopped, config, slots, unavailable, screen, issue, lease, worker,
                 restarts, stop, closes, thread, held, pushes, signals>>

ClosePanel(t) ==
  /\ In(t, {"stop"}, "close") /\ Alive
  /\ closes' = [closes EXCEPT ![Top(t).slot] = @ + 1]
  /\ Go(t, Frame("stop", "blank"))
  /\ UNCHANGED <<stopped, config, slots, unavailable, screen, issue, lease, worker,
                 restarts, shut, stop, live, thread, held, pushes, signals>>

StopReturns(t) ==
  /\ In(t, {"stop"}, "blank") /\ Alive
  /\ \A s \in slots : shut[s]
  /\ Return(t)
  /\ UNCHANGED <<stopped, config, slots, unavailable, slot, live, thread, held, pushes,
                 signals>>

-----------------------------------------------------------------------------
(* The specification.                                                      *)

Init ==
  /\ \E C \in Boot :
       /\ config = [screens |-> C, issue |-> 0]
       /\ stack = [t \in Thread |->
                     IF t = "main"
                       THEN <<[Frame("start", "open") EXCEPT !.screens = C],
                              Frame("run", "loop")>>
                       ELSE <<>>]
  /\ stopped = FALSE
  /\ slots = {} /\ unavailable = {}
  /\ screen = [s \in Slot |-> None]
  /\ issue = [s \in Slot |-> 0]
  /\ lease = [s \in Slot |-> 0]
  /\ worker = [s \in Slot |-> None]
  /\ restarts = [s \in Slot |-> 0]
  /\ shut = [s \in Slot |-> TRUE]
  /\ stop = [s \in Slot |-> TRUE]
  /\ closes = [s \in Slot |-> 1]
  /\ live = {}
  /\ doing = [w \in Worker |-> "done"]
  /\ on = [w \in Worker |-> None]
  /\ by = [w \in Worker |-> 0]
  /\ held = {}
  /\ pushes = 0 /\ signals = 0

Drawing(w) == BeginTick(w) \/ Show(w) \/ Shown(w) \/ Leave(w)

Opening(t) ==
  \/ \E x \in Screen \cup Candidate : BeginOpen(t, x) \/ SkipOpen(t, x)
  \/ OpenFails(t) \/ OpensDone(t)
  \/ \E s \in Slot :
       OpenPanel(t, s) \/ StartFails(t, s) \/ \E w \in Worker : StartWorker(t, s, w)
  \/ RecordWorker(t) \/ DropSlot(t)

Stopping(t) ==
  \/ EnterStop(t) \/ JoinAll(t) \/ ClosePanel(t) \/ StopReturns(t)
  \/ \E s \in Slot : ClaimPanel(t, s)

Main ==
  \/ StartReturns \/ Lap \/ Exit
  \/ EnterTick \/ RecordReplacement \/ TickReturns
  \/ \E s \in Slot : ReplaceFails(s) \/ \E w \in Worker : Replace(s, w)

\* What the link thread does once it has begun.
Link ==
  \/ EnterApply \/ JoinRetired \/ BlankRetired \/ ApplyReturns
  \/ EnterProbe \/ ProbePaused \/ ProbeReturns
  \/ \E s \in Slot : Pause(s) \/ PauseFails(s) \/ ProbeLights(s)

Calls ==
  \/ \E C \in Config : Push(C)
  \/ \E x \in Candidate : Probe(x)
  \/ Reclock \/ Signal

Next ==
  \/ \E w \in Worker : Drawing(w)
  \/ \E t \in Thread : Opening(t) \/ Stopping(t)
  \/ Main \/ Link \/ Calls

Spec == Init /\ [][Next]_vars

\* Both threads go on, and a worker told to leave does; a frame that is being
\* written may take for ever.
Fairness ==
  /\ WF_vars(Main) /\ WF_vars(Link)
  /\ \A t \in Thread : WF_vars(Opening(t)) /\ WF_vars(Stopping(t))
  /\ \A w \in Worker : WF_vars(Leave(w)) /\ WF_vars(Show(w))

FairSpec == Spec /\ Fairness

-----------------------------------------------------------------------------
(* Types.                                                                  *)

Op == {"start", "run", "tick", "stop", "apply", "probe"}
At == {"enter", "open", "init", "work", "begun", "failed", "loop", "over", "check",
       "join", "pause", "blank", "close", "lit"}
Settings == [screens : SUBSET Screen, issue : Nat]
IsFrame(f) ==
  /\ f.op \in Op /\ f.at \in At
  /\ f.screens \subseteq Screen \cup Candidate
  /\ f.slots \subseteq Slot /\ f.kept \subseteq Slot /\ f.retired \subseteq Slot
  /\ f.buses \subseteq {d[1] : d \in Device}
  /\ f.screen \in Screen \cup Candidate \cup {None}
  /\ f.slot \in Slot \cup {None} /\ f.worker \in Worker \cup {None}
  /\ f.before # None => f.before \in Settings

\* Every variable holds values of the kind the code keeps in it, and a call's
\* locals are screens, slots and workers.
TypeOK ==
  /\ DOMAIN stack = Thread
  /\ \A t \in Thread : \A i \in DOMAIN stack[t] : IsFrame(stack[t][i])
  /\ stopped \in BOOLEAN
  /\ config \in Settings
  /\ slots \subseteq Slot /\ unavailable \subseteq Screen
  /\ screen \in [Slot -> Screen \cup Candidate \cup {None}]
  /\ issue \in [Slot -> Nat] /\ lease \in [Slot -> Nat]
  /\ worker \in [Slot -> Worker \cup {None}]
  /\ restarts \in [Slot -> 0..MaxRestarts]
  /\ shut \in [Slot -> BOOLEAN] /\ stop \in [Slot -> BOOLEAN]
  /\ closes \in [Slot -> Nat]
  /\ live \subseteq Slot \X Nat
  /\ doing \in [Worker -> {"parked", "ticking", "writing", "done"}]
  /\ on \in [Worker -> Slot \cup {None}] /\ by \in [Worker -> Nat]
  /\ held \subseteq Worker
  /\ pushes \in 0..MaxPushes /\ signals \in 0..MaxSignals

-----------------------------------------------------------------------------
(* What the supervisor owes the panels.                                    *)

\* No panel is slept and closed twice, whichever calls of stop(), apply() and a
\* failed start meet over it: a second close writes to a torn-down device.
ShutOnce == \A s \in Slot : closes[s] <= 1

\* When the process ends no panel is lit, however many were being opened,
\* probed, replaced or applied when the signals came.
NoneLit == stack["main"] = <<>> => \A s \in Slot : closes[s] > 0

\* Nobody is inside a call that moves panels.
Settled ==
  /\ stack["link"] = <<>> /\ ~stopped
  /\ stack["main"] # <<>> /\ Top("main").op = "run" /\ Top("main").at = "loop"

Shows(x) == {s \in slots : screen[s] = x}

\* Between calls, a rack with screens of one configuration only: each slot shows
\* a screen of the configuration that is claimed, and each of its screens is
\* reported unavailable or has the one slot and a worker.
Coherent ==
  Settled =>
    /\ \A s \in slots : screen[s] \in config.screens /\ worker[s] # None
    /\ \A x \in config.screens : Cardinality(Shows(x)) = IF x \in unavailable THEN 0 ELSE 1
    /\ held = {}

\* The devices that are open, or that a thread has begun to open.
Lit(s) == closes[s] = 0
Opens(t) == IF \E i \in DOMAIN stack[t] : stack[t][i].at = "init"
              THEN {(CHOOSE f \in {stack[t][i] : i \in DOMAIN stack[t]} : f.at = "init").screen}
              ELSE {}

\* No device is opened while a panel on it is open, by a push that moved a
\* screen or by a probe: two panels would write to the one chip.
OneOpenPerDevice ==
  /\ \A s, o \in Slot : Lit(s) /\ Lit(o) /\ screen[s].device = screen[o].device => s = o
  /\ \A t \in Thread : \A x \in Opens(t) : \A s \in Slot : Lit(s) => screen[s].device # x.device

WritingOn(w, x) == doing[w] = "writing" /\ BusOf(screen[on[w]]) = BusOf(x)

\* While a device is being opened, no worker that a slot knows of is writing on
\* its bus: the init sequence would come out as unconfigured RAM.
OpenGuarded ==
  \A t \in Thread : \A x \in Opens(t) :
    \A s \in slots : worker[s] # None => ~WritingOn(worker[s], x)

\* The same of every worker, the retired and the replaced ones too, as
\* _off_the_bus says: "a revoked _Panel forwards nothing and the thread cannot
\* reach the wire however wedged it is".
OpensAlone == \A t \in Thread : \A x \in Opens(t) : \A w \in Worker : ~WritingOn(w, x)

\* However often the watchdog has given a slot a new worker, at most one of them
\* can still put a frame on its panel.
OneDrawer ==
  \A v, w \in Worker :
    /\ doing[v] # "done" /\ doing[w] # "done" /\ on[v] = on[w]
    /\ <<on[v], by[v]>> \in live /\ <<on[w], by[w]>> \in live
    => v = w

\* A rack told to stop ends, by whatever thread and in the middle of whatever
\* call it was told, with workers wedged on their panels or not.
Stops == stopped ~> (stack["main"] = <<>>)

=============================================================================
