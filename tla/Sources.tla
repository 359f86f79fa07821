------------------------------ MODULE Sources ------------------------------
(***************************************************************************)
(* Where a rack's readings come from and where they go (daemon/src/        *)
(* ors_daemon): the integrations a configuration names, each with its      *)
(* poller (supervisor, poller), the reaper that waits for the retired ones *)
(* (supervisor), the store the pollers publish to (snapshot), and the      *)
(* screen workers that wait on it (screen).                                *)
(*                                                                         *)
(* A source's tunnel is the Tunnels module's, and the panel the Supervisor *)
(* module's.  A source is numbered as it is started.  Readings are         *)
(* abstracted to the version of the store they made, and scenes to the     *)
(* three a worker chooses between.                                         *)
(***************************************************************************)
EXTENDS Integers, Sequences, FiniteSets

CONSTANTS
  Name, Screen,
  None,
  StaleAfter,  \* SnapshotStore.stale_after
  MaxSources,  \* bound: sources started
  MaxEdits,    \* bound: configurations applied
  MaxVersion,  \* bound: readings published
  MaxRefusals  \* bound: commands a panel refuses, below _MAX_DISPLAY_RETRIES

ASSUME BoundsAssumption ==
  /\ StaleAfter \in Nat \ {0}
  /\ {MaxSources, MaxEdits, MaxVersion} \subseteq Nat
  /\ MaxRefusals \in 0..2
ASSUME NameAssumption == IsFiniteSet(Name) /\ Cardinality(Name) <= MaxSources

Source == 1..MaxSources

VARIABLES
  \* SnapshotStore: the health of each name it knows, its version, closed.
  health, version, closed,
  \* Supervisor._sources by name; of each source its name, its stop event, its
  \* poller's thread.
  running, named, stop, poller,
  \* The reaper: whether its thread was started, its queue, what it is reaping,
  \* the sources it gave up on, and those it was never handed.
  reaperUp, queue, reaping, abandoned, unreaped,
  \* Each screen's worker: where its thread is, its stop event, the snapshot it
  \* has read, the version and the scene behind what is on the glass.
  worker, retired, read, seen, glass,
  \* Whether a stop event of a worker is set and the store not yet woken.
  waking,
  edits, refusals

store == <<health, version, closed>>
sources == <<running, named, stop, poller>>
reaper == <<reaperUp, queue, reaping, abandoned, unreaped>>
workers == <<worker, retired, read, seen, glass, waking>>
vars == <<store, sources, reaper, workers, edits, refusals>>

-----------------------------------------------------------------------------
\* IntegrationHealth: whether it ever succeeded, and failures since.
Health == [ever : BOOLEAN, failures : 0..StaleAfter]
NeverAnswered == [ever |-> FALSE, failures |-> 0]
Connecting(h) == h = None \/ ~h.ever
Stale(h) == h # None /\ h.failures = StaleAfter

\* ScreenWorker._select: connecting outranks stale.
Selected(h) ==
  IF \E n \in Name : Connecting(h[n]) THEN "connecting"
  ELSE IF \E n \in Name : Stale(h[n]) THEN "stale"
  ELSE "scene"

Registered(n) == [health EXCEPT ![n] = IF @ = None THEN NeverAnswered ELSE @]

\* SnapshotStore.wait_for_change: what releases worker w, of a store at
\* version v.
Released(w, v) == v # seen[w] \/ closed \/ retired[w]

\* notify_all: whoever waits tests that again.
Notified(v) == [w \in Screen |-> IF worker[w] = "parked" /\ Released(w, v) THEN "awake" ELSE worker[w]]

\* What the reaper is handed.
Retirement == [source : Source, drop : BOOLEAN]

ASSUME NoneAssumption == None \notin Name \cup Nat \cup Health \cup Retirement

-----------------------------------------------------------------------------
(* Pollers.                                                                *)

\* Between two laps: Poller.run.
PollBegins(i) ==
  /\ poller[i] = "sleeping" /\ ~stop[i]
  /\ poller' = [poller EXCEPT ![i] = "polling"]
  /\ UNCHANGED <<store, running, named, stop, reaper, workers, edits, refusals>>

\* SnapshotStore.put, whether or not the source was retired meanwhile.
Publish(i) ==
  /\ poller[i] = "polling"
  /\ version < MaxVersion
  /\ poller' = [poller EXCEPT ![i] = "sleeping"]
  /\ health' = [health EXCEPT ![named[i]] = [ever |-> TRUE, failures |-> 0]]
  /\ version' = version + 1
  /\ worker' = Notified(version + 1)
  /\ UNCHANGED <<closed, running, named, stop, reaper, retired, read, seen, glass,
                 waking, edits, refusals>>

\* SnapshotStore.fail: no version, and nobody is woken.
FailPoll(i) ==
  /\ poller[i] = "polling"
  /\ poller' = [poller EXCEPT ![i] = "sleeping"]
  /\ health' = LET known == Registered(named[i])
               IN  [known EXCEPT ![named[i]].failures = IF @ < StaleAfter THEN @ + 1 ELSE @]
  /\ UNCHANGED <<version, closed, running, named, stop, reaper, workers, edits, refusals>>

PollerEnds(i) ==
  /\ poller[i] = "sleeping" /\ stop[i]
  /\ poller' = [poller EXCEPT ![i] = "out"]
  /\ UNCHANGED <<store, running, named, stop, reaper, workers, edits, refusals>>

-----------------------------------------------------------------------------
(* The reaper.                                                             *)

\* _Reaper.run.  The tunnel comes first, then the wait for the poller.
Reap ==
  /\ reaping = None /\ queue # <<>>
  /\ reaping' = Head(queue)
  /\ queue' = Tail(queue)
  /\ UNCHANGED <<store, sources, reaperUp, abandoned, unreaped, workers, edits, refusals>>

\* Faulty Forgotten: the poller is not waited for.
ForgottenAtOnce == TRUE

\* What lets the reaper forget the name: the poller is gone.
Forgotten == poller[reaping.source] \in {"none", "out"}

\* SnapshotStore.unregister, when the name is configured no more.
Reaped ==
  /\ reaping # None
  /\ Forgotten
  /\ health' = IF reaping.drop THEN [health EXCEPT ![named[reaping.source]] = None] ELSE health
  /\ reaping' = None
  /\ UNCHANGED <<version, closed, sources, reaperUp, queue, abandoned, unreaped, workers,
                 edits, refusals>>

\* SOURCE_TEARDOWN_BUDGET is spent and the poller still polls: its health stays.
ReapGivesUp ==
  /\ reaping # None
  /\ poller[reaping.source] = "polling"
  /\ reaping' = None
  /\ abandoned' = abandoned \cup {reaping.source}
  /\ UNCHANGED <<store, sources, reaperUp, queue, unreaped, workers, edits, refusals>>

-----------------------------------------------------------------------------
(* Supervisor.apply and stop.                                              *)

Started == {i \in Source : named[i] # None}
NextSource == Cardinality(Started) + 1

\* An apply that dropped a source still has the screens that show it to retire.
Applying == (\E n \in Name : running[n] = None) /\ \E w \in Screen : ~retired[w]

\* Under _shutdown_lock: no apply and no stop starts within another apply.
Unlocked == ~Applying /\ ~waking /\ ~closed
Edit == Unlocked /\ edits < MaxEdits /\ edits' = edits + 1

\* Faulty Handed: once for its poller and once for its tunnel.
HandedTwice(item) == queue \o <<item, item>>

\* _Reaper.retire.
Handed(item) == Append(queue, item)

\* _start_reaper, then _Reaper.retire: the first that needs it starts the thread.
HandOver(n, drop) ==
  /\ reaperUp' = TRUE
  /\ queue' = Handed([source |-> running[n], drop |-> drop])
  /\ UNCHANGED unreaped

\* _start_reaper was refused its thread: the next retirement tries again.
NoReaper(n) ==
  /\ ~reaperUp
  /\ unreaped' = unreaped \cup {running[n]}
  /\ UNCHANGED <<reaperUp, queue>>

\* _retire_source: told to leave whether or not anybody waits for it.
Retire(n, drop) ==
  /\ stop' = [stop EXCEPT ![running[n]] = TRUE]
  /\ HandOver(n, drop) \/ NoReaper(n)

\* _start_integration: its name is registered before it polls.  One whose
\* poller could not be started has none, and stays.
Start(n) ==
  /\ NextSource \in Source
  /\ health' = Registered(n)
  /\ running' = [running EXCEPT ![n] = NextSource]
  /\ named' = [named EXCEPT ![NextSource] = n]
  /\ \E thread \in {"sleeping", "none"} : poller' = [poller EXCEPT ![NextSource] = thread]

AddSource(n) ==
  /\ Edit
  /\ running[n] = None
  /\ Start(n)
  /\ UNCHANGED <<version, closed, stop, reaper, workers, refusals>>

\* A source whose configuration moved is a removal and an addition.
MoveSource(n) ==
  /\ Edit
  /\ running[n] # None
  /\ Retire(n, FALSE)
  /\ Start(n)
  /\ UNCHANGED <<version, closed, reaping, abandoned,
                 workers, refusals>>

RemoveSource(n) ==
  /\ Edit
  /\ running[n] # None
  /\ Retire(n, TRUE)
  /\ running' = [running EXCEPT ![n] = None]
  /\ UNCHANGED <<store, named, poller, reaping, abandoned, workers,
                 refusals>>

\* Supervisor._retire: the events first, the notification after them.
RetireWorkers(ws) ==
  /\ retired' = [w \in Screen |-> retired[w] \/ w \in ws]
  /\ waking' = TRUE
  /\ UNCHANGED <<store, sources, reaper, worker, read, seen, glass, refusals>>

RetireScreen(w) == Edit /\ ~retired[w] /\ RetireWorkers({w})
RetireOrphans == Applying /\ RetireWorkers(Screen) /\ UNCHANGED edits

Wake ==
  /\ waking
  /\ waking' = FALSE
  /\ worker' = Notified(version)
  /\ UNCHANGED <<store, sources, reaper, retired, read, seen, glass, edits, refusals>>

\* A new worker, on a panel that shows nothing yet.
StartScreen(w) ==
  /\ Edit
  /\ worker[w] = "out" /\ \A n \in Name : running[n] # None
  /\ worker' = [worker EXCEPT ![w] = "awake"]
  /\ retired' = [retired EXCEPT ![w] = FALSE]
  /\ seen' = [seen EXCEPT ![w] = -1]
  /\ glass' = [glass EXCEPT ![w] = "none"]
  /\ UNCHANGED <<store, sources, reaper, read, waking, refusals>>

\* Faulty SourcesStopped: only the event that is the rack's.
SourcesStoppedNone == {}

\* The sources a stop tells to leave.
SourcesStopped == {running[n] : n \in Name}

\* Supervisor.stop: every event, and the store closed.
Stop ==
  /\ Unlocked
  /\ stop' = [i \in Source |-> stop[i] \/ i \in SourcesStopped]
  /\ retired' = [w \in Screen |-> TRUE]
  /\ closed' = TRUE
  /\ worker' = [w \in Screen |-> IF worker[w] = "parked" THEN "awake" ELSE worker[w]]
  /\ UNCHANGED <<health, version, running, named, poller, reaper, read, seen, glass,
                 waking, edits, refusals>>

-----------------------------------------------------------------------------
(* Screen workers.                                                         *)

\* tick, up to the read of the store.
ReadStore(w) ==
  /\ worker[w] = "awake" /\ ~retired[w] /\ ~closed
  /\ worker' = [worker EXCEPT ![w] = "reading"]
  /\ read' = [read EXCEPT ![w] = [version |-> version, scene |-> Selected(health)]]
  /\ UNCHANGED <<store, sources, reaper, retired, seen, glass, waking, edits, refusals>>

\* Faulty SeenBy: what the store is at by then is taken as drawn.
SeenByNow(w) == version

\* The version that was read, which the store may have left since.
SeenBy(w) == read[w].version

\* _should_render and _render_and_show.  A frame the panel refuses leaves what
\* was there, and the scene behind it; the floor is long enough or not.
Draw(w) ==
  /\ worker[w] = "reading"
  /\ worker' = [worker EXCEPT ![w] = "waiting"]
  /\ seen' = [seen EXCEPT ![w] = SeenBy(w)]
  /\ \/ glass' = [glass EXCEPT ![w] = read[w].scene] /\ UNCHANGED refusals
     \/ refusals < MaxRefusals /\ refusals' = refusals + 1 /\ UNCHANGED glass
  /\ UNCHANGED <<store, sources, reaper, retired, read, waking, edits>>

\* _wait: parked in the store, unless there is something to do already.
Park(w) ==
  /\ worker[w] = "waiting"
  /\ worker' = [worker EXCEPT ![w] = IF Released(w, version) THEN "awake" ELSE "parked"]
  /\ UNCHANGED <<store, sources, reaper, retired, read, seen, glass, waking, edits,
                 refusals>>

\* Faulty Due: nothing but the store wakes a worker.
DueOnNews(w) == Released(w, version)

\* The floor wakes it whatever the store says.
Due(w) == worker[w] = "parked"

Floor(w) ==
  /\ worker[w] = "parked" /\ Due(w)
  /\ worker' = [worker EXCEPT ![w] = "awake"]
  /\ UNCHANGED <<store, sources, reaper, retired, read, seen, glass, waking, edits,
                 refusals>>

Leave(w) ==
  /\ worker[w] = "awake" /\ (retired[w] \/ closed)
  /\ worker' = [worker EXCEPT ![w] = "out"]
  /\ UNCHANGED <<store, sources, reaper, retired, read, seen, glass, waking, edits,
                 refusals>>

-----------------------------------------------------------------------------
\* A rack that booted with every name configured.
Init ==
  LET first == CHOOSE f \in [Name -> 1..Cardinality(Name)] :
                 \A m, n \in Name : m # n => f[m] # f[n]
  IN  /\ health = [n \in Name |-> NeverAnswered] /\ version = 0 /\ closed = FALSE
      /\ running = first
      /\ named = [i \in Source |-> IF i \in 1..Cardinality(Name)
                                   THEN CHOOSE n \in Name : first[n] = i ELSE None]
      /\ stop = [i \in Source |-> FALSE]
      /\ poller = [i \in Source |-> IF named[i] # None THEN "sleeping" ELSE "none"]
      /\ reaperUp = FALSE /\ queue = <<>> /\ reaping = None
      /\ abandoned = {} /\ unreaped = {}
      /\ worker = [w \in Screen |-> "awake"] /\ retired = [w \in Screen |-> FALSE]
      /\ read = [w \in Screen |-> [version |-> -1, scene |-> "none"]]
      /\ seen = [w \in Screen |-> -1] /\ glass = [w \in Screen |-> "none"]
      /\ waking = FALSE /\ edits = 0 /\ refusals = 0

PollStep(i) == PollBegins(i) \/ Publish(i) \/ FailPoll(i) \/ PollerEnds(i)
ReaperStep == Reap \/ Reaped \/ ReapGivesUp
WorkerStep(w) == ReadStore(w) \/ Draw(w) \/ Park(w) \/ Floor(w) \/ Leave(w)
ApplyEnds == RetireOrphans \/ Wake

Next ==
  \/ \E i \in Source : PollStep(i)
  \/ \E n \in Name : AddSource(n) \/ MoveSource(n) \/ RemoveSource(n)
  \/ \E w \in Screen : WorkerStep(w) \/ RetireScreen(w) \/ StartScreen(w)
  \/ ReaperStep \/ ApplyEnds \/ Stop

Spec == Init /\ [][Next]_vars

(* Every thread runs: a poll ends, an apply in hand finishes, the floor      *)
(* passes.  Nobody has to edit the configuration or to stop the rack.        *)
FairSpec ==
  /\ Spec
  /\ \A i \in Source : WF_vars(PollStep(i))
  /\ WF_vars(ReaperStep) /\ WF_vars(ApplyEnds)
  /\ \A w \in Screen : WF_vars(WorkerStep(w))

-----------------------------------------------------------------------------
Scene == {"connecting", "stale", "scene"}

\* Every thread is where its code can be, and every number within its bound.
TypeOK ==
  /\ health \in [Name -> Health \cup {None}]
  /\ version \in 0..MaxVersion /\ closed \in BOOLEAN
  /\ running \in [Name -> Source \cup {None}]
  /\ named \in [Source -> Name \cup {None}] /\ stop \in [Source -> BOOLEAN]
  /\ poller \in [Source -> {"none", "sleeping", "polling", "out"}]
  /\ queue \in Seq(Retirement) /\ Len(queue) <= Cardinality(Started)
  /\ reaping = None \/ reaping \in Retirement
  /\ reaperUp \in BOOLEAN /\ {abandoned, unreaped} \subseteq SUBSET Source
  /\ worker \in [Screen -> {"awake", "reading", "waiting", "parked", "out"}]
  /\ retired \in [Screen -> BOOLEAN] /\ waking \in BOOLEAN
  /\ read \in [Screen -> [version : -1..MaxVersion, scene : Scene \cup {"none"}]]
  /\ seen \in [Screen -> -1..MaxVersion]
  /\ glass \in [Screen -> Scene \cup {"none"}]
  /\ edits \in 0..MaxEdits /\ refusals \in 0..MaxRefusals

\* A worker parked in the store has drawn from the readings the store holds, and
\* is neither retired nor on a closed store, or a notification is on its way: no
\* reading published between a worker's read and its wait, and no retirement, is
\* slept through (snapshot.wait_for_change, screen._wait, supervisor._retire).
NothingUnseen ==
  \A w \in Screen :
    worker[w] = "parked" => waking \/ (read[w].version = version /\ ~closed /\ ~retired[w])

\* A name the store has forgotten comes back only when it is configured, while
\* its own removal is still to be reaped, or by a last poll of a source the
\* reaper gave up on or, its thread refused, was never handed: whoever else has
\* a reading in hand is waited for before the name goes
\* (supervisor._Reaper._reap, supervisor._retire_source).
StaysForgotten ==
  [][\A n \in Name :
       health[n] = None /\ health'[n] # None =>
         \/ running'[n] # None
         \/ \E i \in abandoned \cup unreaped : named[i] = n /\ poller[i] = "polling"
         \/ \E item \in {queue[k] : k \in 1..Len(queue)} \cup ({reaping} \ {None}) :
              item.drop /\ named[item.source] = n]_vars

\* A screen that is not retired ends up showing what the health of its sources
\* selects: also when the change was a failure, which wakes nobody
\* (snapshot.fail, screen._wait).
Settles == <>[](\A w \in Screen : retired[w] \/ glass[w] = Selected(health))

\* Whatever was told to leave leaves: the poller of a retired source, the
\* worker of a retired screen, and what the reaper was handed, also the poller
\* nobody waits for (supervisor.stop, supervisor._retire_source).
RetiredLeave ==
  <>[](/\ \A i \in Source : stop[i] \/ closed => poller[i] \in {"none", "out"}
       /\ \A w \in Screen : retired[w] => worker[w] = "out"
       /\ queue = <<>> /\ reaping = None)

\* A source that runs has an entry in the store: "the status file would
\* otherwise lose the entry the new poller has just registered"
\* (supervisor._Reaper.retire).
KnownWhileRunning == \A n \in Name : running[n] # None => health[n] # None

=============================================================================
