------------------------------ MODULE Tunnels ------------------------------
(***************************************************************************)
(* A tunnel to a cluster (daemon/src/ors_daemon/tunnel.py): one kubectl    *)
(* port-forward, which the tunnel's thread launches, probes and relaunches.*)
(* When the configuration moves, the supervisor retires the tunnel to the  *)
(* reaper and starts another on the same local port; when the rack stops,  *)
(* it shuts the current one down.  So three threads may end a process.     *)
(***************************************************************************)
EXTENDS Naturals, Sequences, FiniteSets

CONSTANTS
  Tunnel,          \* the tunnels started, one after another
  Process,         \* kubectl processes: bounds those in use at once
  Reaper, Stopper, \* the threads that shut a tunnel down besides its own
  None,
  MaxFaults        \* bound: processes that fail, probes and starts that do

ASSUME EnderAssumption == Reaper \notin Tunnel /\ Stopper \notin Tunnel /\ Reaper # Stopper
ASSUME NoneAssumption == None \notin Process
ASSUME FaultsAssumption == MaxFaults \in Nat

Ender == Tunnel \cup {Reaper, Stopper}

\* _FAILURES_BEFORE_RELAUNCH
FailuresBeforeRelaunch == 2

VARIABLES
  thread,    \* where each tunnel's thread is
  stop,      \* the stop event of each tunnel's source
  process,   \* Tunnel._process
  failures,  \* Tunnel._failures
  hand,      \* the process an ender has taken, or a tunnel has just launched
  current,   \* the tunnel of the configured source
  retired,   \* the reaper's queue
  closed,    \* whether the rack is stopping
  alive,     \* the processes that run
  of,        \* the tunnel each of them was launched by
  signalled, \* those of them that were sent a signal they will die of
  port,      \* the process that listens on the local port
  faults

kubectl == <<alive, of, signalled, port>>
supervisor == <<current, retired, closed>>
vars == <<thread, stop, process, failures, hand, supervisor, kubectl, faults>>

Fault == faults < MaxFaults /\ faults' = faults + 1

-----------------------------------------------------------------------------
(* Ending a process: _kill.                                                *)

\* Its first line, a swap: of two who take a process, one gets it.
Take(e, t) ==
  /\ hand' = [hand EXCEPT ![e] = process[t]]
  /\ process' = [process EXCEPT ![t] = None]

\* SIGTERM, then SIGKILL.
Signal(e) ==
  /\ thread[e] \in {"killing", "leaving"}
  /\ hand[e] \in alive \ signalled
  /\ signalled' = signalled \cup {hand[e]}
  /\ UNCHANGED <<thread, stop, process, failures, hand, supervisor, alive, of, port, faults>>

\* Faulty Ended: Popen.kill is not followed by a wait.
EndedBySignal(e) == hand[e] \in signalled \/ hand[e] \notin alive

\* It is waited for: by its own tunnel until it has exited, by the others for
\* what is left of their budget.
Ended(e) == hand[e] \notin alive \/ (e \notin Tunnel /\ hand[e] \in signalled)

\* After which a tunnel starts again or leaves, and the others are done.
KillReturns(e) ==
  /\ thread[e] \in {"killing", "leaving"} /\ Ended(e)
  /\ hand' = [hand EXCEPT ![e] = None]
  /\ thread' = [thread EXCEPT ![e] = IF e \notin Tunnel THEN "idle"
                                     ELSE IF @ = "killing" THEN "starting" ELSE "out"]
  /\ UNCHANGED <<stop, process, failures, supervisor, kubectl, faults>>

-----------------------------------------------------------------------------
(* A tunnel's thread: run and tick.                                        *)

\* Faulty Cycle: a tunnel that forwards goes on.
CycleWhileForwarding(t) == thread[t] = "idle" /\ (stop[t] => process[t] # None)

\* Between two cycles, and not told to leave.
Cycle(t) == thread[t] = "idle" /\ ~stop[t]

\* No process, or one that has exited: ended all the same, and launched again.
TickRelaunches(t) ==
  /\ Cycle(t) /\ process[t] \notin alive
  /\ Take(t, t)
  /\ thread' = [thread EXCEPT ![t] = "killing"]
  /\ UNCHANGED <<stop, failures, supervisor, kubectl, faults>>

TickProbes(t) ==
  /\ Cycle(t) /\ process[t] \in alive
  /\ thread' = [thread EXCEPT ![t] = "probing"]
  /\ UNCHANGED <<stop, process, failures, hand, supervisor, kubectl, faults>>

\* Whoever listens on the port answers.
ProbeAnswers(t) ==
  /\ thread[t] = "probing" /\ port # None
  /\ thread' = [thread EXCEPT ![t] = "idle"]
  /\ failures' = [failures EXCEPT ![t] = 0]
  /\ UNCHANGED <<stop, process, hand, supervisor, kubectl, faults>>

\* Faulty Wedged: one probe too many.
WedgedLate(t) == failures[t] >= FailuresBeforeRelaunch

\* Whether this failure is the one to relaunch after.
Wedged(t) == failures[t] + 1 >= FailuresBeforeRelaunch

\* The process has just exited; or a tunnel is dead under one that runs, or it
\* is slow to listen.
ProbeFails(t) ==
  /\ thread[t] = "probing"
  /\ IF port = None /\ process[t] \notin alive THEN UNCHANGED faults ELSE Fault
  /\ IF Wedged(t)
     THEN /\ Take(t, t)
          /\ thread' = [thread EXCEPT ![t] = "killing"]
          /\ failures' = [failures EXCEPT ![t] = 0]
     ELSE /\ thread' = [thread EXCEPT ![t] = "idle"]
          /\ failures' = [failures EXCEPT ![t] = @ + 1]
          /\ UNCHANGED <<process, hand>>
  /\ UNCHANGED <<stop, supervisor, kubectl>>

\* _start without a service, or without a process.
NotStarted(t) ==
  /\ thread[t] = "starting"
  /\ Fault
  /\ thread' = [thread EXCEPT ![t] = "idle"]
  /\ UNCHANGED <<stop, process, failures, hand, supervisor, kubectl>>

\* Which of the unused names a process has makes no difference.
InUse == alive \cup {process[t] : t \in Tunnel} \cup {hand[e] : e \in Ender}

Launch(t) ==
  /\ thread[t] = "starting"
  /\ Process \ InUse # {}
  /\ LET p == CHOOSE p \in Process \ InUse : TRUE
     IN  /\ hand' = [hand EXCEPT ![t] = p]
         /\ alive' = alive \cup {p}
         /\ of' = [of EXCEPT ![p] = t]
  /\ thread' = [thread EXCEPT ![t] = "launched"]
  /\ UNCHANGED <<stop, process, failures, supervisor, signalled, port, faults>>

\* Only now can anybody else take it.
Launched(t) ==
  /\ thread[t] = "launched"
  /\ process' = [process EXCEPT ![t] = hand[t]]
  /\ hand' = [hand EXCEPT ![t] = None]
  /\ thread' = [thread EXCEPT ![t] = "idle"]
  /\ UNCHANGED <<stop, failures, supervisor, kubectl, faults>>

\* Faulty Leave: whoever stopped it is trusted to have ended the process.
LeaveAtOnce(t) ==
  /\ thread' = [thread EXCEPT ![t] = "out"]
  /\ UNCHANGED <<process, hand>>

\* The `finally` of run.
Leave(t) ==
  /\ thread' = [thread EXCEPT ![t] = "leaving"]
  /\ Take(t, t)

RunEnds(t) ==
  /\ thread[t] = "idle" /\ stop[t]
  /\ Leave(t)
  /\ UNCHANGED <<stop, failures, supervisor, kubectl, faults>>

-----------------------------------------------------------------------------
(* The supervisor and the reaper.                                          *)

\* The stop event, before anything is waited for.
Told(t) == [stop EXCEPT ![t] = TRUE]

\* _reconfigure_integrations: the tunnel of a source that moved, and the next.
Move ==
  /\ ~closed
  /\ \E next \in {t \in Tunnel : thread[t] = "none"} :
       /\ current' = next
       /\ thread' = [thread EXCEPT ![next] = "idle"]
  /\ stop' = Told(current)
  /\ retired' = Append(retired, current)
  /\ UNCHANGED <<process, failures, hand, closed, kubectl, faults>>

\* _Reaper._reap: shutdown, on this thread.
Reap ==
  /\ thread[Reaper] = "idle" /\ retired # <<>>
  /\ Take(Reaper, Head(retired))
  /\ thread' = [thread EXCEPT ![Reaper] = "killing"]
  /\ retired' = Tail(retired)
  /\ UNCHANGED <<stop, failures, current, closed, kubectl, faults>>

\* Supervisor.stop sets the event of every source that is configured.
Stop ==
  /\ ~closed
  /\ closed' = TRUE
  /\ stop' = Told(current)
  /\ UNCHANGED <<thread, process, failures, hand, current, retired, kubectl, faults>>

\* And shuts their tunnels down, at each of its calls.
StopTakes ==
  /\ closed
  /\ thread[Stopper] = "idle" /\ process[current] # None
  /\ Take(Stopper, current)
  /\ thread' = [thread EXCEPT ![Stopper] = "killing"]
  /\ UNCHANGED <<stop, failures, supervisor, kubectl, faults>>

-----------------------------------------------------------------------------
(* kubectl: external, as tunnel.py takes it to behave.                     *)

Exits(p) ==
  /\ alive' = alive \ {p}
  /\ port' = IF port = p THEN None ELSE port
  /\ of' = [of EXCEPT ![p] = None]
  /\ signalled' = signalled \ {p}
  /\ UNCHANGED <<thread, stop, process, failures, hand, supervisor>>

\* The local port is there for one of them; the others exit.
Listen(p) ==
  /\ p \in alive \ {port}
  /\ IF port = None
     THEN /\ port' = p
          /\ UNCHANGED <<thread, stop, process, failures, hand, supervisor, alive, of, signalled>>
     ELSE Exits(p)
  /\ UNCHANGED faults

Obey(p) == p \in alive \cap signalled /\ Exits(p) /\ UNCHANGED faults
Fail(p) == p \in alive /\ Fault /\ Exits(p)

-----------------------------------------------------------------------------
Init ==
  /\ current \in Tunnel
  /\ thread = [e \in Ender |-> IF e \in Tunnel \ {current} THEN "none" ELSE "idle"]
  /\ stop = [t \in Tunnel |-> FALSE]
  /\ process = [t \in Tunnel |-> None] /\ failures = [t \in Tunnel |-> 0]
  /\ hand = [e \in Ender |-> None]
  /\ retired = <<>> /\ closed = FALSE
  /\ alive = {} /\ of = [p \in Process |-> None] /\ signalled = {} /\ port = None
  /\ faults = 0

TunnelStep(t) ==
  \/ Signal(t) \/ KillReturns(t)
  \/ TickRelaunches(t) \/ TickProbes(t) \/ ProbeAnswers(t) \/ ProbeFails(t)
  \/ NotStarted(t) \/ Launch(t) \/ Launched(t) \/ RunEnds(t)
ReaperStep == Signal(Reaper) \/ KillReturns(Reaper) \/ Reap
StopperStep == Signal(Stopper) \/ KillReturns(Stopper)
ProcessStep(p) == Listen(p) \/ Obey(p)

Next ==
  \/ \E t \in Tunnel : TunnelStep(t)
  \/ ReaperStep \/ StopperStep \/ StopTakes
  \/ \E p \in Process : ProcessStep(p) \/ Fail(p)
  \/ Move \/ Stop

Spec == Init /\ [][Next]_vars

(* Threads and processes run.  Nothing has to fail, nobody has to edit the   *)
(* configuration or stop the rack, and stop need not shut the tunnel down.   *)
FairSpec ==
  /\ Spec
  /\ \A t \in Tunnel : WF_vars(TunnelStep(t))
  /\ WF_vars(ReaperStep) /\ WF_vars(StopperStep)
  /\ \A p \in Process : WF_vars(ProcessStep(p))

-----------------------------------------------------------------------------
\* Every thread is where its code can be, and refers to processes or to nothing.
TypeOK ==
  /\ thread \in [Ender -> {"none", "idle", "killing", "starting", "launched", "probing",
                           "leaving", "out"}]
  /\ stop \in [Tunnel -> BOOLEAN] /\ process \in [Tunnel -> Process \cup {None}]
  /\ failures \in [Tunnel -> 0..FailuresBeforeRelaunch - 1]
  /\ hand \in [Ender -> Process \cup {None}]
  /\ current \in Tunnel /\ retired \in Seq(Tunnel) /\ closed \in BOOLEAN
  /\ alive \subseteq Process /\ of \in [Process -> Tunnel \cup {None}]
  /\ signalled \subseteq Process /\ port \in alive \cup {None}
  /\ faults \in 0..MaxFaults

\* Every process that runs was sent its signal, or is held by a thread that will
\* send it: that of its tunnel, the reaper's or the one in stop, whichever of
\* them took it and whenever it was launched.  No order of a launch and the
\* shutdowns leaves a kubectl behind (tunnel._kill, _start, run).
NoOrphan ==
  \A p \in alive :
    \/ p \in signalled
    \/ thread[of[p]] # "out" /\ p \in {process[of[p]], hand[of[p]]}
    \/ p \in {hand[Reaper], hand[Stopper]}

\* A tunnel that is not told to leave never launches beside a process of its own
\* that still runs: "the relaunch can race the dying process for the local port
\* and lose" (tunnel._kill).
OneForward ==
  \A t \in Tunnel : ~stop[t] => Cardinality({p \in alive : of[p] = t}) <= 1

\* A tunnel that was told to leave leaves, with its processes; and once nothing
\* fails any more, the local port is held by the tunnel of the configuration
\* that runs, however many of its processes lost it to the tunnel before it
\* (tunnel.run, tunnel.tick).
Settles ==
  <>[](/\ \A t \in Tunnel : stop[t] => thread[t] = "out" /\ \A p \in alive : of[p] # t
       /\ ~closed => port # None /\ of[port] = current)

=============================================================================
