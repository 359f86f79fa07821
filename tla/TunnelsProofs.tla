--------------------------- MODULE TunnelsProofs ---------------------------
(***************************************************************************)
(* No kubectl is left behind, and no tunnel runs two.  Both are about what *)
(* every thread that may end a process has in hand (Holders).              *)
(***************************************************************************)
EXTENDS Tunnels, FiniteSetTheorems, TLAPS

-----------------------------------------------------------------------------
(* The invariant.                                                          *)

\* A thread has a process in hand only between taking and having ended it, or
\* between launching and having stored it; and a tunnel's process is stored only
\* while its thread is between two launches.  So neither is ever overwritten.
Holders ==
  /\ \A e \in Ender : thread[e] \notin {"killing", "launched", "leaving"} => hand[e] = None
  /\ \A t \in Tunnel : thread[t] \notin {"idle", "probing"} => process[t] = None

\* Whatever runs was launched by a tunnel.
Launchers == \A p \in alive : of[p] \in Tunnel

\* Only a tunnel that was told to leave is given to somebody else.
ToldFirst ==
  /\ \A i \in 1..Len(retired) : stop[retired[i]]
  /\ closed => stop[current]

\* A tunnel that was not has whatever it launched.
Owned ==
  \A t \in Tunnel : ~stop[t] => \A p \in alive : of[p] = t => p \in {process[t], hand[t]}

TunnelInv == TypeOK /\ Holders /\ Launchers /\ ToldFirst /\ Owned /\ NoOrphan

-----------------------------------------------------------------------------
(* The steps, and what they leave alone.                                   *)

\* Whoever ends a process, it does so in the same two steps.
LEMMA Steps ==
  ASSUME Next
  PROVE  \/ \E e \in Ender : Signal(e) \/ KillReturns(e)
         \/ \E t \in Tunnel : TickRelaunches(t) \/ TickProbes(t) \/ ProbeAnswers(t)
                             \/ ProbeFails(t) \/ NotStarted(t) \/ Launch(t) \/ Launched(t)
                             \/ RunEnds(t)
         \/ Reap \/ StopTakes \/ Move \/ Stop
         \/ \E p \in Process : Listen(p) \/ Obey(p) \/ Fail(p)
BY DEF Next, TunnelStep, ReaperStep, StopperStep, ProcessStep, Ender

LEMMA Taken ==
  ASSUME TypeOK, NEW e \in Ender, NEW t \in Tunnel, Take(e, t)
  PROVE  /\ hand' \in [Ender -> Process \cup {None}]
         /\ process' \in [Tunnel -> Process \cup {None}]
         /\ hand'[e] = process[t] /\ process'[t] = None
         /\ \A x \in Ender \ {e} : hand'[x] = hand[x]
         /\ \A x \in Tunnel \ {t} : process'[x] = process[x]
BY DEF TypeOK, Take

\* A tunnel's thread that sets about ending its process.
LEMMA TakenByItself ==
  ASSUME TypeOK, NEW t \in Tunnel, TickRelaunches(t) \/ RunEnds(t) \/ (ProbeFails(t) /\ Wedged(t))
  PROVE  /\ t \in Ender /\ Take(t, t) /\ thread[t] \in {"idle", "probing"}
         /\ thread'[t] \in {"killing", "leaving"}
         /\ \A x \in Ender \ {t} : thread'[x] = thread[x]
         /\ hand'[t] = process[t] /\ process'[t] = None
         /\ \A x \in Ender \ {t} : hand'[x] = hand[x]
         /\ \A x \in Tunnel \ {t} : process'[x] = process[x]
         /\ UNCHANGED <<stop, supervisor, kubectl>>
<1>1. t \in Ender /\ Take(t, t)
  BY DEF TickRelaunches, RunEnds, Leave, ProbeFails, Ender
<1>2. /\ hand'[t] = process[t] /\ process'[t] = None
      /\ \A x \in Ender \ {t} : hand'[x] = hand[x]
      /\ \A x \in Tunnel \ {t} : process'[x] = process[x]
  BY <1>1, Taken
<1> QED BY <1>1, <1>2 DEF TypeOK, TickRelaunches, Cycle, RunEnds, Leave, ProbeFails

\* A tunnel's thread that goes on between two launches.
GoesOn(t) ==
  TickProbes(t) \/ ProbeAnswers(t) \/ (ProbeFails(t) /\ ~Wedged(t)) \/ NotStarted(t)

LEMMA GoingOn ==
  ASSUME TypeOK, NEW t \in Tunnel, GoesOn(t)
  PROVE  /\ t \in Ender /\ thread[t] \in {"idle", "probing", "starting"}
         /\ thread'[t] \in {"idle", "probing"} /\ \A x \in Ender \ {t} : thread'[x] = thread[x]
         /\ UNCHANGED <<stop, process, hand, supervisor, kubectl>>
BY DEF TypeOK, GoesOn, TickProbes, Cycle, ProbeAnswers, ProbeFails, NotStarted, Ender

\* A thread that takes the process of a tunnel that was told to leave.
LEMMA TakenByOthers ==
  ASSUME TypeOK, ToldFirst, Reap \/ StopTakes
  PROVE  \E e \in {Reaper, Stopper}, t \in Tunnel :
            /\ e \in Ender \ Tunnel /\ thread[e] = "idle" /\ stop[t]
            /\ thread'[e] = "killing" /\ \A x \in Ender \ {e} : thread'[x] = thread[x]
            /\ hand'[e] = process[t] /\ process'[t] = None
            /\ \A x \in Ender \ {e} : hand'[x] = hand[x]
            /\ \A x \in Tunnel \ {t} : process'[x] = process[x]
            /\ UNCHANGED <<stop, kubectl>>
<1> DEFINE e == IF Reap THEN Reaper ELSE Stopper
           t == IF Reap THEN Head(retired) ELSE current
<1>1. e \in {Reaper, Stopper} /\ e \in Ender \ Tunnel
  BY EnderAssumption DEF Ender
<1>2. t \in Tunnel /\ stop[t]
  <2>1. CASE Reap
    BY <2>1 DEF Reap, TypeOK, ToldFirst
  <2>2. CASE ~Reap
    BY <2>2 DEF StopTakes, TypeOK, ToldFirst
  <2> QED BY <2>1, <2>2
<1>3. Take(e, t) /\ thread[e] = "idle" /\ thread' = [thread EXCEPT ![e] = "killing"]
      /\ UNCHANGED <<stop, kubectl>>
  BY DEF Reap, StopTakes
<1> HIDE DEF e, t
<1>4. thread'[e] = "killing" /\ \A x \in Ender \ {e} : thread'[x] = thread[x]
  BY <1>1, <1>3 DEF TypeOK
<1>5. /\ hand'[e] = process[t] /\ process'[t] = None
      /\ \A x \in Ender \ {e} : hand'[x] = hand[x]
      /\ \A x \in Tunnel \ {t} : process'[x] = process[x]
  BY <1>1, <1>2, <1>3, Taken
<1> QED BY <1>1, <1>2, <1>3, <1>4, <1>5

\* A process that is gone, whatever ended it.
Gone(p) == Exits(p) /\ p \in alive /\ faults' \in 0..MaxFaults

LEMMA Listening ==
  ASSUME TypeOK, NEW p \in Process, Listen(p) \/ Obey(p) \/ Fail(p)
  PROVE  \/ Gone(p)
         \/ /\ p \in alive /\ port' = p
            /\ UNCHANGED <<thread, stop, process, failures, hand, supervisor, alive, of, signalled, faults>>
BY FaultsAssumption DEF TypeOK, Listen, Obey, Fail, Fault, Gone

\* The steps again, as the proofs tell them apart.
LEMMA Cases ==
  ASSUME TypeOK, ToldFirst, Next
  PROVE  \/ \E e \in Ender : Signal(e) \/ KillReturns(e)
         \/ \E t \in Tunnel : \/ TickRelaunches(t) \/ RunEnds(t) \/ (ProbeFails(t) /\ Wedged(t))
                             \/ GoesOn(t) \/ Launch(t) \/ Launched(t)
         \/ Reap \/ StopTakes \/ Move \/ Stop
         \/ \E p \in Process : Gone(p)
         \/ \E p \in alive : /\ port' = p
                             /\ UNCHANGED <<thread, stop, process, failures, hand, supervisor,
                                            alive, of, signalled, faults>>
BY Steps, Listening DEF GoesOn

-----------------------------------------------------------------------------
(* Types.                                                                  *)

LEMMA TypeStep ==
  ASSUME TypeOK, Next
  PROVE  TypeOK'
<1>1. ASSUME NEW e \in Ender, Signal(e) \/ KillReturns(e)
      PROVE  TypeOK'
  BY <1>1 DEF TypeOK, Ender, Signal, KillReturns, supervisor, kubectl
<1>2. ASSUME NEW t \in Tunnel, TickRelaunches(t) \/ TickProbes(t) \/ ProbeAnswers(t) \/ NotStarted(t)
      PROVE  TypeOK'
  BY <1>2, FaultsAssumption, Taken
     DEF TypeOK, Ender, TickRelaunches, TickProbes, ProbeAnswers, NotStarted, Fault,
         FailuresBeforeRelaunch, supervisor, kubectl
<1>3. ASSUME NEW t \in Tunnel, ProbeFails(t)
      PROVE  TypeOK'
  <2>1. faults' \in 0..MaxFaults
    BY <1>3, FaultsAssumption DEF TypeOK, ProbeFails, Fault
  <2>2. /\ thread' \in [Ender -> {"none", "idle", "killing", "starting", "launched", "probing",
                                   "leaving", "out"}]
        /\ failures' \in [Tunnel -> 0..FailuresBeforeRelaunch - 1]
    BY <1>3 DEF TypeOK, ProbeFails, Wedged, FailuresBeforeRelaunch
  <2>3. hand' \in [Ender -> Process \cup {None}] /\ process' \in [Tunnel -> Process \cup {None}]
    BY <1>3, Taken DEF TypeOK, ProbeFails, Ender
  <2> QED BY <1>3, <2>1, <2>2, <2>3 DEF TypeOK, ProbeFails, supervisor, kubectl
<1>4. ASSUME NEW t \in Tunnel, Launch(t) \/ Launched(t)
      PROVE  TypeOK'
  <2>1. CASE Launch(t)
    BY <2>1 DEF TypeOK, Ender, Launch, supervisor
  <2>2. CASE Launched(t)
    BY <2>2 DEF TypeOK, Ender, Launched, supervisor, kubectl
  <2> QED BY <1>4, <2>1, <2>2
<1>5. ASSUME NEW t \in Tunnel, RunEnds(t)
      PROVE  TypeOK'
  BY <1>5 DEF TypeOK, Ender, RunEnds, Leave, Take, supervisor, kubectl
<1>6. CASE Reap \/ StopTakes
  <2>1. CASE Reap
    BY <2>1 DEF TypeOK, Ender, Reap, Take, supervisor, kubectl
  <2>2. CASE StopTakes
    BY <2>2 DEF TypeOK, Ender, StopTakes, Take, supervisor, kubectl
  <2> QED BY <1>6, <2>1, <2>2
<1>7. CASE Move \/ Stop
  <2>1. CASE Move
    BY <2>1 DEF TypeOK, Ender, Move, Told, kubectl
  <2>2. CASE Stop
    BY <2>2 DEF TypeOK, Stop, Told, kubectl
  <2> QED BY <1>7, <2>1, <2>2
<1>8. ASSUME NEW p \in Process, Listen(p) \/ Obey(p) \/ Fail(p)
      PROVE  TypeOK'
  <2>1. CASE Gone(p)
    BY <2>1 DEF TypeOK, Gone, Exits, supervisor
  <2>2. CASE ~Gone(p)
    BY <1>8, <2>2, Listening DEF TypeOK, supervisor
  <2> QED BY <2>1, <2>2
<1> QED BY <1>1, <1>2, <1>3, <1>4, <1>5, <1>6, <1>7, <1>8, Steps

-----------------------------------------------------------------------------
(* Who holds what.                                                         *)

LEMMA HoldersStep ==
  ASSUME TypeOK, ToldFirst, Holders, Next
  PROVE  Holders'
<1>1. ASSUME NEW e \in Ender, Signal(e) \/ KillReturns(e)
      PROVE  Holders'
  BY <1>1 DEF TypeOK, Holders, Ender, Signal, KillReturns
<1>2. ASSUME NEW t \in Tunnel, TickRelaunches(t) \/ RunEnds(t) \/ (ProbeFails(t) /\ Wedged(t))
      PROVE  Holders'
  BY <1>2, TakenByItself DEF Holders, Ender
<1>3. ASSUME NEW t \in Tunnel, GoesOn(t)
      PROVE  Holders'
  <2>1. hand[t] = None
    BY <1>3, GoingOn DEF Holders
  <2>2. process[t] = None \/ thread[t] \in {"idle", "probing"}
    BY <1>3 DEF Holders
  <2> QED BY <1>3, <2>1, <2>2, GoingOn DEF Holders, Ender
<1>4. ASSUME NEW t \in Tunnel, Launch(t) \/ Launched(t)
      PROVE  Holders'
  BY <1>4 DEF TypeOK, Holders, Ender, Launch, Launched
<1>5. CASE Reap \/ StopTakes
  <2>1. PICK e \in Ender \ Tunnel, t \in Tunnel :
           /\ thread'[e] = "killing" /\ \A x \in Ender \ {e} : thread'[x] = thread[x]
           /\ process'[t] = None /\ \A x \in Ender \ {e} : hand'[x] = hand[x]
           /\ \A x \in Tunnel \ {t} : process'[x] = process[x]
    BY <1>5, TakenByOthers
  <2> QED BY <2>1 DEF Holders, Ender
<1>6. CASE Move \/ Stop
  <2>1. CASE Move
    BY <2>1 DEF TypeOK, Holders, Ender, Move
  <2>2. CASE Stop
    BY <2>2 DEF Holders, Stop
  <2> QED BY <1>6, <2>1, <2>2
<1>7. CASE UNCHANGED <<thread, process, hand>>
  BY <1>7 DEF Holders
<1> QED BY <1>1, <1>2, <1>3, <1>4, <1>5, <1>6, <1>7, Cases DEF Gone, Exits

LEMMA LaunchersStep ==
  ASSUME TypeOK, ToldFirst, Launchers, Next
  PROVE  Launchers'
<1>1. ASSUME NEW t \in Tunnel, Launch(t)
      PROVE  Launchers'
  BY <1>1 DEF TypeOK, Launchers, Launch
<1>2. ASSUME NEW p \in Process, Gone(p)
      PROVE  Launchers'
  BY <1>2 DEF TypeOK, Launchers, Gone, Exits
<1>3. CASE UNCHANGED <<alive, of>>
  BY <1>3 DEF Launchers
<1> QED BY <1>1, <1>2, <1>3, Cases, TakenByItself, GoingOn, TakenByOthers
        DEF Signal, KillReturns, Launched, Move, Stop, kubectl

LEMMA ToldStep ==
  ASSUME TypeOK, ToldFirst, Next
  PROVE  ToldFirst'
<1>1. CASE Move
  <2>1. stop'[current] /\ \A t \in Tunnel : stop[t] => stop'[t]
    BY <1>1 DEF TypeOK, Move, Told
  <2>2. \A i \in 1..Len(retired) : retired[i] \in Tunnel /\ stop[retired[i]]
    BY DEF TypeOK, ToldFirst
  <2>3. /\ Len(retired') = Len(retired) + 1 /\ Len(retired) \in Nat
        /\ \A i \in 1..Len(retired) : retired'[i] = retired[i]
        /\ retired'[Len(retired) + 1] = current
    BY <1>1 DEF TypeOK, Move
  <2> QED BY <1>1, <2>1, <2>2, <2>3 DEF Move, ToldFirst
<1>2. CASE Stop
  <2>1. \A i \in 1..Len(retired) : retired[i] \in Tunnel
    BY DEF TypeOK
  <2> QED BY <1>2, <2>1 DEF TypeOK, ToldFirst, Stop, Told
<1>3. CASE Reap
  BY <1>3 DEF TypeOK, ToldFirst, Reap
<1>4. CASE UNCHANGED <<stop, current, retired, closed>>
  BY <1>4 DEF ToldFirst
<1>5. CASE StopTakes
  BY <1>4, <1>5 DEF StopTakes, supervisor
<1> QED BY <1>1, <1>2, <1>3, <1>4, <1>5, Cases, TakenByItself, GoingOn
        DEF Signal, KillReturns, Launch, Launched, Gone, Exits, supervisor

LEMMA OwnedStep ==
  ASSUME TypeOK, Holders, ToldFirst, Owned, Next
  PROVE  Owned'
<1>1. ASSUME NEW e \in Ender, KillReturns(e)
      PROVE  Owned'
  <2>1. e \in Tunnel => hand[e] \notin alive
    BY <1>1 DEF KillReturns, Ended
  <2> QED BY <1>1, <2>1 DEF TypeOK, Owned, KillReturns, Ender, kubectl
<1>2. ASSUME NEW t \in Tunnel, TickRelaunches(t) \/ RunEnds(t) \/ (ProbeFails(t) /\ Wedged(t))
      PROVE  Owned'
  <2>1. hand[t] = None
    BY <1>2, TakenByItself DEF Holders
  <2>2. \A p \in alive : of[p] = t /\ ~stop[t] => p \in {process'[t], hand'[t]}
    BY <1>2, <2>1, TakenByItself DEF Owned
  <2> QED BY <1>2, <2>2, TakenByItself DEF Owned, Ender, kubectl
<1>3. ASSUME NEW t \in Tunnel, Launch(t)
      PROVE  Owned'
  <2>1. PICK p \in Process \ InUse :
           /\ hand' = [hand EXCEPT ![t] = p]
           /\ alive' = alive \cup {p} /\ of' = [of EXCEPT ![p] = t]
    BY <1>3 DEF Launch
  <2>2. t \in Ender /\ hand[t] = None /\ process[t] = None /\ p \notin alive /\ hand'[t] = p
    BY <1>3, <2>1 DEF TypeOK, Ender, Holders, Launch, InUse
  <2>3. ~stop[t] => \A q \in alive : of[q] # t
    BY <2>2, NoneAssumption DEF TypeOK, Owned
  <2>4. \A x \in Tunnel \ {t} : hand'[x] = hand[x]
    BY <2>1 DEF TypeOK, Ender
  <2>5. of'[p] = t /\ \A q \in alive : of'[q] = of[q]
    BY <2>1, <2>2 DEF TypeOK
  <2> QED BY <1>3, <2>1, <2>2, <2>3, <2>4, <2>5 DEF Owned, Launch
<1>4. ASSUME NEW t \in Tunnel, Launched(t)
      PROVE  Owned'
  BY <1>4 DEF TypeOK, Holders, Owned, Ender, Launched, kubectl
<1>5. CASE Reap \/ StopTakes
  <2>1. PICK e \in {Reaper, Stopper}, t \in Tunnel :
           /\ e \in Ender \ Tunnel /\ stop[t] /\ UNCHANGED <<stop, kubectl>>
           /\ \A x \in Ender \ {e} : hand'[x] = hand[x]
           /\ \A x \in Tunnel \ {t} : process'[x] = process[x]
    BY <1>5, TakenByOthers
  <2> QED BY <2>1 DEF Owned, Ender, kubectl
<1>6. CASE Move \/ Stop
  BY <1>6 DEF TypeOK, Owned, Move, Stop, Told, kubectl
<1>7. ASSUME NEW p \in Process, Gone(p)
      PROVE  Owned'
  BY <1>7 DEF TypeOK, Owned, Gone, Exits
<1>8. CASE UNCHANGED <<stop, process, hand, alive, of>>
  BY <1>8 DEF Owned
<1> QED BY <1>1, <1>2, <1>3, <1>4, <1>5, <1>6, <1>7, <1>8, Cases, GoingOn
        DEF Signal, kubectl

-----------------------------------------------------------------------------
(* Whatever runs will be ended.                                            *)

LEMMA OrphanStep ==
  ASSUME TypeOK, Holders, Launchers, ToldFirst, NoOrphan, Next
  PROVE  NoOrphan'
<1>1. ASSUME NEW e \in Ender, Signal(e)
      PROVE  NoOrphan'
  BY <1>1 DEF NoOrphan, Signal
<1>2. ASSUME NEW e \in Ender, KillReturns(e)
      PROVE  NoOrphan'
  <2>1. hand[e] \notin alive \/ hand[e] \in signalled
    BY <1>2 DEF KillReturns, Ended
  <2>2. e \in Tunnel => process[e] = None
    BY <1>2 DEF Holders, KillReturns
  <2>3. ASSUME NEW p \in alive, p \notin signalled
        PROVE  \/ thread'[of[p]] # "out" /\ p \in {process[of[p]], hand'[of[p]]}
               \/ p \in {hand'[Reaper], hand'[Stopper]}
    <3>1. p # hand[e] /\ p # None
      BY <2>1, <2>3, NoneAssumption DEF TypeOK
    <3>2. of[p] \in Tunnel /\ of[p] \in Ender /\ Reaper \in Ender /\ Stopper \in Ender
      BY DEF Launchers, Ender
    <3>3. \A x \in Ender : p = hand[x] => p = hand'[x]
      BY <1>2, <3>1 DEF TypeOK, KillReturns
    <3>4. CASE p \in {hand[Reaper], hand[Stopper]}
      BY <3>2, <3>3, <3>4
    <3>5. CASE thread[of[p]] # "out" /\ p \in {process[of[p]], hand[of[p]]}
      <4>1. of[p] # e
        BY <2>2, <3>1, <3>2, <3>5
      <4> QED BY <1>2, <3>2, <3>3, <3>5, <4>1 DEF TypeOK, KillReturns
    <3> QED BY <2>3, <3>4, <3>5 DEF NoOrphan
  <2> QED BY <1>2, <2>3 DEF NoOrphan, KillReturns, kubectl
<1>3. ASSUME NEW t \in Tunnel, TickRelaunches(t) \/ RunEnds(t) \/ (ProbeFails(t) /\ Wedged(t))
      PROVE  NoOrphan'
  <2>1. hand[t] = None /\ thread[t] # "out"
    BY <1>3, TakenByItself DEF Holders
  <2>2. \A x \in Tunnel : thread[x] # "out" => thread'[x] # "out"
    BY <1>3, TakenByItself DEF Ender
  <2>3. \A x \in Tunnel, p \in alive :
           p \in {process[x], hand[x]} => p \in {process'[x], hand'[x]}
    BY <1>3, <2>1, TakenByItself, NoneAssumption DEF TypeOK, Ender
  <2>4. hand'[Reaper] = hand[Reaper] /\ hand'[Stopper] = hand[Stopper]
    BY <1>3, TakenByItself, EnderAssumption DEF Ender
  <2> QED BY <1>3, <2>2, <2>3, <2>4, TakenByItself DEF NoOrphan, Launchers, kubectl
<1>4. ASSUME NEW t \in Tunnel, GoesOn(t)
      PROVE  NoOrphan'
  <2>1. \A x \in Tunnel : thread[x] # "out" => thread'[x] # "out"
    BY <1>4, GoingOn DEF Ender
  <2> QED BY <1>4, <2>1, GoingOn DEF NoOrphan, Launchers, kubectl
<1>5. ASSUME NEW t \in Tunnel, Launch(t)
      PROVE  NoOrphan'
  <2>1. PICK p \in Process \ InUse :
           /\ hand' = [hand EXCEPT ![t] = p]
           /\ alive' = alive \cup {p} /\ of' = [of EXCEPT ![p] = t]
    BY <1>5 DEF Launch
  <2>2. t \in Ender /\ Reaper \in Ender /\ Stopper \in Ender /\ t # Reaper /\ t # Stopper
    BY EnderAssumption DEF Ender
  <2>3. hand[t] = None /\ p \notin alive
    BY <1>5, <2>1, <2>2 DEF Holders, Launch, InUse
  <2>4. thread'[t] = "launched" /\ hand'[t] = p /\ of'[p] = t
    BY <1>5, <2>1, <2>2 DEF TypeOK, Launch
  <2>5. ASSUME NEW q \in alive, q \notin signalled
        PROVE  \/ thread'[of'[q]] # "out" /\ q \in {process[of'[q]], hand'[of'[q]]}
               \/ q \in {hand'[Reaper], hand'[Stopper]}
    <3>1. of'[q] = of[q] /\ of[q] \in Tunnel /\ of[q] \in Ender /\ q # None
      BY <2>1, <2>3, NoneAssumption DEF TypeOK, Launchers, Ender
    <3>2. \A x \in Ender : q = hand[x] => q = hand'[x]
      BY <2>1, <2>3, <3>1 DEF TypeOK
    <3>3. \A x \in Ender : thread[x] # "out" => thread'[x] # "out"
      BY <1>5 DEF TypeOK, Launch
    <3> QED BY <2>2, <2>5, <3>1, <3>2, <3>3 DEF NoOrphan
  <2> QED BY <1>5, <2>1, <2>4, <2>5 DEF NoOrphan, Launch
<1>6. ASSUME NEW t \in Tunnel, Launched(t)
      PROVE  NoOrphan'
  <2>1. t \in Ender /\ t # Reaper /\ t # Stopper /\ process[t] = None
    BY <1>6, EnderAssumption DEF Ender, Holders, Launched
  <2>2. \A x \in Tunnel, p \in alive :
           p \in {process[x], hand[x]} => p \in {process'[x], hand'[x]}
    BY <1>6, <2>1, NoneAssumption DEF TypeOK, Launched, Ender
  <2>3. hand'[Reaper] = hand[Reaper] /\ hand'[Stopper] = hand[Stopper]
    BY <1>6, <2>1 DEF TypeOK, Launched
  <2>4. \A x \in Tunnel : thread[x] # "out" => thread'[x] # "out"
    BY <1>6 DEF TypeOK, Launched, Ender
  <2> QED BY <1>6, <2>2, <2>3, <2>4 DEF NoOrphan, Launchers, Launched, kubectl
<1>7. CASE Reap \/ StopTakes
  <2>1. PICK e \in {Reaper, Stopper}, t \in Tunnel :
           /\ e \in Ender \ Tunnel /\ thread[e] = "idle" /\ hand'[e] = process[t]
           /\ \A x \in Ender \ {e} : thread'[x] = thread[x] /\ hand'[x] = hand[x]
           /\ \A x \in Tunnel \ {t} : process'[x] = process[x]
           /\ UNCHANGED kubectl
    BY <1>7, TakenByOthers
  <2>2. hand[e] = None
    BY <2>1 DEF Holders
  <2>3. ASSUME NEW p \in alive, p \notin signalled
        PROVE  \/ thread'[of[p]] # "out" /\ p \in {process'[of[p]], hand'[of[p]]}
               \/ p \in {hand'[Reaper], hand'[Stopper]}
    <3>1. of[p] \in Tunnel /\ of[p] \in Ender /\ p # None
      BY NoneAssumption DEF TypeOK, Launchers, Ender
    <3>2. thread'[of[p]] = thread[of[p]] /\ hand'[of[p]] = hand[of[p]]
      BY <2>1, <3>1
    <3>3. p \in {hand[Reaper], hand[Stopper]} => p \in {hand'[Reaper], hand'[Stopper]}
      BY <2>1, <2>2, <3>1 DEF Ender
    <3>4. p = process[of[p]] => p = process'[of[p]] \/ p = hand'[e]
      BY <2>1, <3>1
    <3> QED BY <2>1, <2>3, <3>2, <3>3, <3>4 DEF NoOrphan
  <2> QED BY <2>1, <2>3 DEF NoOrphan, kubectl
<1>8. CASE Move \/ Stop
  <2>1. \A x \in Ender : thread[x] # "out" => thread'[x] # "out"
    BY <1>8 DEF TypeOK, Move, Stop
  <2> QED BY <1>8, <2>1 DEF NoOrphan, Launchers, Ender, Move, Stop, kubectl
<1>9. ASSUME NEW p \in Process, Gone(p)
      PROVE  NoOrphan'
  BY <1>9 DEF TypeOK, NoOrphan, Gone, Exits
<1>10. CASE UNCHANGED <<thread, process, hand, alive, of, signalled>>
  BY <1>10 DEF NoOrphan
<1> QED BY <1>1, <1>2, <1>3, <1>4, <1>5, <1>6, <1>7, <1>8, <1>9, <1>10, Cases

-----------------------------------------------------------------------------
(* The theorems.                                                           *)

LEMMA AlwaysTunnelInv == Spec => []TunnelInv
<1>1. ASSUME Init
      PROVE  TunnelInv
  <2>1. TypeOK
    <3>1. 0 \in 0..FailuresBeforeRelaunch - 1 /\ 0 \in 0..MaxFaults
      BY FaultsAssumption DEF FailuresBeforeRelaunch
    <3>2. thread \in [Ender -> {"none", "idle", "killing", "starting", "launched", "probing",
                               "leaving", "out"}]
      BY <1>1 DEF Init
    <3>3. /\ stop \in [Tunnel -> BOOLEAN] /\ process \in [Tunnel -> Process \cup {None}]
          /\ failures \in [Tunnel -> 0..FailuresBeforeRelaunch - 1]
          /\ hand \in [Ender -> Process \cup {None}]
          /\ of \in [Process -> Tunnel \cup {None}]
      BY <1>1, <3>1 DEF Init
    <3>4. retired \in Seq(Tunnel)
      BY <1>1 DEF Init
    <3> QED BY <1>1, <3>1, <3>2, <3>3, <3>4 DEF Init, TypeOK
  <2>2. Holders /\ Launchers /\ ToldFirst /\ Owned /\ NoOrphan
    BY <1>1 DEF Init, Holders, Launchers, ToldFirst, Owned, NoOrphan, Ender
  <2> QED BY <2>1, <2>2 DEF TunnelInv
<1>2. ASSUME TunnelInv, [Next]_vars
      PROVE  TunnelInv'
  <2>1. CASE Next
    BY <1>2, <2>1, TypeStep, HoldersStep, LaunchersStep, ToldStep, OwnedStep, OrphanStep
       DEF TunnelInv
  <2>2. CASE UNCHANGED vars
    BY <1>2, <2>2
       DEF TunnelInv, TypeOK, Holders, Launchers, ToldFirst, Owned, NoOrphan, vars,
           supervisor, kubectl
  <2> QED BY <1>2, <2>1, <2>2
<1> QED BY <1>1, <1>2, PTL DEF Spec

\* Whatever the threads, the supervisor, kubectl and the faults do, every thread
\* is where its code can be and refers to processes or to nothing.
THEOREM TypeCorrect == Spec => []TypeOK
<1>1. TunnelInv => TypeOK
  BY DEF TunnelInv
<1> QED BY <1>1, AlwaysTunnelInv, PTL

\* However many tunnels follow each other and in whatever order their threads,
\* the reaper and stop take a process: one that runs was signalled, or is held
\* by a thread that will signal it (tunnel._kill, _start, run).
THEOREM NothingLeftBehind == Spec => []NoOrphan
<1>1. TunnelInv => NoOrphan
  BY DEF TunnelInv
<1> QED BY <1>1, AlwaysTunnelInv, PTL

\* A tunnel that is not told to leave has at most one process that runs, so its
\* relaunch cannot lose the local port to its own last one (tunnel._kill).
THEOREM ForwardsAlone == Spec => []OneForward
<1>1. ASSUME TunnelInv
      PROVE  OneForward
  <2>1. ASSUME NEW t \in Tunnel, ~stop[t]
        PROVE  Cardinality({p \in alive : of[p] = t}) <= 1
    <3>1. t \in Ender /\ None \notin alive
      BY <1>1, NoneAssumption DEF Ender, TunnelInv, TypeOK
    <3>2. process[t] = None \/ hand[t] = None
      BY <1>1, <3>1 DEF TunnelInv, Holders
    <3> DEFINE one == IF process[t] = None THEN hand[t] ELSE process[t]
    <3>3. \A p \in alive : of[p] = t => p = one
      BY <1>1, <2>1, <3>1, <3>2 DEF TunnelInv, Owned
    <3> HIDE DEF one
    <3>4. CASE \A p \in alive : of[p] # t
      <4>1. {p \in alive : of[p] = t} = {}
        BY <3>4
      <4> QED BY <4>1, FS_EmptySet
    <3>5. CASE \E p \in alive : of[p] = t
      <4>1. one \in alive /\ of[one] = t
        BY <3>3, <3>5
      <4>2. {p \in alive : of[p] = t} = {one}
        BY <3>3, <4>1
      <4> QED BY <4>2, FS_Singleton
    <3> QED BY <3>4, <3>5
  <2> QED BY <2>1 DEF OneForward
<1> QED BY <1>1, AlwaysTunnelInv, PTL

=============================================================================
