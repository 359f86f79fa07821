--------------------------- MODULE SourcesProofs ---------------------------
(***************************************************************************)
(* No reading is slept through, and a forgotten name stays forgotten.  The *)
(* second is about the reaper: of a name's sources it holds all but the    *)
(* one that runs and those it was never handed (Accounted), in the order   *)
(* they were retired (Followed).                                           *)
(***************************************************************************)
EXTENDS Sources, FiniteSetTheorems, TLAPS

-----------------------------------------------------------------------------
(* The invariant.                                                          *)

\* Sources are numbered without a gap, and one that runs has its own name.
Numbered ==
  /\ \E k \in 0..MaxSources : Started = 1..k
  /\ \A n \in Name : running[n] # None => running[n] \in Started /\ named[running[n]] = n

\* What the reaper has still to do.
Items == {queue[k] : k \in 1..Len(queue)} \cup ({reaping} \ {None})

\* It is handed a source once, when it no longer runs.
HandedOnce ==
  /\ \A item \in Items : item.source \in Started /\ \A n \in Name : running[n] # item.source
  /\ \A j, k \in 1..Len(queue) : queue[j].source = queue[k].source => j = k

\* The k-th item's name is configured, or its removal is behind it in the queue.
Followed(item, k) ==
  \/ running[named[item.source]] # None
  \/ \E m \in k + 1..Len(queue) : queue[m].drop /\ named[queue[m].source] = named[item.source]

\* A source retired because it moved was followed by another of its name.
Succession ==
  /\ \A k \in 1..Len(queue) : queue[k].drop \/ Followed(queue[k], k)
  /\ reaping # None => reaping.drop \/ Followed(reaping, 0)

\* A reaper whose thread was not started has nothing to do.
Idle == ~reaperUp => queue = <<>> /\ reaping = None

\* Whom the reaper does not wait for, or not any more.
Unwaited == abandoned \cup unreaped

\* A poller that is not out is of a source that runs, that the reaper has, or
\* that it does not wait for.
Accounted ==
  \A i \in Started : poller[i] \in {"sleeping", "polling"} =>
     running[named[i]] = i \/ i \in Unwaited \/ \E item \in Items : item.source = i

\* A worker is never ahead of the store, and waits on what it drew from.
Versions ==
  \A w \in Screen :
    /\ read[w].version <= version /\ seen[w] <= version
    /\ worker[w] \in {"waiting", "parked"} => seen[w] = read[w].version

SourceInv ==
  /\ TypeOK /\ Numbered /\ Idle /\ HandedOnce /\ Succession /\ Accounted
  /\ Versions /\ NothingUnseen

\* What nobody but the reaper and an edit changes.
handed == <<running, named, reaperUp, queue, reaping>>

-----------------------------------------------------------------------------
(* What the operators the actions are built from return.                   *)

LEMMA Distinct ==
  None \notin Name /\ None \notin Source /\ None \notin Health /\ None \notin Retirement
BY NoneAssumption, BoundsAssumption DEF Source

LEMMA HealthType ==
  /\ NeverAnswered \in Health
  /\ [ever |-> TRUE, failures |-> 0] \in Health
  /\ \A h \in Health : [h EXCEPT !.failures = IF @ < StaleAfter THEN @ + 1 ELSE @] \in Health
BY BoundsAssumption DEF Health, NeverAnswered

LEMMA RegisteredType ==
  ASSUME TypeOK, NEW n \in Name
  PROVE  /\ Registered(n) \in [Name -> Health \cup {None}]
         /\ Registered(n)[n] \in Health
         /\ \A m \in Name \ {n} : Registered(n)[m] = health[m]
BY HealthType, Distinct DEF TypeOK, Registered

LEMMA FailedType ==
  ASSUME TypeOK, NEW i \in Source, named[i] \in Name, FailPoll(i)
  PROVE  /\ health' \in [Name -> Health \cup {None}]
         /\ \A m \in Name \ {named[i]} : health'[m] = health[m]
<1> DEFINE known == Registered(named[i])
<1>1. /\ known \in [Name -> Health \cup {None}] /\ known[named[i]] \in Health
      /\ \A m \in Name \ {named[i]} : known[m] = health[m]
  BY RegisteredType
<1>2. health' = [known EXCEPT ![named[i]].failures = IF @ < StaleAfter THEN @ + 1 ELSE @]
  BY DEF FailPoll
<1> HIDE DEF known
<1>3. health' = [known EXCEPT ![named[i]] =
                   [known[named[i]] EXCEPT !.failures = IF @ < StaleAfter THEN @ + 1 ELSE @]]
  BY <1>2
<1>4. [known[named[i]] EXCEPT !.failures = IF @ < StaleAfter THEN @ + 1 ELSE @] \in Health
  BY <1>1, HealthType
<1> HIDE DEF Health
<1> QED BY <1>1, <1>3, <1>4

LEMMA NotifiedType ==
  ASSUME TypeOK, NEW v
  PROVE  /\ Notified(v) \in [Screen -> {"awake", "reading", "waiting", "parked", "out"}]
         /\ \A w \in Screen : \/ Notified(v)[w] = "awake"
                              \/ Notified(v)[w] = worker[w] /\ ~(worker[w] = "parked" /\ Released(w, v))
BY DEF TypeOK, Notified

\* Who has been started is who has a name.
LEMMA StartedIs ==
  ASSUME TypeOK, NEW i \in Source
  PROVE  i \in Started <=> named[i] \in Name
BY Distinct DEF TypeOK, Started

LEMMA NextIs ==
  ASSUME Numbered
  PROVE  \E k \in 0..MaxSources : /\ Started = 1..k /\ NextSource = k + 1
                                  /\ Cardinality(Started) = k /\ IsFiniteSet(Started)
<1>1. PICK k \in 0..MaxSources : Started = 1..k
  BY DEF Numbered
<1>2. k \in Int /\ 1 \in Int /\ k >= 0
  BY BoundsAssumption
<1>3. Cardinality(1..k) = k /\ IsFiniteSet(1..k)
  BY <1>2, FS_Interval
<1> QED BY <1>1, <1>3 DEF NextSource

\* A source that starts is new.
LEMMA StartIs ==
  ASSUME TypeOK, Numbered, NEW n \in Name, Start(n)
  PROVE  /\ NextSource \in Source \ Started /\ Started' = Started \cup {NextSource}
         /\ Numbered' /\ Cardinality(Started') = Cardinality(Started) + 1
         /\ Cardinality(Started) \in Nat
         /\ health' \in [Name -> Health \cup {None}] /\ health'[n] \in Health
         /\ \A m \in Name \ {n} : health'[m] = health[m]
         /\ running' \in [Name -> Source \cup {None}] /\ running'[n] = NextSource
         /\ \A m \in Name \ {n} : running'[m] = running[m]
         /\ named' \in [Source -> Name \cup {None}] /\ named'[NextSource] = n
         /\ \A i \in Started : named'[i] = named[i]
         /\ poller' \in [Source -> {"none", "sleeping", "polling", "out"}]
         /\ \A i \in Started : poller'[i] = poller[i]
<1>1. PICK k \in 0..MaxSources : /\ Started = 1..k /\ NextSource = k + 1
                                 /\ Cardinality(Started) = k /\ IsFiniteSet(Started)
  BY NextIs
<1>2. NextSource \in Source \ Started /\ k \in Nat /\ k + 1 \in 0..MaxSources /\ Started \subseteq Source
  BY <1>1, BoundsAssumption DEF Start, Source, Started
<1>3. /\ running' \in [Name -> Source \cup {None}] /\ running'[n] = NextSource
      /\ \A m \in Name \ {n} : running'[m] = running[m]
  BY <1>2 DEF TypeOK, Start
<1>4. /\ named' \in [Source -> Name \cup {None}] /\ named'[NextSource] = n
      /\ \A i \in Source \ {NextSource} : named'[i] = named[i]
  BY <1>2 DEF TypeOK, Start
<1>5. /\ poller' \in [Source -> {"none", "sleeping", "polling", "out"}]
      /\ \A i \in Source \ {NextSource} : poller'[i] = poller[i]
  BY <1>2 DEF TypeOK, Start
<1>6. Started' = Started \cup {NextSource}
  BY <1>2, <1>4, Distinct DEF Started
<1>7. Started' = 1..k + 1
  BY <1>1, <1>2, <1>6
<1>8. Cardinality(Started') = k + 1
  BY <1>2, <1>7, FS_Interval
<1>9. Numbered'
  <2>1. ASSUME NEW m \in Name, running'[m] # None
        PROVE  running'[m] \in Started' /\ named'[running'[m]] = m
    BY <1>2, <1>3, <1>4, <1>6, <2>1 DEF Numbered
  <2>2. \E j \in 0..MaxSources : Started' = 1..j
    BY <1>2, <1>7
  <2> QED BY <2>1, <2>2 DEF Numbered
<1>10. /\ health' \in [Name -> Health \cup {None}] /\ health'[n] \in Health
       /\ \A m \in Name \ {n} : health'[m] = health[m]
  BY RegisteredType DEF Start
<1> QED BY <1>1, <1>2, <1>3, <1>4, <1>5, <1>6, <1>8, <1>9, <1>10

\* A source that is handed over is behind the others.
LEMMA HandOverIs ==
  ASSUME TypeOK, Numbered, NEW n \in Name, running[n] # None, NEW drop \in BOOLEAN, HandOver(n, drop)
  PROVE  /\ running[n] \in Started /\ queue' \in Seq(Retirement)
         /\ Len(queue) \in Nat /\ Len(queue') = Len(queue) + 1
         /\ \A k \in 1..Len(queue) : queue'[k] = queue[k]
         /\ queue'[Len(queue) + 1] = [source |-> running[n], drop |-> drop]
         /\ queue'[Len(queue) + 1].source = running[n]
         /\ queue'[Len(queue) + 1].drop = drop
<1> DEFINE item == [source |-> running[n], drop |-> drop]
<1>1. running[n] \in Source /\ running[n] \in Started
  BY DEF TypeOK, Numbered
<1>2. item \in Retirement /\ item.source = running[n] /\ item.drop = drop
  BY <1>1 DEF Retirement
<1>3. queue' = Append(queue, item) /\ queue \in Seq(Retirement)
  BY DEF TypeOK, HandOver, Handed
<1> HIDE DEF item
<1>4. /\ queue' \in Seq(Retirement) /\ Len(queue) \in Nat /\ Len(queue') = Len(queue) + 1
      /\ \A k \in 1..Len(queue) : queue'[k] = queue[k]
      /\ queue'[Len(queue) + 1] = item
  BY <1>2, <1>3
<1>5. item = [source |-> running[n], drop |-> drop]
  BY DEF item
<1> QED BY <1>1, <1>2, <1>4, <1>5

\* A source that is retired is told to leave, whoever waits for it.
LEMMA RetireIs ==
  ASSUME TypeOK, Numbered, NEW n \in Name, running[n] # None, NEW drop \in BOOLEAN, Retire(n, drop)
  PROVE  /\ stop' \in [Source -> BOOLEAN] /\ reaperUp' \in BOOLEAN /\ unreaped' \subseteq Source
         /\ queue' \in Seq(Retirement) /\ Len(queue') <= Len(queue) + 1
         /\ Len(queue) \in Nat /\ Len(queue') \in Nat
         /\ HandOver(n, drop) \/ NoReaper(n)
<1>1. running[n] \in Source
  BY DEF TypeOK
<1>2. stop' \in [Source -> BOOLEAN] /\ (HandOver(n, drop) \/ NoReaper(n))
  BY <1>1 DEF TypeOK, Retire
<1>3. queue \in Seq(Retirement) /\ Len(queue) \in Nat
  BY DEF TypeOK
<1>4. CASE HandOver(n, drop)
  <2>1. reaperUp' \in BOOLEAN /\ unreaped' \subseteq Source
    BY <1>4, Zenon DEF TypeOK, HandOver
  <2>2. queue' \in Seq(Retirement) /\ Len(queue') = Len(queue) + 1
    BY <1>4, HandOverIs
  <2>3. Len(queue') <= Len(queue) + 1 /\ Len(queue') \in Nat
    BY <1>3, <2>2
  <2> QED BY <1>2, <1>3, <2>1, <2>2, <2>3
<1>5. CASE NoReaper(n)
  <2>1. reaperUp' \in BOOLEAN /\ unreaped' \subseteq Source /\ queue' = queue
    BY <1>1, <1>5 DEF TypeOK, NoReaper
  <2> QED BY <1>2, <1>3, <1>5, <2>1
<1> QED BY <1>2, <1>4, <1>5

LEMMA ItemType ==
  ASSUME TypeOK
  PROVE  \A item \in Items : item \in Retirement /\ item.source \in Source /\ item # None
<1>1. \A k \in 1..Len(queue) : queue[k] \in Retirement
  BY DEF TypeOK
<1>2. \A item \in Items : item \in Retirement
  BY <1>1 DEF TypeOK, Items
<1> QED BY <1>2, Distinct DEF Retirement

\* What the reaper has to do after an item is handed over.
LEMMA ItemsGrow ==
  ASSUME NEW item, Len(queue) \in Nat, Len(queue') = Len(queue) + 1, reaping' = reaping,
         \A k \in 1..Len(queue) : queue'[k] = queue[k], queue'[Len(queue) + 1] = item
  PROVE  Items' = Items \cup {item}
<1>1. 1..Len(queue') = (1..Len(queue)) \cup {Len(queue) + 1}
  OBVIOUS
<1>2. {queue'[k] : k \in 1..Len(queue')} = {queue[k] : k \in 1..Len(queue)} \cup {item}
  BY <1>1
<1> QED BY <1>2 DEF Items

LEMMA ReapIs ==
  ASSUME TypeOK, Reap
  PROVE  /\ Len(queue) \in Nat /\ Len(queue') = Len(queue) - 1 /\ Len(queue) >= 1
         /\ \A k \in 1..Len(queue') : queue'[k] = queue[k + 1]
         /\ queue' \in Seq(Retirement) /\ reaping' = queue[1] /\ reaping' \in Retirement
         /\ Items' = Items
<1>1. queue \in Seq(Retirement) /\ queue # <<>> /\ reaping = None
  BY DEF TypeOK, Reap
<1>2. /\ Len(queue) \in Nat /\ Len(queue') = Len(queue) - 1 /\ Len(queue) >= 1
      /\ \A k \in 1..Len(queue') : queue'[k] = queue[k + 1]
      /\ queue' \in Seq(Retirement) /\ reaping' = queue[1]
  BY <1>1 DEF Reap
<1>3. reaping' \in Retirement /\ reaping' # None
  BY <1>1, <1>2, Distinct
<1>4. {queue'[k] : k \in 1..Len(queue')} \cup {reaping'} = {queue[k] : k \in 1..Len(queue)}
  <2>1. \A k \in 1..Len(queue) : k = 1 \/ (k - 1 \in 1..Len(queue') /\ queue'[k - 1] = queue[k])
    BY <1>2
  <2>2. \A k \in 1..Len(queue') : k + 1 \in 1..Len(queue)
    BY <1>2
  <2>3. \A k \in 1..Len(queue) : queue[k] \in {queue'[j] : j \in 1..Len(queue')} \cup {reaping'}
    BY <1>2, <2>1
  <2>4. \A k \in 1..Len(queue') : queue'[k] \in {queue[j] : j \in 1..Len(queue)}
    BY <1>2, <2>2
  <2>5. reaping' \in {queue[j] : j \in 1..Len(queue)}
    BY <1>2
  <2> QED BY <2>3, <2>4, <2>5
<1> QED BY <1>1, <1>2, <1>3, <1>4 DEF Items

LEMMA ReapsIs ==
  ASSUME TypeOK, Reaped \/ ReapGivesUp
  PROVE  /\ reaping # None /\ reaping' = None /\ Items = Items' \cup {reaping}
         /\ UNCHANGED <<sources, reaperUp, queue, unreaped>>
BY DEF Reaped, ReapGivesUp, Items

\* There is room in the queue for a source that runs.
LEMMA RemovalFits ==
  ASSUME TypeOK, Numbered, HandedOnce, NEW n \in Name, running[n] # None
  PROVE  Len(queue) + 1 <= Cardinality(Started)
<1> DEFINE f == [k \in 1..Len(queue) + 1 |-> IF k <= Len(queue) THEN queue[k].source ELSE running[n]]
<1>1. Len(queue) \in Nat /\ running[n] \in Started
  BY DEF TypeOK, Numbered
<1>2. \A k \in 1..Len(queue) : queue[k].source \in Started /\ queue[k].source # running[n]
  BY DEF HandedOnce, Items
<1>3. f \in [1..Len(queue) + 1 -> Started]
  BY <1>1, <1>2
<1>4. \A j, k \in 1..Len(queue) + 1 : f[j] = f[k] => j = k
  BY <1>1, <1>2 DEF HandedOnce
<1>5. f \in Injection(1..Len(queue) + 1, Started)
  BY <1>3, <1>4 DEF Injection, IsInjective
<1>6. PICK k \in 0..MaxSources : Cardinality(Started) = k /\ IsFiniteSet(Started)
  BY NextIs
<1>7. Cardinality(1..Len(queue) + 1) <= Cardinality(Started)
  BY <1>5, <1>6, FS_Injection
<1> QED BY <1>1, <1>7, FS_Interval

-----------------------------------------------------------------------------
(* Types.                                                                  *)

LEMMA TypeStep ==
  ASSUME TypeOK, Numbered, HandedOnce, Next
  PROVE  TypeOK'
<1>1. ASSUME NEW i \in Source, PollBegins(i) \/ PollerEnds(i)
      PROVE  TypeOK'
  <2>1. poller' \in [Source -> {"none", "sleeping", "polling", "out"}]
    <3>1. poller \in [Source -> {"none", "sleeping", "polling", "out"}]
      BY DEF TypeOK
    <3>2. \E l \in {"polling", "out"} : poller' = [poller EXCEPT ![i] = l]
      BY <1>1 DEF PollBegins, PollerEnds
    <3> QED BY <3>1, <3>2
  <2>2. UNCHANGED <<store, running, named, stop, reaper, workers, edits, refusals>>
    BY <1>1 DEF PollBegins, PollerEnds
  <2> QED BY <2>1, <2>2 DEF TypeOK, Started, store, reaper, workers
<1>2. ASSUME NEW i \in Source, Publish(i)
      PROVE  TypeOK'
  <2>1. health' \in [Name -> Health \cup {None}]
    BY <1>2, HealthType DEF TypeOK, Publish
  <2>2. version' \in 0..MaxVersion /\ poller' \in [Source -> {"none", "sleeping", "polling", "out"}]
    BY <1>2, BoundsAssumption DEF TypeOK, Publish
  <2>3. worker' \in [Screen -> {"awake", "reading", "waiting", "parked", "out"}]
    BY <1>2, NotifiedType DEF Publish
  <2> QED BY <1>2, <2>1, <2>2, <2>3 DEF TypeOK, Started, Publish, reaper
<1>3. ASSUME NEW i \in Source, FailPoll(i)
      PROVE  TypeOK'
  <2>1. poller' \in [Source -> {"none", "sleeping", "polling", "out"}]
    BY <1>3 DEF TypeOK, FailPoll
  <2>2. CASE named[i] \in Name
    <3>1. health' \in [Name -> Health \cup {None}]
      BY <1>3, <2>2, FailedType
    <3> QED BY <1>3, <2>1, <3>1 DEF TypeOK, Started, FailPoll, reaper, workers
  <2>3. CASE named[i] \notin Name
    <3>1. health' = health
      BY <1>3, <2>3 DEF TypeOK, FailPoll, Registered
    <3> QED BY <1>3, <2>1, <3>1 DEF TypeOK, Started, FailPoll, reaper, workers
  <2> QED BY <2>2, <2>3
<1>4. CASE Reap
  <2>1. queue' \in Seq(Retirement) /\ Len(queue') <= Len(queue) /\ reaping' \in Retirement
        /\ Len(queue) \in Nat /\ Len(queue') \in Nat
    BY <1>4, ReapIs
  <2>2. Cardinality(Started) \in Nat /\ Started' = Started
    BY <1>4, NextIs DEF Reap, sources, Started
  <2>3. Len(queue') <= Cardinality(Started')
    BY <2>1, <2>2 DEF TypeOK
  <2> QED BY <1>4, <2>1, <2>3 DEF TypeOK, Reap, store, sources, workers
<1>5. CASE Reaped \/ ReapGivesUp
  <2>1. reaping # None /\ reaping \in Retirement /\ reaping.source \in Source
    BY <1>5 DEF TypeOK, Retirement, Reaped, ReapGivesUp
  <2>2. health' \in [Name -> Health \cup {None}] /\ abandoned' \subseteq Source
    BY <1>5, <2>1 DEF TypeOK, Reaped, ReapGivesUp, store
  <2>3. /\ UNCHANGED <<version, closed, sources, reaperUp, queue, unreaped, workers,
                       edits, refusals>>
        /\ reaping' = None
    BY <1>5 DEF Reaped, ReapGivesUp, store
  <2> QED BY <2>2, <2>3 DEF TypeOK, Started, sources, workers
<1>6. ASSUME NEW n \in Name, AddSource(n)
      PROVE  TypeOK'
  <2>1. edits' \in 0..MaxEdits
    BY <1>6, BoundsAssumption DEF TypeOK, AddSource, Edit
  <2>2. Start(n)
    BY <1>6 DEF AddSource
  <2>3. Len(queue) <= Cardinality(Started')
    BY <2>2, StartIs DEF TypeOK
  <2> QED BY <1>6, <2>1, <2>2, <2>3, StartIs DEF TypeOK, AddSource, reaper, workers
<1>7. ASSUME NEW n \in Name, MoveSource(n)
      PROVE  TypeOK'
  <2>1. edits' \in 0..MaxEdits
    BY <1>7, BoundsAssumption DEF TypeOK, MoveSource, Edit
  <2>2. Start(n) /\ Retire(n, FALSE) /\ running[n] # None
    BY <1>7 DEF MoveSource
  <2>3. Len(queue') <= Cardinality(Started')
    <3>1. Len(queue) <= Cardinality(Started) /\ Len(queue) \in Nat
      BY DEF TypeOK
    <3>2. Cardinality(Started') = Cardinality(Started) + 1 /\ Cardinality(Started) \in Nat
      BY <2>2, StartIs
    <3>3. Len(queue') <= Len(queue) + 1 /\ Len(queue') \in Nat
      BY <2>2, RetireIs
    <3> QED BY <3>1, <3>2, <3>3
  <2>4. /\ stop' \in [Source -> BOOLEAN] /\ reaperUp' \in BOOLEAN /\ unreaped' \subseteq Source
        /\ queue' \in Seq(Retirement)
    BY <2>2, RetireIs
  <2>5. UNCHANGED <<version, closed, reaping, abandoned, workers, refusals>>
    BY <1>7 DEF MoveSource
  <2>6. /\ health' \in [Name -> Health \cup {None}]
        /\ running' \in [Name -> Source \cup {None}] /\ named' \in [Source -> Name \cup {None}]
        /\ poller' \in [Source -> {"none", "sleeping", "polling", "out"}]
    BY <2>2, StartIs
  <2> QED BY <2>1, <2>3, <2>4, <2>5, <2>6 DEF TypeOK, workers
<1>8. ASSUME NEW n \in Name, RemoveSource(n)
      PROVE  TypeOK'
  <2>1. edits' \in 0..MaxEdits
    BY <1>8, BoundsAssumption DEF TypeOK, RemoveSource, Edit
  <2>2. Retire(n, TRUE) /\ running[n] # None /\ Started' = Started
    BY <1>8 DEF RemoveSource, Started
  <2>3. Len(queue') <= Cardinality(Started')
    <3>1. Len(queue) + 1 <= Cardinality(Started)
      BY <2>2, RemovalFits
    <3>2. Len(queue') <= Len(queue) + 1 /\ Len(queue') \in Nat /\ Len(queue) \in Nat
      BY <2>2, RetireIs
    <3>3. Cardinality(Started) \in Nat
      BY NextIs
    <3> QED BY <2>2, <3>1, <3>2, <3>3
  <2>4. /\ stop' \in [Source -> BOOLEAN] /\ reaperUp' \in BOOLEAN /\ unreaped' \subseteq Source
        /\ queue' \in Seq(Retirement)
    BY <2>2, RetireIs
  <2>5. running' \in [Name -> Source \cup {None}]
    BY <1>8 DEF TypeOK, RemoveSource
  <2>6. UNCHANGED <<store, named, poller, reaping, abandoned, workers, refusals>>
    BY <1>8 DEF RemoveSource
  <2> QED BY <2>1, <2>3, <2>4, <2>5, <2>6 DEF TypeOK, store, workers
<1>9. ASSUME NEW ws, RetireWorkers(ws), edits' \in 0..MaxEdits
      PROVE  TypeOK'
  BY <1>9 DEF TypeOK, Started, RetireWorkers, store, sources, reaper
<1>10. ASSUME NEW w \in Screen, RetireScreen(w)
       PROVE  TypeOK'
  <2>1. edits' \in 0..MaxEdits /\ RetireWorkers({w})
    BY <1>10, BoundsAssumption DEF RetireScreen, Edit, TypeOK
  <2> QED BY <1>9, <2>1
<1>11. CASE RetireOrphans
  BY <1>9, <1>11 DEF RetireOrphans, TypeOK
<1>12. ASSUME NEW w \in Screen, StartScreen(w)
       PROVE  TypeOK'
  BY <1>12, BoundsAssumption DEF TypeOK, Started, StartScreen, Edit, store, sources, reaper
<1>13. CASE Wake
  BY <1>13, NotifiedType DEF TypeOK, Started, Wake, store, sources, reaper
<1>14. CASE Stop
  BY <1>14 DEF TypeOK, Started, Stop, reaper
<1>15. ASSUME NEW w \in Screen, ReadStore(w)
       PROVE  TypeOK'
  <2>1. Selected(health) \in Scene /\ version \in -1..MaxVersion
    BY BoundsAssumption DEF TypeOK, Selected, Scene
  <2> QED BY <1>15, <2>1 DEF TypeOK, Started, ReadStore, store, sources, reaper
<1>16. ASSUME NEW w \in Screen, Draw(w)
       PROVE  TypeOK'
  <2>1. refusals' \in 0..MaxRefusals
    BY <1>16, BoundsAssumption DEF TypeOK, Draw
  <2>2. /\ worker' \in [Screen -> {"awake", "reading", "waiting", "parked", "out"}]
        /\ seen' \in [Screen -> -1..MaxVersion] /\ glass' \in [Screen -> Scene \cup {"none"}]
    BY <1>16 DEF TypeOK, Draw, SeenBy
  <2> QED BY <1>16, <2>1, <2>2 DEF TypeOK, Started, Draw, store, sources, reaper
<1>17. ASSUME NEW w \in Screen, Park(w) \/ Floor(w) \/ Leave(w)
       PROVE  TypeOK'
  <2>1. worker' \in [Screen -> {"awake", "reading", "waiting", "parked", "out"}]
    <3>1. worker \in [Screen -> {"awake", "reading", "waiting", "parked", "out"}]
      BY DEF TypeOK
    <3>2. \E l \in {"awake", "parked", "out"} : worker' = [worker EXCEPT ![w] = l]
      BY <1>17 DEF Park, Floor, Leave
    <3> QED BY <3>1, <3>2
  <2>2. UNCHANGED <<store, sources, reaper, retired, read, seen, glass, waking, edits, refusals>>
    BY <1>17 DEF Park, Floor, Leave
  <2> QED BY <2>1, <2>2 DEF TypeOK, Started, store, sources, reaper
<1> QED BY <1>1, <1>2, <1>3, <1>4, <1>5, <1>6, <1>7, <1>8, <1>10, <1>11, <1>12, <1>13,
           <1>14, <1>15, <1>16, <1>17
        DEF Next, PollStep, WorkerStep, ReaperStep, ApplyEnds

-----------------------------------------------------------------------------
(* The sources and the reaper.                                             *)

LEMMA Cases ==
  ASSUME Next
  PROVE  \/ \E n \in Name : AddSource(n) \/ MoveSource(n) \/ RemoveSource(n)
         \/ Reap \/ Reaped \/ ReapGivesUp
         \/ UNCHANGED <<handed, abandoned, unreaped>>
BY DEF Next, PollStep, WorkerStep, ReaperStep, ApplyEnds, PollBegins, Publish, FailPoll,
       PollerEnds, ReadStore, Draw, Park, Floor, Leave, RetireScreen, RetireOrphans,
       RetireWorkers, StartScreen, Wake, Stop, sources, reaper, handed

\* What each edit of the sources does to what the reaper has and what runs.
LEMMA AddIs ==
  ASSUME TypeOK, Numbered, NEW n \in Name, AddSource(n)
  PROVE  /\ Start(n) /\ UNCHANGED <<reaperUp, queue, reaping, abandoned, unreaped>>
         /\ Items' = Items /\ running[n] = None
BY DEF AddSource, Items, reaper

\* Where a source that is retired is found.
LEMMA RetiredIs ==
  ASSUME TypeOK, Numbered, NEW n \in Name, running[n] # None, NEW drop \in BOOLEAN, Retire(n, drop),
         UNCHANGED <<reaping, abandoned>>
  PROVE  /\ \/ HandOver(n, drop) /\ Items' = Items \cup {[source |-> running[n], drop |-> drop]}
            \/ NoReaper(n) /\ queue' = queue /\ Items' = Items
         /\ \A item \in Items : item \in Items'
         /\ Unwaited \subseteq Unwaited'
         /\ running[n] \in Unwaited' \/ \E item \in Items' : item.source = running[n]
<1> DEFINE new == [source |-> running[n], drop |-> drop]
<1>1. HandOver(n, drop) \/ NoReaper(n)
  BY RetireIs
<1>2. CASE HandOver(n, drop)
  <2>1. /\ Len(queue) \in Nat /\ Len(queue') = Len(queue) + 1
        /\ \A k \in 1..Len(queue) : queue'[k] = queue[k]
        /\ queue'[Len(queue) + 1] = new
    BY <1>2, HandOverIs
  <2>2. Items' = Items \cup {new} /\ new \in Items' /\ new.source = running[n]
    BY <2>1, ItemsGrow
  <2>3. Unwaited' = Unwaited
    BY <1>2 DEF HandOver, Unwaited
  <2> QED BY <1>2, <2>2, <2>3
<1>3. CASE NoReaper(n)
  BY <1>3 DEF NoReaper, Items, Unwaited
<1> QED BY <1>1, <1>2, <1>3

LEMMA MoveIs ==
  ASSUME TypeOK, Numbered, NEW n \in Name, MoveSource(n)
  PROVE  /\ Start(n) /\ Retire(n, FALSE) /\ running[n] # None /\ UNCHANGED <<reaping, abandoned>>
BY DEF MoveSource

LEMMA RemoveIs ==
  ASSUME TypeOK, Numbered, NEW n \in Name, RemoveSource(n)
  PROVE  /\ Retire(n, TRUE) /\ running[n] # None /\ UNCHANGED <<named, poller, reaping, abandoned>>
         /\ running'[n] = None /\ \A m \in Name \ {n} : running'[m] = running[m]
         /\ Started' = Started
BY DEF RemoveSource, TypeOK, Started

LEMMA NumberedStep ==
  ASSUME TypeOK, Numbered, Next
  PROVE  Numbered'
<1>1. ASSUME NEW n \in Name, AddSource(n) \/ MoveSource(n)
      PROVE  Numbered'
  BY <1>1, AddIs, MoveIs, StartIs
<1>2. ASSUME NEW n \in Name, RemoveSource(n)
      PROVE  Numbered'
  BY <1>2, RemoveIs DEF Numbered
<1>3. CASE UNCHANGED <<running, named>>
  BY <1>3 DEF Numbered, Started
<1> QED BY <1>1, <1>2, <1>3, Cases, ReapsIs DEF Reap, sources, handed

LEMMA IdleStep ==
  ASSUME Idle, Next
  PROVE  Idle'
<1>1. CASE \E n \in Name : AddSource(n)
  BY <1>1 DEF AddSource, Idle, reaper
<1>2. CASE \E n \in Name : MoveSource(n) \/ RemoveSource(n)
  BY <1>2 DEF MoveSource, RemoveSource, Retire, HandOver, NoReaper, Idle
<1>3. CASE Reap \/ Reaped \/ ReapGivesUp
  BY <1>3 DEF Reap, Reaped, ReapGivesUp, Idle
<1>4. CASE UNCHANGED handed
  BY <1>4 DEF Idle, handed
<1> QED BY <1>1, <1>2, <1>3, <1>4, Cases

LEMMA HandedOnceStep ==
  ASSUME TypeOK, Numbered, HandedOnce, Next
  PROVE  HandedOnce'
<1>1. ASSUME NEW n \in Name, Start(n), UNCHANGED queue, Items' = Items
      PROVE  HandedOnce'
  <2>1. \A item \in Items' : item.source \in Started' /\ item.source # NextSource
    BY <1>1, StartIs DEF HandedOnce
  <2>2. \A m \in Name : running'[m] = NextSource \/ running'[m] = running[m]
    BY <1>1, StartIs
  <2> QED BY <1>1, <2>1, <2>2 DEF HandedOnce
<1>2. ASSUME NEW n \in Name, MoveSource(n), HandOver(n, FALSE),
             Items' = Items \cup {[source |-> running[n], drop |-> FALSE]}
      PROVE  HandedOnce'
  <2>1. /\ running[n] \in Started /\ running[n] # None
        /\ Started' = Started \cup {NextSource} /\ NextSource \notin Started
    BY <1>2, MoveIs, StartIs DEF Numbered
  <2>2. \A m \in Name : running'[m] = NextSource \/ (m # n /\ running'[m] = running[m])
    BY <1>2, MoveIs, StartIs
  <2>3. \A m \in Name \ {n} : running[m] # running[n]
    BY <2>1 DEF Numbered
  <2>4. ASSUME NEW item \in Items'
        PROVE  item.source \in Started' /\ \A m \in Name : running'[m] # item.source
    <3>1. item \in Items \/ item = [source |-> running[n], drop |-> FALSE]
      BY <1>2, <2>4
    <3>2. CASE item \in Items
      BY <2>1, <2>2, <3>2 DEF HandedOnce
    <3>3. CASE item.source = running[n]
      BY <2>1, <2>2, <2>3, <3>3
    <3> QED BY <3>1, <3>2, <3>3
  <2>5. /\ Len(queue) \in Nat /\ Len(queue') = Len(queue) + 1
        /\ \A k \in 1..Len(queue) : queue'[k] = queue[k] /\ queue[k].source # running[n]
        /\ queue'[Len(queue) + 1].source = running[n]
    BY <1>2, MoveIs, HandOverIs DEF HandedOnce, Items
  <2>6. \A j, k \in 1..Len(queue') : queue'[j].source = queue'[k].source => j = k
    BY <2>5 DEF HandedOnce
  <2> QED BY <2>4, <2>6 DEF HandedOnce
<1>3. ASSUME NEW n \in Name, RemoveSource(n),
             \/ /\ HandOver(n, TRUE)
                /\ Items' = Items \cup {[source |-> running[n], drop |-> TRUE]}
             \/ queue' = queue /\ Items' = Items
      PROVE  HandedOnce'
  <2>1. running[n] \in Started /\ running[n] # None /\ Started' = Started
    BY <1>3, RemoveIs DEF Numbered
  <2>2. \A m \in Name : running'[m] = None \/ (m # n /\ running'[m] = running[m])
    BY <1>3, RemoveIs
  <2>3. \A m \in Name \ {n} : running[m] # running[n]
    BY <2>1 DEF Numbered
  <2>4. ASSUME NEW item \in Items'
        PROVE  item.source \in Started' /\ \A m \in Name : running'[m] # item.source
    <3>1. item \in Items \/ item = [source |-> running[n], drop |-> TRUE]
      BY <1>3, <2>4
    <3>2. item.source \in Started
      BY <2>1, <3>1 DEF HandedOnce
    <3>3. item.source # None
      BY <3>2, Distinct DEF Started
    <3>4. CASE item \in Items
      BY <2>1, <2>2, <3>2, <3>3, <3>4 DEF HandedOnce
    <3>5. CASE item.source = running[n]
      BY <2>1, <2>2, <2>3, <3>3, <3>5
    <3> QED BY <3>1, <3>4, <3>5
  <2>5. CASE HandOver(n, TRUE)
    <3>1. \A k \in 1..Len(queue) : queue[k].source # running[n]
      BY DEF HandedOnce, Items
    <3>2. /\ Len(queue) \in Nat /\ Len(queue') = Len(queue) + 1
          /\ \A k \in 1..Len(queue) : queue'[k] = queue[k] /\ queue[k].source # running[n]
          /\ queue'[Len(queue) + 1].source = running[n]
      BY <1>3, <2>5, <3>1, RemoveIs, HandOverIs
    <3>3. \A j, k \in 1..Len(queue') : queue'[j].source = queue'[k].source => j = k
      BY <3>2 DEF HandedOnce
    <3> QED BY <2>4, <3>3 DEF HandedOnce
  <2>6. CASE queue' = queue
    BY <2>4, <2>6 DEF HandedOnce
  <2> QED BY <1>3, <2>5, <2>6
<1>4. CASE Reap
  <2>1. \A j, k \in 1..Len(queue') : queue'[j].source = queue'[k].source => j = k
    <3>1. \A k \in 1..Len(queue') : k + 1 \in 1..Len(queue) /\ queue'[k] = queue[k + 1] /\ k \in Nat
      BY <1>4, ReapIs
    <3>2. ASSUME NEW j \in 1..Len(queue'), NEW k \in 1..Len(queue'),
                 queue'[j].source = queue'[k].source
          PROVE  j = k
      <4>1. /\ j + 1 \in 1..Len(queue) /\ k + 1 \in 1..Len(queue)
            /\ queue[j + 1].source = queue[k + 1].source
        BY <3>1, <3>2
      <4>2. j + 1 = k + 1
        BY <4>1 DEF HandedOnce
      <4> QED BY <3>1, <4>2
    <3> QED BY <3>2
  <2>2. UNCHANGED <<running, Started, Items>>
    BY <1>4, ReapIs DEF Reap, sources, Started
  <2> QED BY <2>1, <2>2 DEF HandedOnce
<1>5. CASE Reaped \/ ReapGivesUp
  <2>1. /\ \A item \in Items' : item \in Items
        /\ UNCHANGED <<running, Started, queue>>
    BY <1>5, ReapsIs DEF sources, Started
  <2> QED BY <2>1 DEF HandedOnce
<1>6. CASE UNCHANGED handed
  BY <1>6 DEF HandedOnce, Items, Started, handed
<1>7. ASSUME NEW n \in Name, AddSource(n)
      PROVE  HandedOnce'
  BY <1>1, <1>7, AddIs
<1>8. ASSUME NEW n \in Name, MoveSource(n)
      PROVE  HandedOnce'
  BY <1>1, <1>2, <1>8, MoveIs, RetiredIs
<1>9. ASSUME NEW n \in Name, RemoveSource(n)
      PROVE  HandedOnce'
  BY <1>3, <1>9, RemoveIs, RetiredIs
<1> QED BY <1>4, <1>5, <1>6, <1>7, <1>8, <1>9, Cases

\* The names of the sources the reaper has are what they were.
LEMMA NamesKept ==
  ASSUME TypeOK, Numbered, HandedOnce, Next
  PROVE  \A item \in Items : /\ item.source \in Started /\ named[item.source] \in Name
                             /\ named'[item.source] = named[item.source]
<1>1. \A item \in Items : item.source \in Started /\ named[item.source] \in Name
  BY StartedIs DEF HandedOnce, Started
<1>2. \A i \in Started : named'[i] = named[i]
  <2>1. ASSUME NEW n \in Name, AddSource(n) \/ MoveSource(n)
        PROVE  \A i \in Started : named'[i] = named[i]
    BY <2>1, AddIs, MoveIs, StartIs
  <2> QED BY <2>1, Cases, ReapsIs DEF RemoveSource, Reap, sources, handed
<1> QED BY <1>1, <1>2

LEMMA SuccessionStep ==
  ASSUME TypeOK, Numbered, Idle, HandedOnce, Succession, Next
  PROVE  Succession'
<1>1. \A k \in 1..Len(queue) : queue[k] \in Items
  BY DEF Items
<1>2. reaping # None => reaping \in Items
  BY DEF Items
<1>3. Len(queue) \in Nat
  BY DEF TypeOK
<1>4. ASSUME NEW n \in Name, Start(n), UNCHANGED <<queue, reaping>>
      PROVE  Succession'
  <2>1. \A m \in Name : running[m] # None => running'[m] # None
    BY <1>4, StartIs, Distinct
  <2>2. UNCHANGED <<queue, reaping>>
    BY <1>4
  <2>3. ASSUME NEW k \in 0..Len(queue), NEW item \in Items, Followed(item, k)
        PROVE  Followed(item, k)'
    BY <1>1, <2>1, <2>2, <2>3, NamesKept DEF Followed
  <2> QED BY <1>1, <1>2, <1>3, <2>2, <2>3 DEF Succession
<1>5. ASSUME NEW n \in Name, MoveSource(n), HandOver(n, FALSE)
      PROVE  Succession'
  <2>1. /\ \A m \in Name : running[m] # None => running'[m] # None
        /\ running'[n] # None
    <3>1. NextSource # None /\ Start(n)
      BY <1>5, MoveIs, StartIs, Distinct
    <3>2. running'[n] = NextSource /\ \A m \in Name \ {n} : running'[m] = running[m]
      BY <3>1, StartIs
    <3> QED BY <3>1, <3>2
  <2>2. /\ Len(queue') = Len(queue) + 1 /\ reaping' = reaping
        /\ \A k \in 1..Len(queue) : queue'[k] = queue[k]
        /\ queue'[Len(queue) + 1].source = running[n]
    BY <1>5, MoveIs, HandOverIs
  <2>3. ASSUME NEW k \in 0..Len(queue), NEW item \in Items, Followed(item, k)
        PROVE  Followed(item, k)'
    BY <1>1, <1>3, <2>1, <2>2, <2>3, NamesKept DEF Followed
  <2>4. named'[running[n]] = n
    BY <1>5, MoveIs, StartIs DEF Numbered
  <2>5. Followed(queue[Len(queue)], Len(queue))'
    BY <2>1, <2>2, <2>4 DEF Followed
  <2>6. ASSUME NEW k \in 1..Len(queue')
        PROVE  queue'[k].drop \/ Followed(queue[k], k)'
    <3>1. k \in 1..Len(queue) \/ k = Len(queue')
      BY <1>3, <2>2
    <3>2. CASE k \in 1..Len(queue)
      <4>1. queue[k] \in Items /\ (queue[k].drop \/ Followed(queue[k], k))
        BY <1>1, <3>2 DEF Succession
      <4> QED BY <1>3, <2>2, <2>3, <3>2, <4>1
    <3> QED BY <2>5, <3>1, <3>2
  <2>7. reaping' # None => reaping'.drop \/ Followed(reaping, 0)'
    BY <1>2, <1>3, <2>2, <2>3 DEF Succession
  <2> QED BY <2>6, <2>7 DEF Succession
<1>6. ASSUME NEW n \in Name, RemoveSource(n), HandOver(n, TRUE)
      PROVE  Succession'
  <2>1. \A m \in Name \ {n} : running'[m] = running[m]
    BY <1>6, RemoveIs
  <2>2. /\ Len(queue') = Len(queue) + 1 /\ reaping' = reaping
        /\ \A k \in 1..Len(queue) : queue'[k] = queue[k]
        /\ queue'[Len(queue) + 1].source = running[n] /\ queue'[Len(queue) + 1].drop
    BY <1>6, RemoveIs, HandOverIs
  <2>3. named'[running[n]] = n /\ named' = named
    BY <1>6, RemoveIs DEF Numbered
  <2>4. ASSUME NEW k \in 0..Len(queue), NEW item \in Items, Followed(item, k)
        PROVE  Followed(item, k)'
    <3>1. CASE named[item.source] = n
      BY <1>3, <2>2, <2>3, <3>1 DEF Followed
    <3>2. CASE named[item.source] # n
      BY <1>1, <1>3, <2>1, <2>2, <2>3, <2>4, <3>2, NamesKept DEF Followed
    <3> QED BY <3>1, <3>2
  <2>5. ASSUME NEW k \in 1..Len(queue')
        PROVE  queue'[k].drop \/ Followed(queue[k], k)'
    <3>1. k \in 1..Len(queue) \/ k = Len(queue')
      BY <1>3, <2>2
    <3>2. CASE k \in 1..Len(queue)
      <4>1. queue[k] \in Items /\ (queue[k].drop \/ Followed(queue[k], k))
        BY <1>1, <3>2 DEF Succession
      <4> QED BY <1>3, <2>2, <2>4, <3>2, <4>1
    <3> QED BY <2>2, <3>1, <3>2
  <2>6. reaping' # None => reaping'.drop \/ Followed(reaping, 0)'
    BY <1>2, <1>3, <2>2, <2>4 DEF Succession
  <2> QED BY <2>5, <2>6 DEF Succession
<1>7. CASE Reap
  <2>1. /\ Len(queue) \in Nat /\ Len(queue') = Len(queue) - 1 /\ Len(queue) >= 1
        /\ \A k \in 1..Len(queue') : queue'[k] = queue[k + 1]
        /\ reaping' = queue[1]
    BY <1>7, ReapIs
  <2>2. UNCHANGED <<running, named>>
    BY <1>7 DEF Reap, sources
  <2>3. ASSUME NEW k \in 0..Len(queue'), NEW item, Followed(item, k + 1)
        PROVE  Followed(item, k)'
    <3>1. CASE running[named[item.source]] # None
      BY <2>2, <3>1 DEF Followed
    <3>2. CASE running[named[item.source]] = None
      <4>1. PICK m \in k + 2..Len(queue) :
                    queue[m].drop /\ named[queue[m].source] = named[item.source]
        BY <2>3, <3>2 DEF Followed
      <4>2. m - 1 \in k + 1..Len(queue') /\ queue'[m - 1] = queue[m]
        BY <2>1, <4>1
      <4> QED BY <2>2, <4>1, <4>2 DEF Followed
    <3> QED BY <3>1, <3>2
  <2>4. ASSUME NEW k \in 1..Len(queue')
        PROVE  queue'[k].drop \/ Followed(queue[k], k)'
    BY <2>1, <2>3 DEF Succession
  <2>5. reaping'.drop \/ Followed(reaping, 0)'
    BY <2>1, <2>3 DEF Succession
  <2> QED BY <2>4, <2>5 DEF Succession
<1>8. CASE Reaped \/ ReapGivesUp
  BY <1>8, ReapsIs DEF Succession, Followed, sources
<1>9. CASE UNCHANGED handed
  BY <1>9 DEF Succession, Followed, handed
<1>10. ASSUME NEW n \in Name, NoReaper(n), UNCHANGED reaping
       PROVE  Succession'
  <2>1. queue' = <<>> /\ reaping' = None
    BY <1>10 DEF Idle, NoReaper
  <2> QED BY <2>1 DEF Succession
<1>11. ASSUME NEW n \in Name, AddSource(n)
       PROVE  Succession'
  BY <1>4, <1>11, AddIs
<1>12. ASSUME NEW n \in Name, MoveSource(n)
       PROVE  Succession'
  BY <1>5, <1>10, <1>12, MoveIs, RetireIs
<1>13. ASSUME NEW n \in Name, RemoveSource(n)
       PROVE  Succession'
  BY <1>6, <1>10, <1>13, RemoveIs, RetireIs
<1> QED BY <1>7, <1>8, <1>9, <1>11, <1>12, <1>13, Cases

LEMMA AccountedStep ==
  ASSUME TypeOK, Numbered, HandedOnce, Accounted, Next
  PROVE  Accounted'
<1> DEFINE Has(i) == running[named[i]] = i \/ i \in Unwaited \/ \E item \in Items : item.source = i
<1>1. ASSUME NEW n \in Name, AddSource(n) \/ MoveSource(n)
      PROVE  Accounted'
  <2>1. /\ Started' = Started \cup {NextSource} /\ running'[n] = NextSource /\ named'[NextSource] = n
        /\ \A m \in Name \ {n} : running'[m] = running[m]
        /\ \A i \in Started : named'[i] = named[i] /\ poller'[i] = poller[i]
    BY <1>1, AddIs, MoveIs, StartIs
  <2>2. /\ \A item \in Items : item \in Items'
        /\ Unwaited \subseteq Unwaited'
        /\ running[n] # None =>
             running[n] \in Unwaited' \/ \E item \in Items' : item.source = running[n]
    <3>1. CASE AddSource(n)
      BY <3>1, AddIs DEF Unwaited
    <3>2. CASE MoveSource(n)
      BY <3>2, MoveIs, RetiredIs
    <3> QED BY <1>1, <3>1, <3>2
  <2>3. ASSUME NEW i \in Started, poller'[i] \in {"sleeping", "polling"}
        PROVE  \/ running'[named'[i]] = i \/ i \in Unwaited' \/ \E item \in Items' : item.source = i
    <3>1. Has(i) /\ named[i] \in Name /\ i # None
      BY <2>1, <2>3, StartedIs, Distinct DEF Accounted, Started
    <3> QED BY <2>1, <2>2, <3>1
  <2> QED BY <2>1, <2>3 DEF Accounted
<1>2. ASSUME NEW n \in Name, RemoveSource(n)
      PROVE  Accounted'
  <2>1. /\ \A m \in Name \ {n} : running'[m] = running[m]
        /\ UNCHANGED <<named, poller>>
        /\ \A item \in Items : item \in Items'
        /\ Unwaited \subseteq Unwaited'
        /\ running[n] \in Unwaited' \/ \E item \in Items' : item.source = running[n]
    BY <1>2, RemoveIs, RetiredIs
  <2>2. ASSUME NEW i \in Started, poller[i] \in {"sleeping", "polling"}
        PROVE  \/ running'[named[i]] = i \/ i \in Unwaited' \/ \E item \in Items' : item.source = i
    <3>1. Has(i) /\ named[i] \in Name
      BY <2>2, StartedIs DEF Accounted, Started
    <3> QED BY <2>1, <3>1
  <2>3. Started' = Started
    BY <1>2, RemoveIs
  <2> QED BY <2>1, <2>2, <2>3 DEF Accounted
<1>3. CASE Reap
  <2>1. UNCHANGED <<running, named, poller, Unwaited, Started, Items>>
    BY <1>3, ReapIs DEF Reap, sources, Started, Unwaited
  <2> QED BY <2>1 DEF Accounted
<1>4. CASE Reaped \/ ReapGivesUp
  <2>1. /\ UNCHANGED <<running, named, poller, Started>> /\ Items = Items' \cup {reaping}
        /\ Unwaited \subseteq Unwaited'
    BY <1>4, ReapsIs DEF Reaped, ReapGivesUp, sources, Started, Unwaited
  <2>2. poller[reaping.source] \in {"none", "out"} \/ reaping.source \in Unwaited'
    BY <1>4 DEF Reaped, Forgotten, ReapGivesUp, Unwaited
  <2>3. ASSUME NEW i \in Started, poller[i] \in {"sleeping", "polling"}
        PROVE  \/ running[named[i]] = i \/ i \in Unwaited' \/ \E item \in Items' : item.source = i
    <3>1. Has(i)
      BY <2>3 DEF Accounted
    <3> QED BY <2>1, <2>2, <2>3, <3>1
  <2> QED BY <2>1, <2>3 DEF Accounted
<1>5. ASSUME NEW i \in Source, PollStep(i)
      PROVE  Accounted'
  <2>1. UNCHANGED <<running, named, Unwaited, Started, Items>>
    BY <1>5 DEF PollStep, PollBegins, Publish, FailPoll, PollerEnds, reaper, Started, Items, Unwaited
  <2>2. \A j \in Source : poller'[j] \in {"sleeping", "polling"} => poller[j] \in {"sleeping", "polling"}
    BY <1>5 DEF TypeOK, PollStep, PollBegins, Publish, FailPoll, PollerEnds
  <2> QED BY <2>1, <2>2 DEF Accounted, Started
<1>6. CASE UNCHANGED <<handed, poller, abandoned, unreaped>>
  <2>1. UNCHANGED <<running, named, poller, Unwaited, Started, Items>>
    BY <1>6 DEF handed, Started, Items, Unwaited
  <2> QED BY <2>1 DEF Accounted
<1> QED BY <1>1, <1>2, <1>3, <1>4, <1>5, <1>6
        DEF Next, WorkerStep, ReaperStep, ApplyEnds, ReadStore, Draw, Park, Floor, Leave,
            RetireScreen, RetireOrphans, RetireWorkers, StartScreen, Wake, Stop, sources, reaper, handed

-----------------------------------------------------------------------------
(* The workers and the store.                                              *)

LEMMA VersionsStep ==
  ASSUME TypeOK, Versions, Next
  PROVE  Versions'
<1>1. ASSUME NEW i \in Source, Publish(i)
      PROVE  Versions'
  <2>1. version' = version + 1 /\ version \in Nat /\ UNCHANGED <<read, seen>>
    BY <1>1, BoundsAssumption DEF TypeOK, Publish
  <2>2. \A w \in Screen : worker'[w] \in {"waiting", "parked"} => worker[w] \in {"waiting", "parked"}
    BY <1>1, NotifiedType DEF Publish
  <2> QED BY <2>1, <2>2, BoundsAssumption DEF TypeOK, Versions
<1>2. ASSUME NEW w \in Screen, ReadStore(w)
      PROVE  Versions'
  BY <1>2, BoundsAssumption DEF TypeOK, Versions, ReadStore, store
<1>3. ASSUME NEW w \in Screen, Draw(w)
      PROVE  Versions'
  BY <1>3, BoundsAssumption DEF TypeOK, Versions, Draw, SeenBy, store
<1>4. ASSUME NEW w \in Screen, StartScreen(w)
      PROVE  Versions'
  BY <1>4, BoundsAssumption DEF TypeOK, Versions, StartScreen, store
<1>5. ASSUME UNCHANGED <<version, read, seen>>,
             \A w \in Screen : worker'[w] \in {"waiting", "parked"} => worker[w] \in {"waiting", "parked"}
      PROVE  Versions'
  BY <1>5 DEF Versions
<1>6. CASE Wake \/ Stop
  BY <1>5, <1>6, NotifiedType DEF Wake, Stop, store
<1>7. ASSUME NEW w \in Screen, Park(w) \/ Floor(w) \/ Leave(w)
      PROVE  Versions'
  BY <1>5, <1>7 DEF TypeOK, Park, Floor, Leave, store
<1>8. CASE UNCHANGED <<version, read, seen, worker>>
  BY <1>8 DEF Versions
<1> QED BY <1>1, <1>2, <1>3, <1>4, <1>6, <1>7, <1>8
        DEF Next, PollStep, WorkerStep, ReaperStep, ApplyEnds, PollBegins, FailPoll, PollerEnds,
            AddSource, MoveSource, RemoveSource, RetireScreen, RetireOrphans, RetireWorkers,
            Reap, Reaped, ReapGivesUp, store, workers

LEMMA NothingUnseenStep ==
  ASSUME TypeOK, Versions, NothingUnseen, Next
  PROVE  NothingUnseen'
<1>1. ASSUME NEW i \in Source, Publish(i)
      PROVE  NothingUnseen'
  <2>1. worker' = Notified(version + 1)
    BY <1>1 DEF Publish
  <2>2. \A w \in Screen : worker[w] = "parked" => Released(w, version + 1)
    BY BoundsAssumption DEF TypeOK, Versions, Released
  <2>3. \A w \in Screen : worker'[w] # "parked"
    BY <2>1, <2>2, NotifiedType
  <2> QED BY <2>3 DEF NothingUnseen
<1>2. CASE Wake
  <2>1. worker' = Notified(version) /\ UNCHANGED <<version, closed, retired, read, seen>>
    BY <1>2 DEF Wake, store
  <2>2. \A w \in Screen : worker'[w] = "parked" => worker[w] = "parked" /\ ~Released(w, version)
    BY <2>1, NotifiedType
  <2> QED BY <2>1, <2>2 DEF NothingUnseen, Released, Versions
<1>3. CASE Stop
  BY <1>3 DEF TypeOK, NothingUnseen, Stop
<1>4. ASSUME NEW w \in Screen, Park(w)
      PROVE  NothingUnseen'
  <2>1. /\ UNCHANGED <<version, closed, retired, read, waking>> /\ worker[w] = "waiting"
        /\ \A x \in Screen \ {w} : worker'[x] = worker[x]
        /\ worker'[w] = "parked" => ~Released(w, version)
    BY <1>4 DEF TypeOK, Park, store
  <2>2. worker'[w] = "parked" => read[w].version = version /\ ~closed /\ ~retired[w]
    BY <2>1 DEF Versions, Released
  <2> QED BY <2>1, <2>2 DEF NothingUnseen
<1>5. ASSUME NEW w \in Screen, ReadStore(w) \/ Draw(w) \/ Floor(w) \/ Leave(w) \/ StartScreen(w)
      PROVE  NothingUnseen'
  <2>1. /\ UNCHANGED <<version, closed, waking>> /\ worker'[w] # "parked"
        /\ \A x \in Screen \ {w} : /\ worker'[x] = worker[x] /\ read'[x] = read[x]
                                   /\ retired'[x] = retired[x]
    BY <1>5 DEF TypeOK, ReadStore, Draw, Floor, Leave, StartScreen, store
  <2> QED BY <2>1 DEF NothingUnseen
<1>6. CASE waking'
  BY <1>6 DEF NothingUnseen
<1>7. CASE UNCHANGED <<version, closed, worker, retired, read, waking>>
  BY <1>7 DEF NothingUnseen
<1> QED BY <1>1, <1>2, <1>3, <1>4, <1>5, <1>6, <1>7
        DEF Next, PollStep, WorkerStep, ReaperStep, ApplyEnds, PollBegins, FailPoll, PollerEnds,
            AddSource, MoveSource, RemoveSource, RetireScreen, RetireOrphans, RetireWorkers,
            Reap, Reaped, ReapGivesUp, store, workers

-----------------------------------------------------------------------------
(* The rack that boots.                                                    *)

\* The names it boots with are numbered one to one.
LEMMA Injective ==
  LET N == Cardinality(Name)
      first == CHOOSE f \in [Name -> 1..N] : \A m, n \in Name : m # n => f[m] # f[n]
  IN  /\ first \in [Name -> 1..N] /\ N \in 0..MaxSources
      /\ \A m, n \in Name : m # n => first[m] # first[n]
      /\ \A i \in 1..N : \E n \in Name : first[n] = i
<1> DEFINE N == Cardinality(Name)
           first == CHOOSE f \in [Name -> 1..N] : \A m, n \in Name : m # n => f[m] # f[n]
<1>1. N \in Nat /\ N <= MaxSources
  BY NameAssumption, FS_CardinalityType
<1>2. IsFiniteSet(1..N) /\ Cardinality(1..N) = N
  BY <1>1, FS_Interval
<1>3. ExistsBijection(Name, 1..N)
  BY <1>2, NameAssumption, FS_SameCardinalityBij
<1>4. PICK g : g \in Bijection(Name, 1..N)
  BY <1>3 DEF ExistsBijection
<1>5. g \in [Name -> 1..N] /\ \A m, n \in Name : m # n => g[m] # g[n]
  BY <1>4 DEF Bijection, Injection, IsInjective
<1>6. first \in [Name -> 1..N] /\ \A m, n \in Name : m # n => first[m] # first[n]
  BY <1>5
<1> HIDE DEF first
<1>7. first \in Injection(Name, 1..N)
  BY <1>6 DEF Injection, IsInjective
<1>8. first \in Surjection(Name, 1..N)
  BY <1>2, <1>7, FS_Injection
<1>9. \A i \in 1..N : \E n \in Name : first[n] = i
  BY <1>8 DEF Surjection
<1>10. N \in 0..MaxSources
  BY <1>1, BoundsAssumption
<1> HIDE DEF N
<1>11. /\ first \in [Name -> 1..N] /\ N \in 0..MaxSources
       /\ \A m, n \in Name : m # n => first[m] # first[n]
       /\ \A i \in 1..N : \E n \in Name : first[n] = i
  BY <1>6, <1>9, <1>10
<1> QED BY ONLY <1>11 DEF first, N

LEMMA InitInv ==
  ASSUME Init
  PROVE  SourceInv
<1> DEFINE N == Cardinality(Name)
           first == CHOOSE f \in [Name -> 1..N] : \A m, n \in Name : m # n => f[m] # f[n]
<1>1. /\ first \in [Name -> 1..N] /\ N \in 0..MaxSources
      /\ \A m, n \in Name : m # n => first[m] # first[n]
      /\ \A i \in 1..N : \E n \in Name : first[n] = i
  BY Injective
<1>2. /\ running = first
      /\ named = [i \in Source |-> IF i \in 1..N THEN CHOOSE n \in Name : first[n] = i ELSE None]
  BY DEF Init
<1> HIDE DEF first, N
<1>3. 1..N \subseteq Source
  BY <1>1, BoundsAssumption DEF Source
<1>4. \A i \in Source : IF i \in 1..N THEN named[i] \in Name /\ running[named[i]] = i ELSE named[i] = None
  BY <1>1, <1>2
<1>5. named \in [Source -> Name \cup {None}] /\ running \in [Name -> Source \cup {None}]
  BY <1>1, <1>2, <1>3, <1>4
<1>6. Started = 1..N
  BY <1>3, <1>4, Distinct DEF Started
<1>7. Numbered
  <2>1. \A n \in Name : running[n] \in 1..N
    BY <1>1, <1>2
  <2>2. \A n \in Name : named[running[n]] = n
    BY <1>1, <1>2, <1>3, <1>4, <2>1
  <2> QED BY <1>1, <1>6, <2>1, <2>2 DEF Numbered
<1>8. Items = {} /\ Len(queue) = 0 /\ reaping = None
  BY DEF Init, Items
<1>9. TypeOK
  <2>1. Cardinality(Started) = N /\ N \in Nat
    BY <1>1, <1>6, FS_Interval, BoundsAssumption
  <2>2. queue \in Seq(Retirement) /\ Len(queue) <= Cardinality(Started)
    BY <1>8, <2>1 DEF Init
  <2>3. health \in [Name -> Health \cup {None}]
    BY HealthType DEF Init
  <2>4. /\ stop \in [Source -> BOOLEAN] /\ poller \in [Source -> {"none", "sleeping", "polling", "out"}]
        /\ worker \in [Screen -> {"awake", "reading", "waiting", "parked", "out"}]
        /\ retired \in [Screen -> BOOLEAN] /\ glass \in [Screen -> Scene \cup {"none"}]
    BY DEF Init
  <2>5. /\ read \in [Screen -> [version : -1..MaxVersion, scene : Scene \cup {"none"}]]
        /\ seen \in [Screen -> -1..MaxVersion]
    BY BoundsAssumption DEF Init
  <2>6. /\ version \in 0..MaxVersion /\ edits \in 0..MaxEdits /\ refusals \in 0..MaxRefusals
        /\ closed \in BOOLEAN /\ waking \in BOOLEAN /\ reaping = None
        /\ reaperUp \in BOOLEAN /\ abandoned \subseteq Source /\ unreaped \subseteq Source
    <3>1. MaxVersion \in Nat /\ MaxEdits \in Nat /\ MaxRefusals \in Nat
      BY BoundsAssumption
    <3>2. /\ version = 0 /\ edits = 0 /\ refusals = 0 /\ closed = FALSE /\ waking = FALSE
          /\ reaping = None /\ abandoned = {} /\ unreaped = {} /\ reaperUp = FALSE
      BY DEF Init
    <3>3. /\ closed \in BOOLEAN /\ waking \in BOOLEAN
          /\ reaperUp \in BOOLEAN /\ abandoned \subseteq Source /\ unreaped \subseteq Source
      BY <3>2, Zenon
    <3>4. version \in 0..MaxVersion /\ edits \in 0..MaxEdits /\ refusals \in 0..MaxRefusals
      BY <3>1, <3>2
    <3> QED BY <3>2, <3>3, <3>4
  <2> QED BY <1>5, <2>2, <2>3, <2>4, <2>5, <2>6 DEF TypeOK
<1>10. HandedOnce /\ Succession /\ Idle
  BY <1>8 DEF HandedOnce, Succession, Init, Idle
<1>11. Accounted
  BY <1>3, <1>4, <1>6 DEF Accounted
<1>12. Versions /\ NothingUnseen
  BY DEF Init, Versions, NothingUnseen
<1> QED BY <1>7, <1>9, <1>10, <1>11, <1>12 DEF SourceInv

-----------------------------------------------------------------------------
(* The theorems.                                                           *)

LEMMA AlwaysSourceInv == Spec => []SourceInv
<1>1. ASSUME SourceInv, [Next]_vars
      PROVE  SourceInv'
  <2>1. CASE Next
    BY <1>1, <2>1, TypeStep, NumberedStep, IdleStep, HandedOnceStep, SuccessionStep, AccountedStep,
       VersionsStep, NothingUnseenStep
       DEF SourceInv
  <2>2. CASE UNCHANGED vars
    <3>1. /\ UNCHANGED <<health, version, closed, running, named, stop, poller>>
          /\ UNCHANGED <<reaperUp, queue, reaping, abandoned, unreaped, edits, refusals>>
          /\ UNCHANGED <<worker, retired, read, seen, glass, waking>>
      BY <2>2 DEF vars, store, sources, reaper, workers
    <3>2. Started' = Started /\ Items' = Items
      BY <3>1 DEF Started, Items
    <3>3. TypeOK'
      BY <1>1, <3>1, <3>2 DEF SourceInv, TypeOK
    <3>4. Numbered' /\ Idle' /\ HandedOnce' /\ Accounted'
      BY <1>1, <3>1, <3>2 DEF SourceInv, Numbered, Idle, HandedOnce, Accounted, Unwaited
    <3>5. Succession' /\ Versions' /\ NothingUnseen'
      BY <1>1, <3>1 DEF SourceInv, Succession, Followed, Versions, NothingUnseen
    <3> QED BY <3>3, <3>4, <3>5 DEF SourceInv
  <2> QED BY <1>1, <2>1, <2>2
<1> QED BY <1>1, InitInv, PTL DEF Spec

\* However the configuration moves and the threads run, each of them is where
\* its code can be, and the reaper's queue holds no source twice.
THEOREM TypeCorrect == Spec => []TypeOK
<1>1. SourceInv => TypeOK
  BY DEF SourceInv
<1> QED BY <1>1, AlwaysSourceInv, PTL

\* No order of the polls, the workers' reads and waits, the retirements and the
\* stop leaves a worker asleep on a reading it has not drawn from, on its own
\* retirement or on a closed store (snapshot.wait_for_change, screen._wait).
THEOREM NothingSleptThrough == Spec => []NothingUnseen
<1>1. SourceInv => NothingUnseen
  BY DEF SourceInv
<1> QED BY <1>1, AlwaysSourceInv, PTL

\* A name the store forgot comes back only if it is configured, if its own
\* removal is still to be reaped, or by a last poll of a source the reaper gave
\* up on or, its thread refused, was never handed (supervisor._Reaper._reap,
\* supervisor._retire_source).
THEOREM ForgottenForGood == Spec => StaysForgotten
<1> DEFINE Back(n) ==
      health[n] = None /\ health'[n] # None =>
        \/ running'[n] # None
        \/ \E i \in abandoned \cup unreaped : named[i] = n /\ poller[i] = "polling"
        \/ \E item \in {queue[k] : k \in 1..Len(queue)} \cup ({reaping} \ {None}) :
             item.drop /\ named[item.source] = n
<1>1. ASSUME SourceInv, Next, NEW n \in Name, health[n] = None, health'[n] # None
      PROVE  \/ running'[n] # None
             \/ \E i \in Unwaited : named[i] = n /\ poller[i] = "polling"
             \/ \E item \in Items : item.drop /\ named[item.source] = n
  <2> USE <1>1 DEF SourceInv
  <2>1. ASSUME NEW i \in Source, Publish(i) \/ FailPoll(i), named[i] = n
        PROVE  \/ running'[n] # None
               \/ \E j \in Unwaited : named[j] = n /\ poller[j] = "polling"
               \/ \E item \in Items : item.drop /\ named[item.source] = n
    <3>1. i \in Started /\ poller[i] = "polling" /\ running' = running /\ i # None
      BY <2>1, StartedIs, Distinct DEF Publish, FailPoll
    <3>2. CASE running[n] = i \/ i \in Unwaited
      BY <2>1, <3>1, <3>2
    <3>3. ASSUME NEW item \in Items, item.source = i
          PROVE  \/ running[n] # None
                 \/ \E other \in Items : other.drop /\ named[other.source] = n
      <4>1. PICK k \in 0..Len(queue) : item.drop \/ Followed(item, k)
        BY <3>3 DEF Succession, Items, TypeOK
      <4>2. \A m \in k + 1..Len(queue) : queue[m] \in Items
        BY <4>1 DEF Items, TypeOK
      <4> QED BY <2>1, <3>3, <4>1, <4>2 DEF Followed
    <3> QED BY <2>1, <3>1, <3>2, <3>3 DEF Accounted
  <2>2. ASSUME NEW i \in Source, Publish(i) \/ FailPoll(i)
        PROVE  named[i] = n
    <3>1. CASE Publish(i)
      BY <3>1 DEF TypeOK, Publish
    <3>2. CASE FailPoll(i)
      <4>1. CASE named[i] \in Name
        BY <3>2, <4>1, FailedType
      <4>2. CASE named[i] \notin Name
        BY <3>2, <4>2 DEF TypeOK, FailPoll, Registered
      <4> QED BY <4>1, <4>2
    <3> QED BY <2>2, <3>1, <3>2
  <2>3. ASSUME NEW m \in Name, AddSource(m) \/ MoveSource(m)
        PROVE  running'[n] # None
    <3>1. Start(m)
      BY <2>3 DEF AddSource, MoveSource
    <3>2. NextSource \in Source /\ running'[m] = NextSource /\ \A x \in Name \ {m} : health'[x] = health[x]
      BY <3>1, StartIs
    <3> QED BY <3>2, Distinct
  <2>4. CASE Reaped
    BY <2>4 DEF TypeOK, Reaped
  <2>5. health' # health
    OBVIOUS
  <2> QED BY <2>1, <2>2, <2>3, <2>4, <2>5
          DEF Next, PollStep, WorkerStep, ReaperStep, ApplyEnds, PollBegins, PollerEnds,
              RemoveSource, ReadStore, Draw, Park, Floor, Leave, RetireScreen, RetireOrphans,
              RetireWorkers, StartScreen, Wake, Stop, Reap, ReapGivesUp, store
<1>2. ASSUME SourceInv, [Next]_vars
      PROVE  [\A n \in Name : Back(n)]_vars
  BY <1>1, <1>2 DEF Items, Unwaited
<1> QED BY <1>2, AlwaysSourceInv, PTL DEF Spec, StaysForgotten

=============================================================================
