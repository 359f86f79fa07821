---------------------------- MODULE FramesProofs ----------------------------
(***************************************************************************)
(* What a page may rely on, and what a rack encodes: that an open tab will *)
(* show the racks that are online, and that a rack streams what is watched *)
(* and nothing else.  The second is about what a rack will have enabled    *)
(* once it has read everything on its way to it, so the invariant speaks   *)
(* of the last message of a kind in a queue.  A configuration may be       *)
(* refused or never sent: what a rack without its last one encodes is      *)
(* bounded by who watches (Watchful).                                      *)
(***************************************************************************)
EXTENDS Frames, SequenceTheorems, TLAPS

-----------------------------------------------------------------------------
(* The invariant.                                                          *)

\* The hub takes a rack to be there as long as its end of the link is up.
\* Nothing is on its way over a link that is not, and nothing is enabled.
Linked ==
  \A r \in Rack :
    /\ conn[r] = "live" <=> link[r] = "up"
    /\ link[r] # "up" => down[r] = <<>> /\ enabled[r] = {}

\* A screen is a rack's from when it is added, and no other's after that.
Own(r, s) == owner[s] = r \/ s \in spent

\* Only open tabs watch, and each screen under the rack it is of.
Watches ==
  \A t \in Tab :
    /\ tab[t] # "open" => queue[t] = <<>>
    /\ \A s \in Screen : screens[t][s] # None => tab[t] = "open" /\ Own(screens[t][s], s)

\* A rack is told of its own screens only.
Known ==
  \A r \in Rack :
    /\ \A s \in enabled[r] \cup shown[r] : Own(r, s)
    /\ \A i \in DOMAIN down[r] : \A s \in down[r][i].screens : Own(r, s)
    /\ greeting[r] # None => \A s \in greeting[r] : Own(r, s)

Spent == ~ReuseIds => \A s \in spent : owner[s] = None

\* Once a rack that has `now` has the screen, no configuration in d drops it.
Steady(d, now, s) ==
  /\ s \in now => \A i \in DOMAIN d : d[i].type = "config" => s \in d[i].screens
  /\ \A i, j \in DOMAIN d :
       i < j /\ d[i].type = "config" /\ d[j].type = "config" /\ s \in d[i].screens
       => s \in d[j].screens

Pushed == ~ReuseIds => \A r \in Rack : \A s \in Owned(r) : Steady(down[r], shown[r], s)

\* S is what a rack that has `now` will have, once it has read d: what the last
\* message of that type says.
EndsWith(d, type, now, S) ==
  \/ S = now /\ \A i \in DOMAIN d : d[i].type # type
  \/ \E i \in DOMAIN d : /\ d[i].type = type /\ d[i].screens = S
                         /\ \A j \in DOMAIN d : j > i => d[j].type # type

\* What a rack shows.  One that refused what it read last is taken to show its
\* own, since nothing is claimed of the screens it kept.
Adopted(r) == IF refused[r] THEN Owned(r) ELSE shown[r]

Arrives ==
  \A r \in Rack : link[r] = "up" /\ ~unserved[r] =>
    \A S \in SUBSET Screen : EndsWith(down[r], "config", Adopted(r), S) => S = Owned(r)

\* No screen is added to a rack that is being greeted.
Greeted ==
  ~AddInGreeting =>
    \A r \in Rack : link[r] = "up" /\ greeting[r] # None => Owned(r) \subseteq greeting[r]

\* A rack that nobody owes a request will stream what is watched; or nothing,
\* and its handler has yet to resume what is.
ToldOf(r) ==
  \/ \A S \in SUBSET Screen :
       EndsWith(down[r], "frames", enabled[r], S) => S \cap Owned(r) = Watched \cap Owned(r)
  \/ /\ greeting[r] # None
     /\ \A S \in SUBSET Screen : EndsWith(down[r], "frames", enabled[r], S) => S = {}

Told ==
  ~AddInGreeting /\ ~ReuseIds =>
    \A r \in Rack : link[r] = "up" /\ (\A t \in Tab : r \notin owed[t]) => ToldOf(r)

\* The screens some tab watches as this rack's.
Under(r) == {s \in Screen : \E t \in Tab : screens[t][s] = r}

\* Nobody watches the screens of a greeting as another rack's.
GreetsOwn ==
  ~ReuseIds =>
    \A r \in Rack : greeting[r] # None =>
      \A s \in greeting[r], t \in Tab : screens[t][s] \in {None, r}

\* A rack that nobody owes a request will have nothing enabled that nobody
\* watches, whatever screens it shows.
Watchful ==
  ~ReuseIds =>
    \A r \in Rack : link[r] = "up" /\ (\A t \in Tab : r \notin owed[t]) =>
      \A S \in SUBSET Screen : EndsWith(down[r], "frames", enabled[r], S) => S \subseteq Under(r)

ScreensInv == Watches /\ Known /\ Spent /\ Pushed /\ GreetsOwn
StreamInv == Arrives /\ Greeted /\ Told /\ Watchful
FramesInv == TypeOK /\ Linked /\ ScreensInv /\ Informed /\ StreamInv

-----------------------------------------------------------------------------
(* Messages and queues.                                                    *)

LEMMA Limits ==
  /\ QueueSize \in Nat \ {0} /\ MaxClicks \in Nat /\ MaxFaults \in Nat
  /\ AddInGreeting \in BOOLEAN /\ ReuseIds \in BOOLEAN
  /\ None \notin Rack /\ None \notin SUBSET Screen
<1>1. \A S \in SUBSET Screen : None # S
  BY NoneAssumption
<1> QED BY <1>1, BoundsAssumption, SwitchAssumption, NoneAssumption

LEMMA MessageType ==
  ASSUME NEW S \in SUBSET Screen
  PROVE  /\ FramesRequest(S) \in Message /\ ConfigPush(S) \in Message
         /\ FramesRequest(S).type = "frames" /\ FramesRequest(S).screens = S
         /\ ConfigPush(S).type = "config" /\ ConfigPush(S).screens = S
BY DEF FramesRequest, ConfigPush, Message

LEMMA ItemType ==
  /\ Picture \in Item /\ ~IsList(Picture)
  /\ \A R \in SUBSET Rack : OnlineList(R) \in Item /\ IsList(OnlineList(R)) /\ OnlineList(R).online = R
  /\ \A item \in Item : IsList(item) => item.online \in SUBSET Rack
<1>1. Picture \in Item /\ ~IsList(Picture)
  BY DEF Item, Picture, IsList
<1>2. ASSUME NEW R \in SUBSET Rack
      PROVE  OnlineList(R) \in Item /\ IsList(OnlineList(R)) /\ OnlineList(R).online = R
  <2>1. OnlineList(R) \in Item
    BY DEF Item
  <2>2. OnlineList(R).type = "list" /\ OnlineList(R).online = R
    BY DEF OnlineList
  <2> QED BY <2>1, <2>2 DEF IsList
<1>3. ASSUME NEW item \in Item, IsList(item)
      PROVE  item.online \in SUBSET Rack
  <2>1. item # Picture
    BY <1>1, <1>3
  <2>2. PICK R \in SUBSET Rack : item = OnlineList(R)
    BY <2>1 DEF Item
  <2> QED BY <1>2, <2>2
<1> QED BY <1>1, <1>2, <1>3

LEMMA SentType ==
  ASSUME TypeOK, NEW r \in Rack, NEW m \in Message
  PROVE  /\ Sent(r, m) \in [Rack -> Seq(Message)]
         /\ \A q \in Rack \ {r} : Sent(r, m)[q] = down[q]
         /\ Sent(r, m)[r] = IF conn[r] = "live" THEN Append(down[r], m) ELSE down[r]
BY DEF TypeOK, Sent

LEMMA OwnedType ==
  /\ \A r : Owned(r) \in SUBSET Screen
  /\ Watched \in SUBSET Screen /\ Online \in SUBSET Rack
BY DEF Owned, Watched, Online

\* What a queue holds when an item was offered.
LEMMA OfferedIs ==
  ASSUME NEW q \in Seq(Item), Len(q) <= QueueSize, NEW item \in Item
  PROVE  /\ Offered(q, item) \in Seq(Item) /\ Len(Offered(q, item)) <= QueueSize
         /\ \E k \in {0, 1} :
              /\ Len(Offered(q, item)) = Len(q) + 1 - k
              /\ \A i \in 1..(Len(q) - k) : Offered(q, item)[i] = q[i + k]
              /\ Offered(q, item)[Len(q) + 1 - k] = item
              /\ k = 1 <=> Len(q) = QueueSize
              /\ k = 1 => Len(q) >= 1
<1>1. Len(q) \in Nat /\ QueueSize \in Nat \ {0}
  BY Limits
<1>2. CASE Len(q) < QueueSize
  <2>1. Offered(q, item) = Append(q, item)
    BY <1>2 DEF Offered
  <2>2. /\ Append(q, item) \in Seq(Item) /\ Len(Append(q, item)) = Len(q) + 1
        /\ \A i \in 1..Len(q) : Append(q, item)[i] = q[i]
        /\ Append(q, item)[Len(q) + 1] = item
    BY AppendProperties
  <2>3. /\ Len(Offered(q, item)) = Len(q) + 1 - 0
        /\ \A i \in 1..(Len(q) - 0) : Offered(q, item)[i] = q[i + 0]
        /\ Offered(q, item)[Len(q) + 1 - 0] = item
    BY <1>1, <2>1, <2>2
  <2> QED BY <1>1, <1>2, <2>1, <2>2, <2>3
<1>3. CASE ~(Len(q) < QueueSize)
  <2>1. Len(q) = QueueSize /\ q # <<>>
    BY <1>1, <1>3
  <2>2. Offered(q, item) = Append(Tail(q), item)
    BY <1>3 DEF Offered
  <2>3. /\ Tail(q) \in Seq(Item) /\ Len(Tail(q)) = Len(q) - 1
        /\ \A i \in 1..Len(Tail(q)) : Tail(q)[i] = q[i + 1]
    BY <2>1, HeadTailProperties
  <2>4. /\ Append(Tail(q), item) \in Seq(Item) /\ Len(Append(Tail(q), item)) = Len(Tail(q)) + 1
        /\ \A i \in 1..Len(Tail(q)) : Append(Tail(q), item)[i] = Tail(q)[i]
        /\ Append(Tail(q), item)[Len(Tail(q)) + 1] = item
    BY <2>3, AppendProperties
  <2>5. /\ Len(Offered(q, item)) = Len(q) + 1 - 1
        /\ \A i \in 1..(Len(q) - 1) : Offered(q, item)[i] = q[i + 1]
        /\ Offered(q, item)[Len(q) + 1 - 1] = item
    BY <1>1, <2>2, <2>3, <2>4
  <2> QED BY <1>1, <2>1, <2>2, <2>3, <2>4, <2>5
<1> QED BY <1>2, <1>3

LEMMA OfferType ==
  ASSUME TypeOK, NEW T, NEW item \in Item, Offer(T, item)
  PROVE  /\ queue' \in [Tab -> Seq(Item)] /\ \A t \in Tab : Len(queue'[t]) <= QueueSize
         /\ displaced' \in [Tab -> BOOLEAN] /\ believes' = believes
<1>1. \A t \in Tab : /\ queue[t] \in Seq(Item) /\ Len(queue[t]) <= QueueSize
                     /\ Offered(queue[t], item) \in Seq(Item)
                     /\ Len(Offered(queue[t], item)) <= QueueSize
  BY OfferedIs DEF TypeOK
<1>2. queue' \in [Tab -> Seq(Item)] /\ \A t \in Tab : Len(queue'[t]) <= QueueSize
  BY <1>1 DEF Offer
<1>3. displaced' \in [Tab -> BOOLEAN]
  BY DEF Offer, TypeOK, Displaces
<1> QED BY <1>2, <1>3 DEF Offer

LEMMA PagesType ==
  ASSUME TypeOK, \/ UNCHANGED pages
                 \/ \E T : \E item \in Item : Offer(T, item)
  PROVE  /\ queue' \in [Tab -> Seq(Item)] /\ \A t \in Tab : Len(queue'[t]) <= QueueSize
         /\ displaced' \in [Tab -> BOOLEAN] /\ believes' \in [Tab -> SUBSET Rack]
<1>1. CASE UNCHANGED pages
  BY <1>1 DEF TypeOK, pages
<1>2. ASSUME NEW T, NEW item \in Item, Offer(T, item)
      PROVE  /\ queue' \in [Tab -> Seq(Item)] /\ \A t \in Tab : Len(queue'[t]) <= QueueSize
             /\ displaced' \in [Tab -> BOOLEAN] /\ believes' \in [Tab -> SUBSET Rack]
  BY <1>2, OfferType DEF TypeOK
<1> QED BY <1>1, <1>2

LEMMA AnnounceIs ==
  ASSUME NEW was, NEW now \in SUBSET Rack, Announce(was, now)
  PROVE  \/ UNCHANGED pages
         \/ \E T : \E item \in Item : Offer(T, item)
BY ItemType DEF Announce

LEMMA ArmType ==
  ASSUME TypeOK, NEW r \in Rack, NEW W, Arm(r, W)
  PROVE  /\ down' \in [Rack -> Seq(Message)]
         /\ \A q \in Rack \ {r} : down'[q] = down[q]
         /\ down'[r] = IF conn[r] = "live" THEN Append(down[r], FramesRequest(W \cap Owned(r)))
                                           ELSE down[r]
         /\ W \cap Owned(r) \in SUBSET Screen
<1>1. W \cap Owned(r) \in SUBSET Screen
  BY OwnedType
<1>2. FramesRequest(W \cap Owned(r)) \in Message
  BY <1>1, MessageType
<1> QED BY <1>1, <1>2, SentType DEF Arm

-----------------------------------------------------------------------------
(* Types.                                                                  *)

PagesOK ==
  /\ queue \in [Tab -> Seq(Item)] /\ \A t \in Tab : Len(queue[t]) <= QueueSize
  /\ displaced \in [Tab -> BOOLEAN] /\ believes \in [Tab -> SUBSET Rack]

LEMMA CountType ==
  ASSUME TypeOK
  PROVE  /\ Click => clicks' \in 0..MaxClicks
         /\ Fault => faults' \in 0..MaxFaults
BY Limits DEF TypeOK, Click, Fault

LEMMA ChangedIs ==
  ASSUME TypeOK, NEW t \in Tab, NEW r \in Rack, NEW W, Changed(t, r, W)
  PROVE  /\ hot' \in [Tab -> SUBSET Rack] /\ owed' \in [Tab -> SUBSET Rack]
         /\ down' \in [Rack -> Seq(Message)]
         /\ \/ UNCHANGED down /\ r \in owed'[t] /\ \A u \in Tab : owed[u] \subseteq owed'[u]
            \/ UNCHANGED owed /\ Arm(r, W)
<1>1. CASE r \in owed[t] \cup hot[t]
  <2>1. owed' = [owed EXCEPT ![t] = owed[t] \cup {r}] /\ UNCHANGED <<hot, down>>
    BY <1>1 DEF Changed
  <2>2. /\ owed' \in [Tab -> SUBSET Rack] /\ owed'[t] = owed[t] \cup {r}
        /\ \A u \in Tab \ {t} : owed'[u] = owed[u]
    BY <2>1 DEF TypeOK
  <2> QED BY <2>1, <2>2 DEF TypeOK
<1>2. CASE r \notin owed[t] \cup hot[t]
  <2>1. hot' = [hot EXCEPT ![t] = @ \cup {r}] /\ UNCHANGED owed /\ Arm(r, W)
    BY <1>2 DEF Changed
  <2> QED BY <2>1, ArmType DEF TypeOK
<1> QED BY <1>1, <1>2

LEMMA TabTypeStep ==
  ASSUME TypeOK, NEW t \in Tab,
         \/ Open(t) \/ Close(t) \/ Write(t) \/ TabStep(t)
         \/ \E s \in Screen : Subscribe(t, s) \/ Unsubscribe(t, s)
  PROVE  TypeOK'
<1>1. CASE Open(t)
  <2>1. believes' \in [Tab -> SUBSET Rack] /\ tab' \in [Tab -> {"closed", "open", "closing"}]
    BY <1>1, OwnedType DEF Open, TypeOK
  <2> QED BY <1>1, <2>1, CountType DEF Open, TypeOK, table, hub, rack, stream
<1>2. CASE Close(t)
  <2>1. /\ tab' \in [Tab -> {"closed", "open", "closing"}]
        /\ owed' \in [Tab -> SUBSET Rack] /\ hot' \in [Tab -> SUBSET Rack]
    BY <1>2 DEF Close, TypeOK, Concerned
  <2>2. screens' \in [Tab -> [Screen -> Rack \cup {None}]]
    BY <1>2 DEF Close, TypeOK
  <2>3. queue' \in [Tab -> Seq(Item)] /\ \A u \in Tab : Len(queue'[u]) <= QueueSize
    <3>1. <<>> \in Seq(Item) /\ Len(<<>>) <= QueueSize
      BY Limits
    <3>2. queue' = [queue EXCEPT ![t] = <<>>]
      BY <1>2 DEF Close
    <3> QED BY <3>1, <3>2 DEF TypeOK
  <2>4. displaced' \in [Tab -> BOOLEAN] /\ believes' \in [Tab -> SUBSET Rack]
    BY <1>2 DEF Close, TypeOK
  <2> QED BY <1>2, <2>1, <2>2, <2>3, <2>4, CountType DEF Close, TypeOK, table, hub, rack, stream
<1>3. CASE Write(t)
  <2>1. queue[t] \in Seq(Item) /\ queue[t] # <<>> /\ Len(queue[t]) \in Nat /\ Len(queue[t]) <= QueueSize
    BY <1>3 DEF Write, TypeOK
  <2>2. Head(queue[t]) \in Item /\ Tail(queue[t]) \in Seq(Item) /\ Len(Tail(queue[t])) = Len(queue[t]) - 1
    BY <2>1, HeadTailProperties
  <2>3. queue' \in [Tab -> Seq(Item)] /\ \A u \in Tab : Len(queue'[u]) <= QueueSize
    <3>1. queue' = [queue EXCEPT ![t] = Tail(queue[t])] /\ Len(Tail(queue[t])) <= QueueSize
      BY <1>3, <2>1, <2>2, Limits DEF Write
    <3> QED BY <2>2, <3>1 DEF TypeOK
  <2>4. believes' \in [Tab -> SUBSET Rack]
    BY <1>3, <2>2, ItemType DEF Write, TypeOK
  <2> QED BY <1>3, <2>3, <2>4 DEF Write, TypeOK, table, hub, tabs, rack, stream
<1>4. ASSUME NEW r \in Rack, WindowPasses(t, r)
      PROVE  TypeOK'
  BY <1>4 DEF WindowPasses, TypeOK, table, hub, pages, rack, stream
<1>5. ASSUME NEW r \in Rack, Flush(t, r) \/ Tell(t, r)
      PROVE  TypeOK'
  <2>1. \E W : Arm(r, W)
    BY <1>5 DEF Flush, Tell, Arm
  <2>2. down' \in [Rack -> Seq(Message)]
    BY <2>1, ArmType
  <2>3. hot' \in [Tab -> SUBSET Rack] /\ owed' \in [Tab -> SUBSET Rack]
    <3>1. /\ owed' = [owed EXCEPT ![t] = owed[t] \ {r}]
          /\ hot' = [hot EXCEPT ![t] = hot[t] \cup {r}] \/ hot' = hot
      BY <1>5 DEF Flush, Tell
    <3>2. owed[t] \ {r} \in SUBSET Rack /\ hot[t] \cup {r} \in SUBSET Rack
      BY DEF TypeOK
    <3>3. owed' \in [Tab -> SUBSET Rack]
      BY <3>1, <3>2 DEF TypeOK
    <3>4. CASE hot' = [hot EXCEPT ![t] = hot[t] \cup {r}]
      BY <3>2, <3>3, <3>4 DEF TypeOK
    <3>5. CASE hot' = hot
      BY <3>3, <3>5 DEF TypeOK
    <3> QED BY <3>1, <3>4, <3>5
  <2> QED BY <1>5, <2>2, <2>3 DEF Flush, Tell, TypeOK, table, hub, pages, rack, stream
<1>6. CASE Leave(t)
  BY <1>6 DEF Leave, TypeOK, table, hub, pages, rack, stream
<1>7. ASSUME NEW s \in Screen, Subscribe(t, s) \/ Unsubscribe(t, s)
      PROVE  TypeOK'
  <2>1. /\ screens' \in [Tab -> [Screen -> Rack \cup {None}]]
        /\ \E r \in Rack : \E W : Changed(t, r, W)
    <3>1. owner[s] \in Rack \cup {None} /\ screens[t][s] \in Rack \cup {None}
      BY DEF TypeOK
    <3>2. screens' \in [Tab -> [Screen -> Rack \cup {None}]]
      <4>1. \/ screens' = [screens EXCEPT ![t][s] = owner[s]]
            \/ screens' = [screens EXCEPT ![t][s] = None]
        BY <1>7 DEF Subscribe, Unsubscribe
      <4>2. PICK x \in Rack \cup {None} :
              screens' = [screens EXCEPT ![t] = [screens[t] EXCEPT ![s] = x]]
        BY <3>1, <4>1
      <4>3. [screens[t] EXCEPT ![s] = x] \in [Screen -> Rack \cup {None}]
        BY DEF TypeOK
      <4> QED BY <4>2, <4>3 DEF TypeOK
    <3>3. CASE Subscribe(t, s)
      BY <3>1, <3>2, <3>3 DEF Subscribe
    <3>4. CASE Unsubscribe(t, s)
      BY <3>1, <3>2, <3>4 DEF Unsubscribe
    <3> QED BY <1>7, <3>3, <3>4
  <2>2. /\ hot' \in [Tab -> SUBSET Rack] /\ owed' \in [Tab -> SUBSET Rack]
        /\ down' \in [Rack -> Seq(Message)]
    BY <2>1, ChangedIs
  <2>3. UNCHANGED <<table, hub, tab, pages, rack, faults>> /\ clicks' \in 0..MaxClicks
    BY <1>7, CountType DEF Subscribe, Unsubscribe
  <2> QED BY <2>1, <2>2, <2>3 DEF TypeOK, table, hub, pages, rack, stream
<1> QED BY <1>1, <1>2, <1>3, <1>4, <1>5, <1>6, <1>7 DEF TabStep

LEMMA LinkDownType ==
  ASSUME TypeOK, NEW r \in Rack, LinkDown(r)
  PROVE  /\ link' \in [Rack -> {"down", "hello", "up"}]
         /\ enabled' \in [Rack -> SUBSET Screen] /\ pending' \in [Rack -> SUBSET Screen]
         /\ down' \in [Rack -> Seq(Message)] /\ UNCHANGED <<shown, refused, taken>>
         /\ link'[r] = "down" /\ enabled'[r] = {} /\ down'[r] = <<>>
         /\ \A q \in Rack \ {r} :
              link'[q] = link[q] /\ enabled'[q] = enabled[q] /\ down'[q] = down[q]
BY DEF TypeOK, LinkDown

\* What is resumed is nothing, or one request.
LEMMA ResumeIs ==
  ASSUME NEW r \in Rack, NEW G \in SUBSET Screen
  PROVE  /\ Resume(r, G) \in Seq(Message)
         /\ \/ Resume(r, G) = <<>> /\ Watched \cap G = {}
            \/ Resume(r, G) = <<FramesRequest(Watched \cap G)>>
<1>1. FramesRequest(Watched \cap G) \in Message
  BY MessageType
<1>2. <<>> \in Seq(Message) /\ <<FramesRequest(Watched \cap G)>> \in Seq(Message)
  BY <1>1
<1> QED BY <1>2 DEF Resume

LEMMA ConnTypeStep ==
  ASSUME TypeOK, NEW r \in Rack,
         Connect(r) \/ Greet(r) \/ ResumeAfterPush(r) \/ LoseLink(r) \/ DropConnection(r)
  PROVE  TypeOK'
<1>1. CASE Connect(r)
  BY <1>1 DEF Connect, TypeOK, table, hub, tabs, pages, stream
<1>2. CASE Greet(r)
  <2>1. /\ link' \in [Rack -> {"down", "hello", "up"}] /\ conn' \in [Rack -> {"none", "live", "dead"}]
        /\ Online \cup {r} \in SUBSET Rack
    BY <1>2, OwnedType DEF Greet, TypeOK
  <2>2. PagesOK'
    <3>1. \E now \in SUBSET Rack : Announce(Online, now)
      BY <1>2, <2>1 DEF Greet, Announce
    <3> QED BY <3>1, AnnounceIs, PagesType DEF PagesOK
  <2>3. greeting' \in [Rack -> {None} \cup SUBSET Screen]
    <3>1. \E G \in {None} \cup SUBSET Screen : greeting' = [greeting EXCEPT ![r] = G]
      BY <1>2, OwnedType DEF Greet
    <3> QED BY <3>1 DEF TypeOK
  <2>4. down' \in [Rack -> Seq(Message)]
    <3>1. Resume(r, Owned(r)) \in Seq(Message)
      BY OwnedType, ResumeIs
    <3>2. <<ConfigPush(Owned(r))>> \in Seq(Message)
      BY OwnedType, MessageType
    <3>3. \E d \in Seq(Message) : down' = [down EXCEPT ![r] = d]
      BY <1>2, <3>1, <3>2 DEF Greet
    <3> QED BY <3>3 DEF TypeOK
  <2>5. unserved' \in [Rack -> BOOLEAN]
    <3>1. unserved \in [Rack -> BOOLEAN]
      BY DEF TypeOK
    <3>2. unserved' = [unserved EXCEPT ![r] = FALSE] \/ unserved' = unserved
      BY <1>2 DEF Greet
    <3> QED BY <3>1, <3>2
  <2> QED BY <1>2, <2>1, <2>2, <2>3, <2>4, <2>5 DEF Greet, TypeOK, tabs, stream, PagesOK
<1>3. CASE ResumeAfterPush(r)
  <2>1. greeting' \in [Rack -> {None} \cup SUBSET Screen] /\ greeting[r] \in SUBSET Screen
    BY <1>3 DEF ResumeAfterPush, TypeOK
  <2>2. down[r] \o Resume(r, greeting[r]) \in Seq(Message)
    BY <2>1, ResumeIs, ConcatProperties DEF TypeOK
  <2>3. down' \in [Rack -> Seq(Message)]
    BY <1>3, <2>2 DEF ResumeAfterPush, TypeOK
  <2> QED BY <1>3, <2>1, <2>3 DEF ResumeAfterPush, TypeOK, table, tabs, pages, rack, stream
<1>4. CASE LoseLink(r)
  <2>1. conn' \in [Rack -> {"none", "live", "dead"}]
    BY <1>4 DEF LoseLink, TypeOK
  <2> QED BY <1>4, <2>1, LinkDownType, CountType DEF LoseLink, TypeOK, table, tabs, pages
<1>5. CASE DropConnection(r)
  <2>1. /\ conn' \in [Rack -> {"none", "live", "dead"}]
        /\ greeting' \in [Rack -> {None} \cup SUBSET Screen]
        /\ faults' \in 0..MaxFaults
        /\ Online \ {r} \in SUBSET Rack
    BY <1>5, CountType, OwnedType DEF DropConnection, TypeOK
  <2>2. PagesOK'
    BY <1>5, <2>1, AnnounceIs, PagesType DEF DropConnection, PagesOK
  <2>3. UNCHANGED <<table, tabs, clicks>> /\ (LinkDown(r) \/ UNCHANGED <<down, rack>>)
    BY <1>5 DEF DropConnection
  <2>4. /\ link' \in [Rack -> {"down", "hello", "up"}]
        /\ enabled' \in [Rack -> SUBSET Screen] /\ pending' \in [Rack -> SUBSET Screen]
        /\ down' \in [Rack -> Seq(Message)] /\ UNCHANGED <<shown, refused, taken>>
    BY <2>3, LinkDownType DEF TypeOK, rack, stream
  <2> QED BY <2>1, <2>2, <2>3, <2>4 DEF TypeOK, table, tabs, PagesOK
<1> QED BY <1>1, <1>2, <1>3, <1>4, <1>5

LEMMA StreamTypeStep ==
  ASSUME TypeOK, NEW r \in Rack, Receive(r) \/ StreamStep(r)
  PROVE  TypeOK'
<1>1. CASE Receive(r)
  <2>1. down[r] \in Seq(Message) /\ down[r] # <<>>
    BY <1>1 DEF Receive, TypeOK
  <2>2. Head(down[r]) \in Message /\ Tail(down[r]) \in Seq(Message)
    BY <2>1, HeadTailProperties
  <2>3. Head(down[r]).screens \in SUBSET Screen
    BY <2>2 DEF Message
  <2>4. down' \in [Rack -> Seq(Message)]
    BY <1>1, <2>2 DEF Receive, TypeOK
  <2>5. /\ shown' \in [Rack -> SUBSET Screen] /\ refused' \in [Rack -> BOOLEAN]
        /\ \/ \E S \in SUBSET Screen : Enable(r, S)
           \/ UNCHANGED <<enabled, pending>>
    BY <1>1, <2>3 DEF Receive, Apply, Refuse, TypeOK
  <2>6. enabled' \in [Rack -> SUBSET Screen] /\ pending' \in [Rack -> SUBSET Screen]
    <3>1. /\ enabled \in [Rack -> SUBSET Screen] /\ pending \in [Rack -> SUBSET Screen]
          /\ pending[r] \in SUBSET Screen
      BY DEF TypeOK
    <3>2. ASSUME NEW S \in SUBSET Screen, Enable(r, S)
          PROVE  enabled' \in [Rack -> SUBSET Screen] /\ pending' \in [Rack -> SUBSET Screen]
      BY <3>1, <3>2 DEF Enable
    <3> QED BY <2>5, <3>1, <3>2
  <2> QED BY <1>1, <2>4, <2>5, <2>6 DEF Receive, TypeOK, table, hub, tabs, pages
<1>2. CASE Take(r)
  <2>1. pending' \in [Rack -> SUBSET Screen] /\ taken' \in [Rack -> SUBSET Screen]
    BY <1>2 DEF Take, TypeOK
  <2> QED BY <1>2, <2>1 DEF Take, TypeOK, table, hub, tabs, pages
<1>3. ASSUME NEW s \in Screen, Draw(r, s)
      PROVE  TypeOK'
  <2>1. pending' \in [Rack -> SUBSET Screen]
    BY <1>3 DEF Draw, TypeOK
  <2> QED BY <1>3, <2>1 DEF Draw, TypeOK, table, hub, tabs, pages
<1>4. ASSUME NEW s \in Screen, SendFrame(r, s)
      PROVE  TypeOK'
  <2>1. taken' \in [Rack -> SUBSET Screen]
    BY <1>4 DEF SendFrame, TypeOK
  <2>2. PagesOK'
    BY <1>4, ItemType, PagesType DEF SendFrame, PagesOK
  <2> QED BY <1>4, <2>1, <2>2 DEF SendFrame, TypeOK, table, hub, tabs, PagesOK
<1> QED BY <1>1, <1>2, <1>3, <1>4 DEF StreamStep

LEMMA TableTypeStep ==
  ASSUME TypeOK, NEW s \in Screen, RemoveScreen(s) \/ \E r \in Rack : AddScreen(s, r)
  PROVE  TypeOK'
<1>1. /\ owner' \in [Screen -> Rack \cup {None}] /\ spent' \subseteq Screen
      /\ UNCHANGED <<hub, tabs, pages, rack, faults>> /\ clicks' \in 0..MaxClicks
  BY CountType DEF RemoveScreen, AddScreen, TypeOK
<1>2. \E r \in Rack : \E S \in SUBSET Screen : PushScreens(r, S)
  <2>1. \A r \in Rack : Owned(r) \cup {s} \in SUBSET Screen /\ Owned(r) \ {s} \in SUBSET Screen
    BY OwnedType
  <2>2. CASE RemoveScreen(s)
    BY <2>1, <2>2 DEF RemoveScreen, TypeOK
  <2>3. CASE \E r \in Rack : AddScreen(s, r)
    BY <2>1, <2>3 DEF AddScreen
  <2> QED BY <2>2, <2>3
<1>3. down' \in [Rack -> Seq(Message)] /\ unserved' \in [Rack -> BOOLEAN]
  <2>1. PICK r \in Rack, S \in SUBSET Screen : PushScreens(r, S)
    BY <1>2
  <2>2. Sent(r, ConfigPush(S)) \in [Rack -> Seq(Message)]
    BY MessageType, SentType
  <2>3. unserved \in [Rack -> BOOLEAN] /\ down \in [Rack -> Seq(Message)]
    BY DEF TypeOK
  <2> QED BY <2>1, <2>2, <2>3 DEF PushScreens
<1> QED BY <1>1, <1>3 DEF TypeOK, hub, tabs, pages, rack, stream

LEMMA TypeStep ==
  ASSUME TypeOK, Next
  PROVE  TypeOK'
BY TabTypeStep, ConnTypeStep, StreamTypeStep, TableTypeStep DEF Next, RackStep, HandlerStep

-----------------------------------------------------------------------------
(* The last message of a type.                                             *)

LEMMA AppendIs ==
  ASSUME NEW T, NEW d \in Seq(T), NEW m \in T
  PROVE  /\ Len(d) \in Nat /\ DOMAIN d = 1..Len(d) /\ DOMAIN Append(d, m) = 1..(Len(d) + 1)
         /\ \A i \in 1..Len(d) : Append(d, m)[i] = d[i]
         /\ Append(d, m)[Len(d) + 1] = m
<1>1. Append(d, m) \in Seq(T) /\ Len(Append(d, m)) = Len(d) + 1
  BY AppendProperties
<1>2. DOMAIN Append(d, m) = 1..(Len(d) + 1) /\ DOMAIN d = 1..Len(d) /\ Len(d) \in Nat
  BY <1>1, LenProperties
<1> QED BY <1>2, AppendProperties

LEMMA TailIs ==
  ASSUME NEW T, NEW d \in Seq(T), d # <<>>
  PROVE  /\ Len(d) \in Nat \ {0} /\ DOMAIN d = 1..Len(d) /\ DOMAIN Tail(d) = 1..(Len(d) - 1)
         /\ \A i \in 1..(Len(d) - 1) : Tail(d)[i] = d[i + 1]
         /\ d[1] = Head(d)
<1>1. /\ Tail(d) \in Seq(T) /\ Len(Tail(d)) = Len(d) - 1
      /\ \A i \in 1..Len(Tail(d)) : Tail(d)[i] = d[i + 1]
  BY HeadTailProperties
<1>2. DOMAIN Tail(d) = 1..(Len(d) - 1) /\ DOMAIN d = 1..Len(d) /\ Len(d) \in Nat \ {0}
  BY <1>1, LenProperties, EmptySeq
<1> QED BY <1>1, <1>2

LEMMA ResumeAppends ==
  ASSUME NEW r \in Rack, NEW G \in SUBSET Screen, NEW d \in Seq(Message)
  PROVE  \/ d \o Resume(r, G) = d /\ Watched \cap G = {}
         \/ d \o Resume(r, G) = Append(d, FramesRequest(Watched \cap G))
<1>1. CASE Resume(r, G) = <<>> /\ Watched \cap G = {}
  <2>1. d \o <<>> = d
    BY ConcatEmptySeq
  <2> QED BY <1>1, <2>1
<1>2. CASE Resume(r, G) = <<FramesRequest(Watched \cap G)>>
  <2>1. FramesRequest(Watched \cap G) \in Message
    BY MessageType
  <2> QED BY <1>2, <2>1, AppendIsConcat
<1> QED BY <1>1, <1>2, ResumeIs

LEMMA EndsEmpty ==
  ASSUME NEW type, NEW now, NEW S
  PROVE  EndsWith(<<>>, type, now, S) <=> S = now
BY DEF EndsWith

LEMMA EndsAppend ==
  ASSUME NEW d \in Seq(Message), NEW m \in Message, NEW type, NEW now, NEW S,
         EndsWith(Append(d, m), type, now, S)
  PROVE  IF m.type = type THEN S = m.screens ELSE EndsWith(d, type, now, S)
<1> DEFINE e == Append(d, m)
           n == Len(d)
<1>1. /\ n \in Nat /\ DOMAIN d = 1..n /\ DOMAIN e = 1..(n + 1)
      /\ \A i \in 1..n : e[i] = d[i]
      /\ e[n + 1] = m
  BY AppendIs
<1> HIDE DEF e, n
<1>2. CASE S = now /\ \A i \in DOMAIN e : e[i].type # type
  BY <1>1, <1>2 DEF EndsWith
<1>3. ASSUME NEW i \in DOMAIN e, e[i].type = type, e[i].screens = S,
             \A j \in DOMAIN e : j > i => e[j].type # type
      PROVE  IF m.type = type THEN S = m.screens ELSE EndsWith(d, type, now, S)
  <2>1. CASE i = n + 1
    BY <1>1, <1>3, <2>1
  <2>2. CASE i \in 1..n
    <3>1. m.type # type
      BY <1>1, <1>3, <2>2
    <3>2. d[i].type = type /\ d[i].screens = S /\ \A j \in DOMAIN d : j > i => d[j].type # type
      BY <1>1, <1>3, <2>2
    <3> QED BY <1>1, <2>2, <3>1, <3>2 DEF EndsWith
  <2> QED BY <1>1, <1>3, <2>1, <2>2
<1>4. EndsWith(e, type, now, S)
  BY DEF e
<1> QED BY <1>2, <1>3, <1>4 DEF EndsWith

LEMMA EndsTail ==
  ASSUME NEW d \in Seq(Message), d # <<>>, NEW type, NEW now, NEW x, NEW S,
         EndsWith(Tail(d), type, x, S)
  PROVE  \/ EndsWith(d, type, now, S)
         \/ /\ S = x
            /\ Head(d).type = type => EndsWith(d, type, now, Head(d).screens)
            /\ Head(d).type # type => EndsWith(d, type, now, now)
<1> DEFINE e == Tail(d)
           n == Len(d)
<1>1. /\ n \in Nat \ {0} /\ DOMAIN d = 1..n /\ DOMAIN e = 1..(n - 1)
      /\ \A i \in 1..(n - 1) : e[i] = d[i + 1]
      /\ d[1] = Head(d)
  BY TailIs
<1> HIDE DEF e, n
<1>2. CASE S = x /\ \A i \in DOMAIN e : e[i].type # type
  <2>1. \A j \in 2..n : d[j].type # type
    <3>1. ASSUME NEW j \in 2..n
          PROVE  d[j].type # type
      <4>1. j - 1 \in DOMAIN e /\ e[j - 1] = d[j]
        BY <1>1
      <4> QED BY <1>2, <4>1
    <3> QED BY <3>1
  <2>2. Head(d).type = type => EndsWith(d, type, now, Head(d).screens)
    <3>1. 1 \in DOMAIN d /\ \A j \in DOMAIN d : j > 1 => j \in 2..n
      BY <1>1
    <3> QED BY <1>1, <2>1, <3>1 DEF EndsWith
  <2>3. Head(d).type # type => EndsWith(d, type, now, now)
    <3>1. \A j \in DOMAIN d : j = 1 \/ j \in 2..n
      BY <1>1
    <3> QED BY <1>1, <2>1, <3>1 DEF EndsWith
  <2> QED BY <1>2, <2>2, <2>3
<1>3. ASSUME NEW i \in DOMAIN e, e[i].type = type, e[i].screens = S,
             \A j \in DOMAIN e : j > i => e[j].type # type
      PROVE  EndsWith(d, type, now, S)
  <2>1. i + 1 \in DOMAIN d /\ d[i + 1].type = type /\ d[i + 1].screens = S
    BY <1>1, <1>3
  <2>2. ASSUME NEW j \in DOMAIN d, j > i + 1
        PROVE  d[j].type # type
    <3>1. j - 1 \in DOMAIN e /\ j - 1 > i /\ e[j - 1] = d[j]
      BY <1>1, <2>2
    <3> QED BY <1>3, <3>1
  <2> QED BY <2>1, <2>2 DEF EndsWith
<1>4. EndsWith(e, type, x, S)
  BY DEF e
<1> QED BY <1>2, <1>3, <1>4 DEF EndsWith

LEMMA EndsOne ==
  ASSUME NEW m \in Message, NEW type, NEW now, NEW S, EndsWith(<<m>>, type, now, S)
  PROVE  IF m.type = type THEN S = m.screens ELSE S = now
BY DEF EndsWith

-----------------------------------------------------------------------------
(* What a step is to one rack.                                             *)

Same(q) ==
  /\ down'[q] = down[q] /\ enabled'[q] = enabled[q]
  /\ shown'[q] = shown[q] /\ refused'[q] = refused[q]
  /\ link'[q] = link[q] /\ conn'[q] = conn[q] /\ greeting'[q] = greeting[q]

Grows(q, m) ==
  /\ link[q] = "up" /\ down'[q] = Append(down[q], m)
  /\ enabled'[q] = enabled[q] /\ shown'[q] = shown[q] /\ refused'[q] = refused[q]
  /\ link'[q] = link[q] /\ conn'[q] = conn[q] /\ greeting'[q] = greeting[q]

\* Nothing the rack has to know of.
Still(q) ==
  /\ Same(q) /\ Owned(q)' = Owned(q) /\ unserved'[q] = unserved[q]
  /\ ~ReuseIds => Watched' \cap Owned(q) = Watched \cap Owned(q)
  /\ (\E t \in Tab : q \in owed[t]) => \E t \in Tab : q \in owed'[t]
  /\ Under(q) \subseteq Under(q)'

\* Something, and it is owed a request, or is not linked.
Owing(q) ==
  /\ Same(q) /\ Owned(q)' = Owned(q) /\ unserved'[q] = unserved[q]
  /\ link[q] # "up" \/ \E t \in Tab : q \in owed'[t]

\* It is sent the request.
Armed(q) ==
  /\ Owned(q)' = Owned(q) /\ unserved'[q] = unserved[q]
  /\ \E S \in SUBSET Screen : S = Watched' \cap Owned(q) /\ Grows(q, FramesRequest(S))

\* A screen of it was added or removed, and it is told, or is not linked, or was
\* not served.
Edited(q) ==
  /\ UNCHANGED tabs
  /\ \A s \in Owned(q)' : \/ s \in Owned(q)
                          \/ /\ ~ReuseIds => \A r \in Rack : ~Own(r, s)
                             /\ AddInGreeting \/ greeting[q] = None
  /\ \/ Same(q) /\ (link[q] # "up" \/ unserved'[q])
     \/ \E S \in SUBSET Screen : S = Owned(q)' /\ Grows(q, ConfigPush(S))

Reads(q) ==
  /\ UNCHANGED <<table, tabs>>
  /\ link[q] = "up" /\ down[q] # <<>> /\ down'[q] = Tail(down[q])
  /\ link'[q] = link[q] /\ conn'[q] = conn[q] /\ greeting'[q] = greeting[q]
  /\ \/ /\ Head(down[q]).type = "frames"
        /\ enabled'[q] = Head(down[q]).screens
        /\ shown'[q] = shown[q] /\ refused'[q] = refused[q]
     \/ /\ Head(down[q]).type = "config"
        /\ shown'[q] = Head(down[q]).screens /\ ~refused'[q]
        /\ enabled'[q] = enabled[q] \ (shown[q] \ Head(down[q]).screens)
     \/ /\ Head(down[q]).type = "config"
        /\ shown'[q] = shown[q] /\ refused'[q]
        /\ enabled'[q] = enabled[q]

Off(q) ==
  /\ UNCHANGED <<owner, spent, tabs>>
  /\ link'[q] # "up" /\ conn'[q] # "live" /\ down'[q] = <<>> /\ enabled'[q] = {}
  /\ shown'[q] = shown[q] /\ refused'[q] = refused[q] /\ greeting'[q] \in {greeting[q], None}

Greets(q) ==
  /\ UNCHANGED <<owner, spent, tabs>>
  /\ link[q] = "hello" /\ link'[q] = "up" /\ conn'[q] = "live"
  /\ shown'[q] = shown[q] /\ refused'[q] = refused[q] /\ enabled'[q] = enabled[q]
  /\ \/ greeting'[q] = Owned(q) /\ down'[q] = <<ConfigPush(Owned(q))>>
     \/ /\ shown[q] = Owned(q) /\ ~refused[q]
        /\ greeting'[q] = None /\ down'[q] = Resume(q, Owned(q))

Resumes(q) ==
  /\ UNCHANGED <<table, tabs>>
  /\ greeting[q] # None /\ greeting'[q] = None
  /\ down'[q] = IF conn[q] = "live" THEN down[q] \o Resume(q, greeting[q]) ELSE down[q]
  /\ enabled'[q] = enabled[q] /\ shown'[q] = shown[q] /\ refused'[q] = refused[q]
  /\ link'[q] = link[q] /\ conn'[q] = conn[q]

RackCase(q) ==
  \/ Still(q) \/ Owing(q) \/ Armed(q) \/ Edited(q)
  \/ Reads(q) \/ Off(q) \/ Greets(q) \/ Resumes(q)

LEMMA WatchedKept ==
  ASSUME screens' = screens
  PROVE  Watched' = Watched
BY DEF Watched, Watchers

LEMMA OwnedKept ==
  ASSUME owner' = owner
  PROVE  \A q : Owned(q)' = Owned(q)
BY DEF Owned

LEMMA AllSame ==
  ASSUME UNCHANGED <<down, enabled, shown, refused, link, conn, greeting>>
  PROVE  \A q : Same(q)
BY DEF Same

LEMMA StillAll ==
  ASSUME UNCHANGED <<owner, screens, owed>>, NEW q \in Rack, Same(q), unserved'[q] = unserved[q]
  PROVE  Still(q)
BY WatchedKept, OwnedKept DEF Still, Under

LEMMA ArmCase ==
  ASSUME TypeOK, Linked, NEW r \in Rack, NEW W, Arm(r, W), NEW q \in Rack,
         UNCHANGED <<table, hub, rack>>,
         W \cap Owned(r) = Watched' \cap Owned(r)
  PROVE  IF q = r THEN Armed(q) \/ Owing(q) ELSE Same(q)
<1>1. UNCHANGED <<owner, unserved, enabled, shown, refused, link, conn, greeting>>
  BY DEF table, hub, rack, stream
<1>2. CASE q = r
  <2>1. CASE conn[r] = "live"
    <3>1. link[r] = "up"
      BY <2>1 DEF Linked
    <3> DEFINE S == W \cap Owned(r)
    <3>2. S \in SUBSET Screen /\ down'[r] = Append(down[r], FramesRequest(S))
      BY <2>1, ArmType
    <3> QED BY <1>1, <1>2, <3>1, <3>2, OwnedKept DEF Armed, Grows
  <2>2. CASE conn[r] # "live"
    <3>1. link[r] # "up" /\ down'[r] = down[r]
      BY <2>2, ArmType DEF Linked
    <3> QED BY <1>1, <1>2, <3>1, OwnedKept DEF Owing, Same
  <2> QED BY <2>1, <2>2
<1>3. CASE q # r
  BY <1>1, <1>3, ArmType DEF Same
<1> QED BY <1>2, <1>3

LEMMA TabCases ==
  ASSUME TypeOK, Linked, Watches, Spent, NEW t \in Tab,
         \/ Open(t) \/ Close(t) \/ Write(t) \/ TabStep(t)
         \/ \E s \in Screen : Subscribe(t, s) \/ Unsubscribe(t, s)
  PROVE  \A q \in Rack : RackCase(q)
<1>1. CASE Open(t) \/ Write(t) \/ Leave(t) \/ \E r \in Rack : WindowPasses(t, r)
  <2>1. UNCHANGED <<table, screens, owed, down, enabled, shown, refused, link, conn, greeting>>
    BY <1>1 DEF Open, Write, Leave, WindowPasses, hub, tabs, rack, stream
  <2> QED BY <2>1, AllSame, StillAll DEF RackCase, table
<1>2. ASSUME NEW r \in Rack, Flush(t, r) \/ Tell(t, r), NEW q \in Rack
      PROVE  RackCase(q)
  <2>1. UNCHANGED <<table, hub, rack, screens>>
    BY <1>2 DEF Flush, Tell
  <2>2. PICK W : W = Watched /\ Arm(r, W)
    BY <1>2 DEF Flush, Tell, Arm
  <2>3. W \cap Owned(r) = Watched' \cap Owned(r)
    BY <2>1, <2>2, WatchedKept
  <2>4. IF q = r THEN Armed(q) \/ Owing(q) ELSE Same(q)
    BY <2>1, <2>2, <2>3, ArmCase
  <2>5. CASE q # r
    <3>1. owed' = [owed EXCEPT ![t] = owed[t] \ {r}]
      BY <1>2 DEF Flush, Tell
    <3>2. \A u \in Tab : q \in owed[u] => q \in owed'[u]
      BY <2>5, <3>1 DEF TypeOK
    <3> QED BY <2>1, <2>4, <2>5, <3>2, WatchedKept, OwnedKept DEF RackCase, Still, Under, table
  <2> QED BY <2>4, <2>5 DEF RackCase
<1>3. ASSUME NEW s \in Screen, Subscribe(t, s), NEW q \in Rack
      PROVE  RackCase(q)
  <2> DEFINE r == owner[s]
  <2>1. r \in Rack /\ UNCHANGED <<table, hub, rack>>
    BY <1>3 DEF Subscribe, TypeOK
  <2>2. Watched' = Watched \cup {s} /\ Under(q) \subseteq Under(q)'
    <3>1. /\ screens' = [screens EXCEPT ![t] = [screens[t] EXCEPT ![s] = r]] /\ r # None
          /\ screens[t][s] = None
      BY <1>3 DEF Subscribe
    <3>2. /\ \A u \in Tab \ {t} : screens'[u] = screens[u]
          /\ \A x \in Screen : screens'[t][x] = IF x = s THEN r ELSE screens[t][x]
      BY <3>1 DEF TypeOK
    <3>3. \A u \in Tab, x \in Screen : screens[u][x] = q => screens'[u][x] = q
      BY <3>1, <3>2, Limits
    <3> QED BY <3>1, <3>2, <3>3 DEF Watched, Watchers, Under
  <2>3. PICK W : W = Watched \cup {s} /\ Changed(t, r, W)
    BY <1>3 DEF Subscribe, Changed, Arm
  <2>4. q # r => Watched' \cap Owned(q) = Watched \cap Owned(q)
    BY <2>2 DEF Owned
  <2> HIDE DEF r
  <2>5. CASE UNCHANGED down /\ r \in owed'[t] /\ \A u \in Tab : owed[u] \subseteq owed'[u]
    <3>1. Same(q) /\ Owned(q)' = Owned(q) /\ unserved'[q] = unserved[q]
      BY <2>1, <2>5, AllSame, OwnedKept DEF hub, rack, stream, table
    <3> QED BY <2>2, <2>4, <2>5, <3>1 DEF RackCase, Still, Owing
  <2>6. CASE UNCHANGED owed /\ Arm(r, W)
    <3>1. IF q = r THEN Armed(q) \/ Owing(q) ELSE Same(q)
      BY <2>1, <2>2, <2>3, <2>6, ArmCase
    <3> QED BY <2>1, <2>2, <2>4, <2>6, <3>1, OwnedKept DEF RackCase, Still, table
  <2> QED BY <2>1, <2>3, <2>5, <2>6, ChangedIs
<1>4. ASSUME NEW s \in Screen, Unsubscribe(t, s), NEW q \in Rack
      PROVE  RackCase(q)
  <2> DEFINE r == screens[t][s]
  <2>1. r \in Rack /\ UNCHANGED <<table, hub, rack>>
    BY <1>4 DEF Unsubscribe, TypeOK
  <2>2. /\ Watched' = IF Watchers(s) = {t} THEN Watched \ {s} ELSE Watched
        /\ q # r => Under(q) \subseteq Under(q)'
    <3>1. screens' = [screens EXCEPT ![t] = [screens[t] EXCEPT ![s] = None]] /\ r # None
      BY <1>4 DEF Unsubscribe
    <3>2. /\ \A u \in Tab \ {t} : screens'[u] = screens[u]
          /\ \A x \in Screen : screens'[t][x] = IF x = s THEN None ELSE screens[t][x]
      BY <3>1 DEF TypeOK
    <3>3. \A x \in Screen \ {s} : Watchers(x)' = Watchers(x)
      BY <3>2 DEF Watchers
    <3>4. Watchers(s)' = Watchers(s) \ {t} /\ t \in Watchers(s)
      BY <3>1, <3>2 DEF Watchers
    <3>5. q # r => \A u \in Tab, x \in Screen : screens[u][x] = q => screens'[u][x] = q
      BY <3>2
    <3> QED BY <3>3, <3>4, <3>5 DEF Watched, Under
  <2>3. PICK W : W = (IF Watchers(s) = {t} THEN Watched \ {s} ELSE Watched) /\ Changed(t, r, W)
    BY <1>4 DEF Unsubscribe, Changed, Arm
  <2>4. ~ReuseIds /\ q # r => Watched' \cap Owned(q) = Watched \cap Owned(q)
    <3>1. ~ReuseIds /\ q # r => s \notin Owned(q)
      BY <2>1, Limits DEF Watches, Own, Owned, Spent
    <3> QED BY <2>2, <3>1
  <2> HIDE DEF r
  <2>5. CASE UNCHANGED down /\ r \in owed'[t] /\ \A u \in Tab : owed[u] \subseteq owed'[u]
    <3>1. Same(q) /\ Owned(q)' = Owned(q) /\ unserved'[q] = unserved[q]
      BY <2>1, <2>5, AllSame, OwnedKept DEF hub, rack, stream, table
    <3> QED BY <2>2, <2>4, <2>5, <3>1 DEF RackCase, Still, Owing
  <2>6. CASE UNCHANGED owed /\ Arm(r, W)
    <3>1. IF q = r THEN Armed(q) \/ Owing(q) ELSE Same(q)
      BY <2>1, <2>2, <2>3, <2>6, ArmCase
    <3> QED BY <2>1, <2>2, <2>4, <2>6, <3>1, OwnedKept DEF RackCase, Still, table
  <2> QED BY <2>1, <2>3, <2>5, <2>6, ChangedIs
<1>5. ASSUME Close(t), NEW q \in Rack
      PROVE  RackCase(q)
  <2>1. UNCHANGED <<table, down, enabled, shown, refused, link, conn, greeting>>
    BY <1>5 DEF Close, hub, rack, stream
  <2>2. Same(q) /\ Owned(q)' = Owned(q) /\ unserved'[q] = unserved[q]
    BY <2>1, AllSame, OwnedKept DEF table
  <2>3. owed'[t] = Concerned(t) /\ \A u \in Tab \ {t} : owed'[u] = owed[u]
    BY <1>5 DEF Close, TypeOK
  <2>4. CASE q \in Concerned(t)
    BY <2>2, <2>3, <2>4 DEF RackCase, Owing
  <2>5. CASE q \notin Concerned(t)
    <3>1. /\ \A u \in Tab \ {t} : screens'[u] = screens[u]
          /\ \A x \in Screen : screens'[t][x] = None
      BY <1>5 DEF Close, TypeOK
    <3>2. ~ReuseIds => \A x \in Owned(q) : screens[t][x] = None
      BY <2>5, Limits DEF Concerned, Watches, Own, Owned, Spent, TypeOK
    <3>3. ~ReuseIds => \A x \in Owned(q) : Watchers(x)' = Watchers(x)
      BY <3>1, <3>2 DEF Watchers, Owned
    <3>4. ~ReuseIds => Watched' \cap Owned(q) = Watched \cap Owned(q)
      BY <3>3 DEF Watched, Owned
    <3>5. q \notin owed[t] /\ \A x \in Screen : screens[t][x] # q
      BY <2>5, Limits DEF Concerned
    <3>6. Under(q) \subseteq Under(q)'
      BY <3>1, <3>5 DEF Under
    <3> QED BY <2>2, <2>3, <3>4, <3>5, <3>6 DEF RackCase, Still
  <2> QED BY <2>4, <2>5
<1> QED BY <1>1, <1>2, <1>3, <1>4, <1>5 DEF TabStep

LEMMA ConnCases ==
  ASSUME TypeOK, Linked, NEW r \in Rack,
         Connect(r) \/ Greet(r) \/ ResumeAfterPush(r) \/ LoseLink(r) \/ DropConnection(r)
  PROVE  \A q \in Rack : RackCase(q)
<1>1. /\ UNCHANGED <<owner, spent, tabs>>
      /\ Greet(r) \/ UNCHANGED table
  BY DEF Connect, Greet, ResumeAfterPush, LoseLink, DropConnection, table
<1>4. \A q \in Rack \ {r} : unserved'[q] = unserved[q]
  <2>1. unserved' = [unserved EXCEPT ![r] = FALSE] \/ unserved' = unserved
    BY <1>1 DEF Greet, table
  <2> QED BY <2>1 DEF TypeOK
<1>2. ASSUME NEW q \in Rack \ {r}
      PROVE  Same(q)
  <2>1. CASE Connect(r) \/ Greet(r) \/ ResumeAfterPush(r)
    BY <2>1 DEF Connect, Greet, ResumeAfterPush, Same, TypeOK, hub, rack, stream
  <2>2. CASE LoseLink(r) \/ DropConnection(r)
    <3>1. conn'[q] = conn[q] /\ greeting'[q] = greeting[q]
      BY <2>2 DEF LoseLink, DropConnection, TypeOK
    <3>2. LinkDown(r) \/ UNCHANGED <<down, rack>>
      BY <2>2 DEF LoseLink, DropConnection
    <3> QED BY <3>1, <3>2, LinkDownType DEF Same, rack, stream
  <2> QED BY <2>1, <2>2
<1>3. RackCase(r)
  <2>1. CASE Connect(r)
    <3>1. /\ link'[r] = "hello" /\ conn'[r] = conn[r] /\ greeting'[r] = greeting[r]
          /\ down'[r] = down[r] /\ enabled'[r] = enabled[r]
          /\ shown'[r] = shown[r] /\ refused'[r] = refused[r]
      BY <2>1 DEF Connect, TypeOK, hub, stream
    <3>2. conn[r] # "live" /\ down[r] = <<>> /\ enabled[r] = {}
      BY <2>1 DEF Connect, Linked
    <3> QED BY <1>1, <3>1, <3>2 DEF RackCase, Off
  <2>2. CASE Greet(r)
    <3>1. /\ link[r] = "hello" /\ link'[r] = "up" /\ conn'[r] = "live"
          /\ shown'[r] = shown[r] /\ refused'[r] = refused[r] /\ enabled'[r] = enabled[r]
      BY <2>2 DEF Greet, TypeOK, stream
    <3>2. \/ greeting'[r] = Owned(r) /\ down'[r] = <<ConfigPush(Owned(r))>>
          \/ /\ shown[r] = Owned(r) /\ ~refused[r]
             /\ greeting'[r] = None /\ down'[r] = Resume(r, Owned(r))
      BY <2>2 DEF Greet, Behind, TypeOK
    <3> QED BY <1>1, <3>1, <3>2 DEF RackCase, Greets
  <2>3. CASE ResumeAfterPush(r)
    BY <1>1, <2>3 DEF RackCase, Resumes, ResumeAfterPush, TypeOK, rack, stream
  <2>4. CASE LoseLink(r)
    <3>1. conn'[r] # "live" /\ greeting'[r] = greeting[r]
      BY <2>4 DEF LoseLink, Linked, TypeOK
    <3>2. LinkDown(r)
      BY <2>4 DEF LoseLink
    <3> QED BY <1>1, <3>1, <3>2, LinkDownType DEF RackCase, Off
  <2>5. CASE DropConnection(r)
    <3>1. conn'[r] # "live" /\ greeting'[r] = None
      BY <2>5 DEF DropConnection, TypeOK
    <3>2. CASE link[r] = "up"
      <4>1. LinkDown(r)
        BY <2>5, <3>2 DEF DropConnection
      <4> QED BY <1>1, <3>1, <4>1, LinkDownType DEF RackCase, Off
    <3>3. CASE link[r] # "up"
      <4>1. UNCHANGED <<down, rack>> /\ down[r] = <<>> /\ enabled[r] = {}
        BY <2>5, <3>3 DEF DropConnection, Linked
      <4> QED BY <1>1, <3>1, <3>3, <4>1 DEF RackCase, Off, rack, stream
    <3> QED BY <3>2, <3>3
  <2> QED BY <2>1, <2>2, <2>3, <2>4, <2>5
<1> QED BY <1>1, <1>2, <1>3, <1>4, StillAll DEF RackCase, tabs

LEMMA StreamCases ==
  ASSUME TypeOK, NEW r \in Rack, Receive(r) \/ StreamStep(r)
  PROVE  \A q \in Rack : RackCase(q)
<1>1. CASE Receive(r)
  <2>1. UNCHANGED <<table, tabs, hub, link>> /\ link[r] = "up" /\ down[r] # <<>>
    BY <1>1 DEF Receive
  <2>2. down'[r] = Tail(down[r]) /\ \A q \in Rack \ {r} : down'[q] = down[q]
    BY <1>1 DEF Receive, TypeOK
  <2>3. \/ /\ Head(down[r]).type = "frames"
           /\ enabled'[r] = Head(down[r]).screens
           /\ shown'[r] = shown[r] /\ refused'[r] = refused[r]
        \/ /\ Head(down[r]).type = "config"
           /\ shown'[r] = Head(down[r]).screens /\ ~refused'[r]
           /\ enabled'[r] = enabled[r] \ (shown[r] \ Head(down[r]).screens)
        \/ /\ Head(down[r]).type = "config"
           /\ shown'[r] = shown[r] /\ refused'[r] /\ enabled'[r] = enabled[r]
    BY <1>1 DEF Receive, Apply, Refuse, Enable, TypeOK
  <2>6. \A q \in Rack \ {r} :
          enabled'[q] = enabled[q] /\ shown'[q] = shown[q] /\ refused'[q] = refused[q]
    BY <1>1 DEF Receive, Apply, Refuse, Enable, TypeOK
  <2>4. Reads(r)
    BY <2>1, <2>2, <2>3 DEF Reads, hub
  <2>5. \A q \in Rack \ {r} : Same(q)
    BY <2>1, <2>2, <2>6 DEF Same, hub
  <2> QED BY <2>1, <2>4, <2>5, StillAll DEF RackCase, table, tabs
<1>2. CASE StreamStep(r)
  <2>1. UNCHANGED <<table, screens, owed, down, enabled, shown, refused, link, conn, greeting>>
    BY <1>2 DEF StreamStep, Take, Draw, SendFrame, tabs, hub
  <2> QED BY <2>1, AllSame, StillAll DEF RackCase, table
<1> QED BY <1>1, <1>2

LEMMA TableCases ==
  ASSUME TypeOK, Linked, NEW s \in Screen, RemoveScreen(s) \/ \E r \in Rack : AddScreen(s, r)
  PROVE  \A q \in Rack : RackCase(q)
<1>1. UNCHANGED <<hub, tabs, rack>>
  BY DEF RemoveScreen, AddScreen
<1>2. PICK r \in Rack :
        /\ \/ owner' = [owner EXCEPT ![s] = r]
           \/ owner' = [owner EXCEPT ![s] = None] /\ owner[s] = r
        /\ owner'[s] = r => /\ owner[s] = None /\ (ReuseIds \/ s \notin spent)
                            /\ AddInGreeting \/ greeting[r] = None
        /\ \E S \in SUBSET Screen : S = Owned(r)' /\ PushScreens(r, S)
  <2>1. CASE RemoveScreen(s)
    <3>1. PICK r \in Rack : r = owner[s]
      BY <2>1 DEF RemoveScreen, TypeOK
    <3>2. owner' = [owner EXCEPT ![s] = None] /\ owner'[s] # r
      BY <2>1, <3>1, Limits DEF RemoveScreen, TypeOK
    <3>3. \A x \in Screen : owner'[x] = IF x = s THEN None ELSE owner[x]
      BY <3>2 DEF TypeOK
    <3>4. Owned(r) \ {s} = Owned(r)'
      BY <3>1, <3>3, Limits DEF Owned
    <3>5. PICK S \in SUBSET Screen : S = Owned(r) \ {s}
      BY OwnedType
    <3>6. PushScreens(r, S)
      BY <2>1, <3>1, <3>5 DEF RemoveScreen
    <3> QED BY <3>1, <3>2, <3>4, <3>5, <3>6
  <2>2. ASSUME NEW r \in Rack, AddScreen(s, r)
        PROVE  /\ owner' = [owner EXCEPT ![s] = r]
               /\ owner[s] = None /\ (ReuseIds \/ s \notin spent)
               /\ AddInGreeting \/ greeting[r] = None
               /\ \E S \in SUBSET Screen : S = Owned(r)' /\ PushScreens(r, S)
    <3>1. \A x \in Screen : owner'[x] = IF x = s THEN r ELSE owner[x]
      BY <2>2 DEF AddScreen, TypeOK
    <3>2. Owned(r) \cup {s} = Owned(r)'
      BY <3>1 DEF Owned
    <3>3. PICK S \in SUBSET Screen : S = Owned(r) \cup {s}
      BY OwnedType
    <3>4. PushScreens(r, S)
      BY <2>2, <3>3 DEF AddScreen
    <3> QED BY <2>2, <3>2, <3>3, <3>4 DEF AddScreen
  <2>3. CASE \E r \in Rack : AddScreen(s, r)
    <3>1. PICK r \in Rack : AddScreen(s, r)
      BY <2>3
    <3> QED BY <2>2, <3>1
  <2> QED BY <2>1, <2>3
<1>3. PICK S \in SUBSET Screen : S = Owned(r)' /\ PushScreens(r, S)
  BY <1>2
<1>4. /\ \A q \in Rack \ {r} : down'[q] = down[q] /\ unserved'[q] = unserved[q]
      /\ \/ down'[r] = down[r] /\ unserved'[r]
         \/ down'[r] = IF conn[r] = "live" THEN Append(down[r], ConfigPush(S)) ELSE down[r]
  <2>1. down \in [Rack -> Seq(Message)] /\ unserved \in [Rack -> BOOLEAN]
    BY DEF TypeOK
  <2>2. CASE down' = Sent(r, ConfigPush(S)) /\ unserved' = [unserved EXCEPT ![r] = FALSE]
    <3>1. \A q \in Rack \ {r} : unserved'[q] = unserved[q]
      BY <2>1, <2>2
    <3> QED BY <2>2, <3>1, MessageType, SentType
  <2>3. CASE UNCHANGED down /\ unserved' = [unserved EXCEPT ![r] = TRUE]
    BY <2>1, <2>3
  <2> QED BY <1>3, <2>2, <2>3 DEF PushScreens
<1>5. ASSUME NEW q \in Rack \ {r}
      PROVE  Still(q)
  <2>1. Owned(q)' = Owned(q)
    BY <1>2, Limits DEF Owned, TypeOK
  <2> QED BY <1>1, <1>4, <2>1, WatchedKept DEF Still, Same, Under, hub, tabs, rack, stream
<1>6. Edited(r)
  <2>1. \A x \in Owned(r)' : \/ x \in Owned(r)
                             \/ /\ ~ReuseIds => \A q \in Rack : ~Own(q, x)
                                /\ AddInGreeting \/ greeting[r] = None
    BY <1>2, Limits DEF Owned, Own, TypeOK
  <2>2. CASE conn[r] = "live" /\ down'[r] = Append(down[r], ConfigPush(S))
    <3>1. link[r] = "up"
      BY <2>2 DEF Linked
    <3>2. Grows(r, ConfigPush(S))
      BY <1>1, <2>2, <3>1 DEF Grows, hub, rack, stream
    <3> QED BY <1>1, <1>3, <2>1, <3>2 DEF Edited
  <2>3. CASE conn[r] # "live" /\ down'[r] = down[r]
    <3>1. link[r] # "up"
      BY <2>3 DEF Linked
    <3>2. Same(r)
      BY <1>1, <2>3 DEF Same, hub, rack, stream
    <3> QED BY <1>1, <2>1, <3>1, <3>2 DEF Edited
  <2>4. CASE unserved'[r] /\ down'[r] = down[r]
    <3>1. Same(r)
      BY <1>1, <2>4 DEF Same, hub, rack, stream
    <3> QED BY <1>1, <2>1, <2>4, <3>1 DEF Edited
  <2> QED BY <1>4, <2>2, <2>3, <2>4
<1> QED BY <1>5, <1>6 DEF RackCase

LEMMA RackCases ==
  ASSUME TypeOK, Linked, Watches, Spent, Next
  PROVE  \A q \in Rack : RackCase(q)
BY TabCases, ConnCases, StreamCases, TableCases DEF Next, RackStep, HandlerStep

-----------------------------------------------------------------------------
(* Whose screens a rack is told of.                                        *)

LEMMA LinkedStep ==
  ASSUME Linked, \A q \in Rack : RackCase(q)
  PROVE  Linked'
<1>1. ASSUME NEW q \in Rack
      PROVE  /\ conn'[q] = "live" <=> link'[q] = "up"
             /\ link'[q] # "up" => down'[q] = <<>> /\ enabled'[q] = {}
  <2>1. CASE Still(q) \/ Owing(q) \/ Armed(q) \/ Edited(q)
    <3>1. Same(q) \/ \E m : Grows(q, m)
      BY <2>1 DEF Still, Owing, Armed, Edited
    <3> QED BY <3>1 DEF Same, Grows, Linked
  <2>2. CASE Reads(q) \/ Off(q) \/ Greets(q) \/ Resumes(q)
    BY <2>2 DEF Reads, Off, Greets, Resumes, Linked
  <2> QED BY <1>1, <2>1, <2>2 DEF RackCase
<1> QED BY <1>1 DEF Linked

LEMMA TableKept ==
  ASSUME Next
  PROVE  \/ UNCHANGED <<owner, spent>>
         \/ \E s \in Screen : RemoveScreen(s)
         \/ \E s \in Screen, r \in Rack : AddScreen(s, r)
<1>1. CASE \E t \in Tab : Open(t) \/ Close(t) \/ Write(t) \/ TabStep(t)
  BY <1>1 DEF Open, Close, Write, TabStep, Leave, WindowPasses, Flush, Tell, table
<1>2. CASE \E t \in Tab, s \in Screen : Subscribe(t, s) \/ Unsubscribe(t, s)
  BY <1>2 DEF Subscribe, Unsubscribe, table
<1>3. CASE \E r \in Rack : RackStep(r) \/ StreamStep(r) \/ HandlerStep(r)
  BY <1>3 DEF RackStep, StreamStep, HandlerStep, Connect, Receive, Take, Draw, SendFrame,
              Greet, ResumeAfterPush, table
<1>4. CASE \E r \in Rack : LoseLink(r) \/ DropConnection(r)
  BY <1>4 DEF LoseLink, DropConnection, table
<1> QED BY <1>1, <1>2, <1>3, <1>4 DEF Next

LEMMA TableStep ==
  ASSUME TypeOK, Spent, Next
  PROVE  Spent' /\ \A r \in Rack : \A s \in Screen : Own(r, s) => Own(r, s)'
<1>1. CASE UNCHANGED <<owner, spent>>
  BY <1>1 DEF Spent, Own
<1>2. ASSUME NEW s \in Screen, RemoveScreen(s)
      PROVE  Spent' /\ \A r \in Rack : \A x \in Screen : Own(r, x) => Own(r, x)'
  <2>1. spent' = spent \cup {s} /\ \A x \in Screen : owner'[x] = IF x = s THEN None ELSE owner[x]
    BY <1>2 DEF RemoveScreen, TypeOK
  <2> QED BY <2>1 DEF Spent, Own, TypeOK
<1>3. ASSUME NEW s \in Screen, NEW q \in Rack, AddScreen(s, q)
      PROVE  Spent' /\ \A r \in Rack : \A x \in Screen : Own(r, x) => Own(r, x)'
  <2>1. /\ spent' = spent /\ owner[s] = None
        /\ ReuseIds \/ s \notin spent
        /\ \A x \in Screen : owner'[x] = IF x = s THEN q ELSE owner[x]
    BY <1>3 DEF AddScreen, TypeOK
  <2> QED BY <2>1, Limits DEF Spent, Own, TypeOK
<1> QED BY <1>1, <1>2, <1>3, TableKept

LEMMA KnownStep ==
  ASSUME TypeOK, Known, Spent, Next, \A q \in Rack : RackCase(q)
  PROVE  Known'
<1> SUFFICES ASSUME NEW q \in Rack
             PROVE  /\ \A s \in enabled'[q] \cup shown'[q] : Own(q, s)'
                    /\ \A i \in DOMAIN down'[q] : \A s \in down'[q][i].screens : Own(q, s)'
                    /\ greeting'[q] # None => \A s \in greeting'[q] : Own(q, s)'
  BY DEF Known
<1>1. \A s \in Screen : Own(q, s) => Own(q, s)'
  BY TableStep
<1>2. /\ enabled[q] \in SUBSET Screen /\ shown[q] \in SUBSET Screen
      /\ down[q] \in Seq(Message) /\ greeting[q] \in {None} \cup SUBSET Screen
      /\ \A i \in DOMAIN down[q] : down[q][i] \in Message /\ down[q][i].screens \in SUBSET Screen
  <2>1. down[q] \in Seq(Message)
    BY DEF TypeOK
  <2>2. \A i \in DOMAIN down[q] : down[q][i] \in Message
    BY <2>1, ElementOfSeq, LenProperties
  <2> QED BY <2>1, <2>2 DEF TypeOK, Message
<1>3. /\ \A s \in enabled[q] \cup shown[q] : Own(q, s)'
      /\ \A i \in DOMAIN down[q] : \A s \in down[q][i].screens : Own(q, s)'
      /\ greeting[q] # None => \A s \in greeting[q] : Own(q, s)'
  BY <1>1, <1>2 DEF Known
<1>4. \A s \in Owned(q) : Own(q, s)'
  BY <1>1 DEF Owned, Own
<1>5. \A s \in Owned(q)' : Own(q, s)'
  BY DEF Owned, Own
<1>6. ASSUME NEW m \in Message, down'[q] = Append(down[q], m), \A s \in m.screens : Own(q, s)'
      PROVE  \A i \in DOMAIN down'[q] : \A s \in down'[q][i].screens : Own(q, s)'
  <2>1. /\ Len(down[q]) \in Nat /\ DOMAIN down[q] = 1..Len(down[q])
        /\ DOMAIN down'[q] = 1..(Len(down[q]) + 1)
        /\ \A i \in 1..Len(down[q]) : down'[q][i] = down[q][i]
        /\ down'[q][Len(down[q]) + 1] = m
    BY <1>2, <1>6, AppendIs
  <2> QED BY <1>3, <1>6, <2>1
<1>7. CASE Still(q) \/ Owing(q)
  BY <1>3, <1>7 DEF Still, Owing, Same
<1>8. CASE Armed(q)
  <2>1. PICK S \in SUBSET Screen : S = Watched' \cap Owned(q) /\ Grows(q, FramesRequest(S))
    BY <1>8 DEF Armed
  <2>2. \A s \in FramesRequest(S).screens : Own(q, s)'
    BY <1>4, <2>1, MessageType
  <2> QED BY <1>3, <1>6, <2>1, <2>2, MessageType DEF Grows
<1>9. CASE Edited(q)
  <2>1. CASE Same(q)
    BY <1>3, <2>1 DEF Same
  <2>2. CASE \E S \in SUBSET Screen : S = Owned(q)' /\ Grows(q, ConfigPush(S))
    <3>1. PICK S \in SUBSET Screen : S = Owned(q)' /\ Grows(q, ConfigPush(S))
      BY <2>2
    <3>2. \A s \in ConfigPush(S).screens : Own(q, s)'
      BY <1>5, <3>1, MessageType
    <3> QED BY <1>3, <1>6, <3>1, <3>2, MessageType DEF Grows
  <2> QED BY <1>9, <2>1, <2>2 DEF Edited
<1>10. CASE Reads(q)
  <2>1. /\ Len(down[q]) \in Nat \ {0} /\ DOMAIN down[q] = 1..Len(down[q])
        /\ DOMAIN down'[q] = 1..(Len(down[q]) - 1)
        /\ \A i \in 1..(Len(down[q]) - 1) : down'[q][i] = down[q][i + 1]
        /\ down[q][1] = Head(down[q])
    BY <1>2, <1>10, TailIs DEF Reads
  <2>2. \A i \in DOMAIN down'[q] : \A s \in down'[q][i].screens : Own(q, s)'
    BY <1>3, <2>1
  <2>3. \A s \in Head(down[q]).screens : Own(q, s)'
    BY <1>3, <2>1
  <2> QED BY <1>3, <1>10, <2>2, <2>3 DEF Reads
<1>11. CASE Off(q)
  BY <1>3, <1>11 DEF Off
<1>12. CASE Greets(q)
  <2>1. DOMAIN <<ConfigPush(Owned(q))>> = {1} /\ ConfigPush(Owned(q)).screens = Owned(q)
    BY DEF ConfigPush
  <2>2. \A i \in DOMAIN Resume(q, Owned(q)) : \A s \in Resume(q, Owned(q))[i].screens : Own(q, s)'
    <3>1. CASE Resume(q, Owned(q)) = <<>>
      BY <3>1
    <3>2. CASE Resume(q, Owned(q)) = <<FramesRequest(Watched \cap Owned(q))>>
      <4>1. FramesRequest(Watched \cap Owned(q)).screens = Watched \cap Owned(q)
        BY OwnedType, MessageType
      <4> QED BY <1>4, <3>2, <4>1
    <3> QED BY OwnedType, ResumeIs, <3>1, <3>2
  <2> QED BY <1>3, <1>4, <1>12, <2>1, <2>2 DEF Greets
<1>13. CASE Resumes(q)
  <2>1. greeting[q] \in SUBSET Screen
    BY <1>2, <1>13 DEF Resumes
  <2>2. \/ down'[q] = down[q]
        \/ down'[q] = Append(down[q], FramesRequest(Watched \cap greeting[q]))
    BY <1>2, <1>13, <2>1, ResumeAppends DEF Resumes
  <2>3. /\ FramesRequest(Watched \cap greeting[q]) \in Message
        /\ \A s \in FramesRequest(Watched \cap greeting[q]).screens : Own(q, s)'
    BY <1>3, <1>13, <2>1, MessageType DEF Resumes
  <2>4. \A i \in DOMAIN down'[q] : \A s \in down'[q][i].screens : Own(q, s)'
    BY <1>3, <1>6, <2>2, <2>3
  <2> QED BY <1>3, <1>13, <2>4 DEF Resumes
<1> QED BY <1>7, <1>8, <1>9, <1>10, <1>11, <1>12, <1>13 DEF RackCase


-----------------------------------------------------------------------------
(* Screens a rack has, or will have.                                       *)

LEMMA SteadyAppend ==
  ASSUME NEW d \in Seq(Message), NEW now, NEW s, Steady(d, now, s), NEW m \in Message,
         m.type = "config" => s \in m.screens
  PROVE  Steady(Append(d, m), now, s)
<1> DEFINE e == Append(d, m)
           n == Len(d)
<1>1. /\ n \in Nat /\ DOMAIN d = 1..n /\ DOMAIN e = 1..(n + 1)
      /\ \A i \in 1..n : e[i] = d[i]
      /\ e[n + 1] = m
  BY AppendIs
<1> HIDE DEF e, n
<1>2. s \in now => \A i \in DOMAIN e : e[i].type = "config" => s \in e[i].screens
  BY <1>1 DEF Steady
<1>3. \A i, j \in DOMAIN e :
        i < j /\ e[i].type = "config" /\ e[j].type = "config" /\ s \in e[i].screens
        => s \in e[j].screens
  BY <1>1 DEF Steady
<1>4. Steady(e, now, s)
  BY <1>2, <1>3 DEF Steady
<1> QED BY <1>4 DEF e

LEMMA SteadyTail ==
  ASSUME NEW d \in Seq(Message), d # <<>>, NEW now, NEW s, Steady(d, now, s)
  PROVE  /\ Steady(Tail(d), now, s)
         /\ Head(d).type = "config" => Steady(Tail(d), Head(d).screens, s)
         /\ Head(d).type = "config" /\ s \in now => s \in Head(d).screens
<1> DEFINE e == Tail(d)
           n == Len(d)
<1>1. /\ n \in Nat \ {0} /\ DOMAIN d = 1..n /\ DOMAIN e = 1..(n - 1)
      /\ \A i \in 1..(n - 1) : e[i] = d[i + 1]
      /\ d[1] = Head(d)
  BY TailIs
<1> HIDE DEF e, n
<1>2. \A i, j \in DOMAIN e :
        i < j /\ e[i].type = "config" /\ e[j].type = "config" /\ s \in e[i].screens
        => s \in e[j].screens
  <2>1. ASSUME NEW i \in DOMAIN e, NEW j \in DOMAIN e, i < j, e[i].type = "config",
               e[j].type = "config", s \in e[i].screens
        PROVE  s \in e[j].screens
    <3>1. /\ i + 1 \in DOMAIN d /\ j + 1 \in DOMAIN d /\ i + 1 < j + 1
          /\ e[i] = d[i + 1] /\ e[j] = d[j + 1]
      BY <1>1, <2>1
    <3> QED BY <2>1, <3>1 DEF Steady
  <2> QED BY <2>1
<1>3. s \in now => \A i \in DOMAIN e : e[i].type = "config" => s \in e[i].screens
  <2>1. \A i \in DOMAIN e : i + 1 \in DOMAIN d /\ e[i] = d[i + 1]
    BY <1>1
  <2> QED BY <2>1 DEF Steady
<1>4. Head(d).type = "config" /\ s \in Head(d).screens
      => \A i \in DOMAIN e : e[i].type = "config" => s \in e[i].screens
  <2>1. ASSUME d[1].type = "config", s \in d[1].screens, NEW i \in DOMAIN e, e[i].type = "config"
        PROVE  s \in e[i].screens
    <3>1. 1 \in DOMAIN d /\ i + 1 \in DOMAIN d /\ 1 < i + 1 /\ e[i] = d[i + 1]
      BY <1>1
    <3> QED BY <2>1, <3>1 DEF Steady
  <2> QED BY <1>1, <2>1
<1>5. Steady(e, now, s) /\ (Head(d).type = "config" => Steady(e, Head(d).screens, s))
  BY <1>2, <1>3, <1>4 DEF Steady
<1>6. Head(d).type = "config" /\ s \in now => s \in Head(d).screens
  BY <1>1 DEF Steady
<1> QED BY <1>5, <1>6 DEF e

\* A list without a configuration, or of one that has the screen.
LEMMA SteadyShort ==
  ASSUME NEW now, NEW s, NEW m \in Message, m.type = "config" => s \in m.screens
  PROVE  Steady(<<>>, now, s) /\ Steady(<<m>>, now, s)
<1>1. DOMAIN <<m>> = {1} /\ <<m>>[1] = m
  OBVIOUS
<1>2. DOMAIN <<>> = {}
  OBVIOUS
<1> QED BY <1>1, <1>2 DEF Steady

LEMMA PushedStep ==
  ASSUME TypeOK, Known, Pushed, \A q \in Rack : RackCase(q)
  PROVE  Pushed'
<1> SUFFICES ASSUME ~ReuseIds, NEW q \in Rack, NEW s \in Owned(q)'
             PROVE  Steady(down'[q], shown'[q], s)
  BY DEF Pushed, Steady
<1>1. down[q] \in Seq(Message) /\ s \in Screen /\ Owned(q) \in SUBSET Screen
  BY OwnedType DEF TypeOK, Owned
<1>2. s \in Owned(q) => Steady(down[q], shown[q], s)
  BY DEF Pushed
<1>3. CASE Still(q) \/ Owing(q)
  <2>1. s \in Owned(q)
    BY <1>3 DEF Still, Owing
  <2> QED BY <1>2, <1>3, <2>1 DEF Still, Owing, Same
<1>4. CASE Armed(q)
  <2>1. PICK S \in SUBSET Screen : Grows(q, FramesRequest(S))
    BY <1>4 DEF Armed
  <2>2. s \in Owned(q) /\ down'[q] = Append(down[q], FramesRequest(S)) /\ shown'[q] = shown[q]
    BY <1>4, <2>1 DEF Armed, Grows
  <2> QED BY <1>1, <1>2, <2>2, MessageType, SteadyAppend
<1>5. CASE Edited(q)
  <2>1. Steady(down[q], shown[q], s)
    <3>1. CASE s \in Owned(q)
      BY <1>2, <3>1
    <3>2. CASE ~Own(q, s)
      <4>1. s \notin shown[q] /\ \A i \in DOMAIN down[q] : s \notin down[q][i].screens
        BY <3>2 DEF Known
      <4> QED BY <4>1 DEF Steady
    <3> QED BY <1>5, <3>1, <3>2 DEF Edited
  <2>2. CASE Same(q)
    BY <2>1, <2>2 DEF Same
  <2>3. CASE \E S \in SUBSET Screen : S = Owned(q)' /\ Grows(q, ConfigPush(S))
    <3>1. PICK S \in SUBSET Screen : S = Owned(q)' /\ Grows(q, ConfigPush(S))
      BY <2>3
    <3>2. s \in S /\ down'[q] = Append(down[q], ConfigPush(S)) /\ shown'[q] = shown[q]
      BY <3>1 DEF Grows
    <3> QED BY <1>1, <2>1, <3>2, MessageType, SteadyAppend
  <2> QED BY <1>5, <2>2, <2>3 DEF Edited
<1>6. CASE Reads(q)
  <2>1. s \in Owned(q)
    BY <1>6, OwnedKept DEF Reads, table
  <2> QED BY <1>1, <1>2, <1>6, <2>1, SteadyTail DEF Reads
<1>7. CASE Off(q)
  BY <1>7 DEF Off, Steady
<1>8. CASE Greets(q)
  <2>1. s \in Owned(q)
    BY <1>8, OwnedKept DEF Greets, table
  <2>2. /\ ConfigPush(Owned(q)) \in Message /\ ConfigPush(Owned(q)).screens = Owned(q)
        /\ FramesRequest(Watched \cap Owned(q)) \in Message
        /\ FramesRequest(Watched \cap Owned(q)).type = "frames"
    BY <1>1, MessageType
  <2>3. Steady(<<ConfigPush(Owned(q))>>, shown'[q], s)
    BY <2>1, <2>2, SteadyShort
  <2>4. /\ Steady(<<>>, shown'[q], s)
        /\ Steady(<<FramesRequest(Watched \cap Owned(q))>>, shown'[q], s)
    <3>1. FramesRequest(Watched \cap Owned(q)).type # "config"
      BY <2>2
    <3> QED BY <2>2, <3>1, SteadyShort
  <2>5. Steady(Resume(q, Owned(q)), shown'[q], s)
    BY <1>1, <2>4, ResumeIs
  <2> QED BY <1>8, <2>3, <2>5 DEF Greets
<1>9. CASE Resumes(q)
  <2>1. s \in Owned(q) /\ greeting[q] \in SUBSET Screen /\ shown'[q] = shown[q]
    BY <1>9, OwnedKept DEF Resumes, table, TypeOK
  <2>2. \/ down'[q] = down[q]
        \/ down'[q] = Append(down[q], FramesRequest(Watched \cap greeting[q]))
    BY <1>1, <1>9, <2>1, ResumeAppends DEF Resumes
  <2>3. /\ FramesRequest(Watched \cap greeting[q]) \in Message
        /\ FramesRequest(Watched \cap greeting[q]).type = "frames"
    BY <2>1, MessageType
  <2> QED BY <1>1, <1>2, <2>1, <2>2, <2>3, SteadyAppend
<1> QED BY <1>3, <1>4, <1>5, <1>6, <1>7, <1>8, <1>9 DEF RackCase

LEMMA GreetedStep ==
  ASSUME TypeOK, Greeted, \A q \in Rack : RackCase(q)
  PROVE  Greeted'
<1> SUFFICES ASSUME ~AddInGreeting, NEW q \in Rack, link'[q] = "up", greeting'[q] # None,
                    NEW s \in Owned(q)'
             PROVE  s \in greeting'[q]
  BY DEF Greeted
<1>1. link[q] = "up" /\ greeting[q] # None => Owned(q) \subseteq greeting[q]
  BY DEF Greeted
<1>2. CASE Still(q) \/ Owing(q) \/ Armed(q)
  <2>1. Same(q) \/ \E m : Grows(q, m)
    BY <1>2 DEF Still, Owing, Armed
  <2>2. s \in Owned(q)
    BY <1>2 DEF Still, Owing, Armed
  <2> QED BY <1>1, <2>1, <2>2 DEF Same, Grows
<1>3. CASE Edited(q)
  <2>1. Same(q) \/ \E m : Grows(q, m)
    BY <1>3 DEF Edited
  <2>2. link[q] = "up" /\ greeting'[q] = greeting[q]
    BY <2>1 DEF Same, Grows
  <2> QED BY <1>1, <1>3, <2>2 DEF Edited
<1>4. CASE Reads(q)
  BY <1>1, <1>4, OwnedKept DEF Reads, table
<1>5. CASE Off(q) \/ Resumes(q)
  BY <1>5 DEF Off, Resumes
<1>6. CASE Greets(q)
  BY <1>6, OwnedKept DEF Greets, table
<1> QED BY <1>2, <1>3, <1>4, <1>5, <1>6 DEF RackCase

LEMMA ArrivesStep ==
  ASSUME TypeOK, Linked, Arrives, \A q \in Rack : RackCase(q)
  PROVE  Arrives'
<1> SUFFICES ASSUME NEW q \in Rack, link'[q] = "up", ~unserved'[q], NEW S \in SUBSET Screen,
                    EndsWith(down'[q], "config", Adopted(q)', S)
             PROVE  S = Owned(q)'
  BY DEF Arrives, EndsWith
<1>1. /\ down[q] \in Seq(Message) /\ Owned(q) \in SUBSET Screen /\ Adopted(q) \in SUBSET Screen
      /\ "frames" # "config"
  BY OwnedType DEF TypeOK, Adopted
<1>10. shown'[q] = shown[q] /\ refused'[q] = refused[q] /\ Owned(q)' = Owned(q)
       => Adopted(q)' = Adopted(q)
  BY DEF Adopted
<1>2. link[q] = "up" /\ ~unserved[q] =>
        \A R \in SUBSET Screen : EndsWith(down[q], "config", Adopted(q), R) => R = Owned(q)
  BY DEF Arrives
<1>3. CASE Still(q) \/ Owing(q)
  BY <1>2, <1>3, <1>10 DEF Still, Owing, Same
<1>4. CASE Armed(q)
  <2>1. PICK R \in SUBSET Screen : Grows(q, FramesRequest(R))
    BY <1>4 DEF Armed
  <2>2. EndsWith(Append(down[q], FramesRequest(R)), "config", Adopted(q), S) /\ link[q] = "up"
    BY <1>4, <1>10, <2>1 DEF Grows, Armed
  <2>3. EndsWith(down[q], "config", Adopted(q), S)
    BY <1>1, <2>2, MessageType, EndsAppend
  <2> QED BY <1>2, <1>4, <2>2, <2>3 DEF Armed
<1>5. CASE Edited(q)
  <2>1. PICK R \in SUBSET Screen : R = Owned(q)' /\ Grows(q, ConfigPush(R))
    BY <1>5 DEF Edited, Same
  <2>2. EndsWith(Append(down[q], ConfigPush(R)), "config", Adopted(q)', S)
    BY <2>1 DEF Grows
  <2>3. S = R
    BY <1>1, <2>2, MessageType, EndsAppend
  <2> QED BY <2>1, <2>3
<1>6. CASE Reads(q)
  <2>1. /\ link[q] = "up" /\ ~unserved[q] /\ Owned(q)' = Owned(q) /\ down[q] # <<>>
        /\ EndsWith(Tail(down[q]), "config", Adopted(q)', S)
    BY <1>6, OwnedKept DEF Reads, table
  <2>2. \/ EndsWith(down[q], "config", Adopted(q), S)
        \/ /\ S = Adopted(q)'
           /\ Head(down[q]).type = "config"
                => EndsWith(down[q], "config", Adopted(q), Head(down[q]).screens)
           /\ Head(down[q]).type # "config" => EndsWith(down[q], "config", Adopted(q), Adopted(q))
    BY <1>1, <2>1, EndsTail
  <2>3. \/ Head(down[q]).type # "config" /\ Adopted(q)' = Adopted(q)
        \/ Head(down[q]).type = "config" /\ Adopted(q)' = Head(down[q]).screens
        \/ Adopted(q)' = Owned(q)
    BY <1>1, <1>6, <2>1 DEF Reads, Adopted
  <2> QED BY <1>1, <1>2, <2>1, <2>2, <2>3
<1>7. CASE Off(q)
  BY <1>7 DEF Off
<1>8. CASE Greets(q)
  <2>1. Owned(q)' = Owned(q) /\ shown'[q] = shown[q] /\ refused'[q] = refused[q]
    BY <1>8, OwnedKept DEF Greets, table
  <2>2. CASE down'[q] = <<ConfigPush(Owned(q))>>
    BY <1>1, <2>1, <2>2, MessageType, EndsOne
  <2>3. CASE shown[q] = Owned(q) /\ ~refused[q] /\ down'[q] = Resume(q, Owned(q))
    <3>0. Adopted(q)' = Owned(q)
      BY <2>1, <2>3 DEF Adopted
    <3>1. CASE down'[q] = <<>>
      BY <2>1, <3>0, <3>1, EndsEmpty
    <3>2. CASE down'[q] = <<FramesRequest(Watched \cap Owned(q))>>
      <4>1. /\ FramesRequest(Watched \cap Owned(q)) \in Message
            /\ FramesRequest(Watched \cap Owned(q)).type = "frames"
        BY <1>1, MessageType
      <4> QED BY <1>1, <2>1, <3>0, <3>2, <4>1, EndsOne
    <3> QED BY <1>1, <2>3, <3>1, <3>2, ResumeIs
  <2> QED BY <1>8, <2>2, <2>3 DEF Greets
<1>9. CASE Resumes(q)
  <2>1. /\ Owned(q)' = Owned(q) /\ greeting[q] \in SUBSET Screen /\ Adopted(q)' = Adopted(q)
        /\ link[q] = "up" /\ ~unserved[q]
    BY <1>9, <1>10, OwnedKept DEF Resumes, table, TypeOK
  <2>2. \/ down'[q] = down[q]
        \/ down'[q] = Append(down[q], FramesRequest(Watched \cap greeting[q]))
    BY <1>1, <1>9, <2>1, ResumeAppends DEF Resumes
  <2>3. /\ FramesRequest(Watched \cap greeting[q]) \in Message
        /\ FramesRequest(Watched \cap greeting[q]).type = "frames"
    BY <2>1, MessageType
  <2>4. EndsWith(down[q], "config", Adopted(q), S)
    <3>1. EndsWith(down'[q], "config", Adopted(q), S)
      BY <2>1
    <3>2. CASE down'[q] = Append(down[q], FramesRequest(Watched \cap greeting[q]))
      <4>1. EndsWith(Append(down[q], FramesRequest(Watched \cap greeting[q])), "config", Adopted(q), S)
        BY <3>1, <3>2
      <4> QED BY <1>1, <2>3, <4>1, EndsAppend
    <3> QED BY <2>2, <3>1, <3>2
  <2> QED BY <1>2, <2>1, <2>4
<1> QED BY <1>3, <1>4, <1>5, <1>6, <1>7, <1>8, <1>9 DEF RackCase


-----------------------------------------------------------------------------
(* What a rack streams, or will stream.                                    *)

\* A screen that is new to a rack is watched by nobody, and is none of those it
\* has enabled or will enable.
LEMMA NewIsNew ==
  ASSUME TypeOK, Watches, Known, NEW q \in Rack, NEW s \in Screen, \A r \in Rack : ~Own(r, s),
         NEW S, EndsWith(down[q], "frames", enabled[q], S)
  PROVE  s \notin S /\ s \notin Watched
<1>1. s \notin S
  <2>1. s \notin enabled[q] /\ \A i \in DOMAIN down[q] : s \notin down[q][i].screens
    BY DEF Known
  <2> QED BY <2>1 DEF EndsWith
<1>2. \A t \in Tab : screens[t][s] = None
  BY DEF Watches, TypeOK
<1> QED BY <1>1, <1>2 DEF Watched, Watchers

LEMMA ToldStep ==
  ASSUME TypeOK, Linked, Watches, Known, Pushed, Greeted, Told, \A q \in Rack : RackCase(q)
  PROVE  Told'
<1> SUFFICES ASSUME ~AddInGreeting, ~ReuseIds, NEW q \in Rack, link'[q] = "up",
                    \A t \in Tab : q \notin owed'[t]
             PROVE  ToldOf(q)'
  BY DEF Told
<1>1. /\ down[q] \in Seq(Message) /\ Owned(q) \in SUBSET Screen /\ enabled[q] \in SUBSET Screen
      /\ "frames" # "config"
  BY OwnedType DEF TypeOK
<1>2. link[q] = "up" /\ (\A t \in Tab : q \notin owed[t]) => ToldOf(q)
  BY DEF Told
<1>3. CASE Still(q)
  <2>1. ToldOf(q)
    BY <1>2, <1>3 DEF Still, Same
  <2>2. /\ Watched' \cap Owned(q)' = Watched \cap Owned(q) /\ Owned(q)' = Owned(q)
        /\ down'[q] = down[q] /\ enabled'[q] = enabled[q] /\ greeting'[q] = greeting[q]
    BY <1>3 DEF Still, Same
  <2> QED BY <2>1, <2>2 DEF ToldOf, EndsWith
<1>4. CASE Owing(q)
  BY <1>4 DEF Owing, Same
<1>5. CASE Armed(q)
  <2>1. PICK R \in SUBSET Screen : R = Watched' \cap Owned(q) /\ Grows(q, FramesRequest(R))
    BY <1>5 DEF Armed
  <2>2. ASSUME NEW S \in SUBSET Screen, EndsWith(down'[q], "frames", enabled'[q], S)
        PROVE  S \cap Owned(q)' = Watched' \cap Owned(q)'
    <3>1. EndsWith(Append(down[q], FramesRequest(R)), "frames", enabled[q], S)
      BY <2>1, <2>2 DEF Grows
    <3>2. S = R
      BY <1>1, <3>1, MessageType, EndsAppend
    <3> QED BY <1>5, <2>1, <3>2 DEF Armed
  <2> QED BY <2>2 DEF ToldOf, EndsWith
<1>6. CASE Edited(q)
  <2>1. Same(q) \/ \E R \in SUBSET Screen : Grows(q, ConfigPush(R))
    BY <1>6 DEF Edited
  <2>2. /\ enabled'[q] = enabled[q] /\ greeting'[q] = greeting[q] /\ link[q] = "up"
        /\ Watched' = Watched /\ owed' = owed
    BY <1>6, <2>1, WatchedKept DEF Same, Grows, Edited, tabs
  <2>3. ToldOf(q)
    BY <1>2, <2>2
  <2>4. ASSUME NEW S \in SUBSET Screen, EndsWith(down'[q], "frames", enabled'[q], S)
        PROVE  EndsWith(down[q], "frames", enabled[q], S)
    <3>1. CASE Same(q)
      BY <2>4, <3>1 DEF Same
    <3>2. ASSUME NEW R \in SUBSET Screen, Grows(q, ConfigPush(R))
          PROVE  EndsWith(down[q], "frames", enabled[q], S)
      <4>1. EndsWith(Append(down[q], ConfigPush(R)), "frames", enabled[q], S)
        BY <2>4, <3>2 DEF Grows
      <4> QED BY <1>1, <4>1, MessageType, EndsAppend
    <3> QED BY <2>1, <3>1, <3>2
  <2>5. CASE \A S \in SUBSET Screen :
               EndsWith(down[q], "frames", enabled[q], S) => S \cap Owned(q) = Watched \cap Owned(q)
    <3>1. ASSUME NEW S \in SUBSET Screen, EndsWith(down'[q], "frames", enabled'[q], S),
                 NEW s \in Owned(q)'
          PROVE  s \in S <=> s \in Watched'
      <4>1. CASE s \in Owned(q)
        BY <2>2, <2>4, <2>5, <3>1, <4>1
      <4>2. CASE \A r \in Rack : ~Own(r, s)
        <5>1. s \in Screen
          BY DEF Owned
        <5> QED BY <2>2, <2>4, <3>1, <4>2, <5>1, NewIsNew
      <4> QED BY <1>6, <4>1, <4>2 DEF Edited
    <3>2. ASSUME NEW S \in SUBSET Screen, EndsWith(down'[q], "frames", enabled'[q], S)
          PROVE  S \cap Owned(q)' = Watched' \cap Owned(q)'
      BY <3>1, <3>2
    <3> QED BY <3>2 DEF ToldOf, EndsWith
  <2>6. CASE /\ greeting[q] # None
             /\ \A S \in SUBSET Screen : EndsWith(down[q], "frames", enabled[q], S) => S = {}
    <3>1. ASSUME NEW S \in SUBSET Screen, EndsWith(down'[q], "frames", enabled'[q], S)
          PROVE  S = {}
      BY <2>4, <2>6, <3>1
    <3> QED BY <2>2, <2>6, <3>1 DEF ToldOf, EndsWith
  <2> QED BY <2>3, <2>5, <2>6 DEF ToldOf
<1>7. CASE Reads(q)
  <2>1. /\ link[q] = "up" /\ down[q] # <<>> /\ down'[q] = Tail(down[q])
        /\ greeting'[q] = greeting[q]
        /\ Owned(q)' = Owned(q) /\ Watched' = Watched /\ owed' = owed
    BY <1>7, OwnedKept, WatchedKept DEF Reads, table, tabs
  <2>2. ToldOf(q)
    BY <1>2, <2>1
  <2>3. ASSUME NEW S \in SUBSET Screen, EndsWith(down'[q], "frames", enabled'[q], S)
        PROVE  \E R \in SUBSET Screen : /\ EndsWith(down[q], "frames", enabled[q], R)
                                       /\ S \subseteq R /\ S \cap Owned(q) = R \cap Owned(q)
    <3>1. \/ EndsWith(down[q], "frames", enabled[q], S)
          \/ /\ S = enabled'[q]
             /\ Head(down[q]).type = "frames"
                  => EndsWith(down[q], "frames", enabled[q], Head(down[q]).screens)
             /\ Head(down[q]).type # "frames" => EndsWith(down[q], "frames", enabled[q], enabled[q])
      <4>1. EndsWith(Tail(down[q]), "frames", enabled'[q], S)
        BY <2>1, <2>3
      <4> QED BY <1>1, <2>1, <4>1, EndsTail
    <3>2. CASE Head(down[q]).type = "frames" /\ enabled'[q] = Head(down[q]).screens
      BY <3>1, <3>2
    <3>3. CASE /\ Head(down[q]).type = "config"
               /\ enabled'[q] = enabled[q] \ (shown[q] \ Head(down[q]).screens)
      <4>1. \A s \in Owned(q) : s \in shown[q] => s \in Head(down[q]).screens
        BY <1>1, <2>1, <3>3, SteadyTail DEF Pushed
      <4>2. /\ enabled'[q] \subseteq enabled[q]
            /\ enabled'[q] \cap Owned(q) = enabled[q] \cap Owned(q)
        BY <3>3, <4>1
      <4> QED BY <1>1, <3>1, <3>3, <4>2
    <3>4. CASE Head(down[q]).type = "config" /\ enabled'[q] = enabled[q]
      BY <1>1, <3>1, <3>4
    <3> QED BY <1>7, <3>2, <3>3, <3>4 DEF Reads
  <2>4. CASE \A S \in SUBSET Screen :
               EndsWith(down[q], "frames", enabled[q], S) => S \cap Owned(q) = Watched \cap Owned(q)
    <3>1. ASSUME NEW S \in SUBSET Screen, EndsWith(down'[q], "frames", enabled'[q], S)
          PROVE  S \cap Owned(q)' = Watched' \cap Owned(q)'
      BY <2>1, <2>3, <2>4, <3>1
    <3> QED BY <3>1 DEF ToldOf, EndsWith
  <2>5. CASE /\ greeting[q] # None
             /\ \A S \in SUBSET Screen : EndsWith(down[q], "frames", enabled[q], S) => S = {}
    <3>1. ASSUME NEW S \in SUBSET Screen, EndsWith(down'[q], "frames", enabled'[q], S)
          PROVE  S = {}
      BY <2>3, <2>5, <3>1
    <3> QED BY <2>1, <2>5, <3>1 DEF ToldOf, EndsWith
  <2> QED BY <2>2, <2>4, <2>5 DEF ToldOf
<1>8. CASE Off(q)
  BY <1>8 DEF Off
<1>9. CASE Greets(q)
  <2>1. /\ Owned(q)' = Owned(q) /\ Watched' = Watched
        /\ enabled'[q] = {}
    BY <1>9, OwnedKept, WatchedKept DEF Greets, table, tabs, Linked
  <2>2. CASE greeting'[q] = Owned(q) /\ down'[q] = <<ConfigPush(Owned(q))>>
    <3>1. ASSUME NEW S \in SUBSET Screen, EndsWith(down'[q], "frames", enabled'[q], S)
          PROVE  S = {}
      <4>1. EndsWith(<<ConfigPush(Owned(q))>>, "frames", {}, S)
        BY <2>1, <2>2, <3>1
      <4> QED BY <1>1, <4>1, MessageType, EndsOne
    <3>2. greeting'[q] # None
      BY <1>1, <2>2, Limits
    <3> QED BY <3>1, <3>2 DEF ToldOf, EndsWith
  <2>3. CASE down'[q] = Resume(q, Owned(q))
    <3>1. ASSUME NEW S \in SUBSET Screen, EndsWith(down'[q], "frames", enabled'[q], S)
          PROVE  S \cap Owned(q) = Watched \cap Owned(q)
      <4>1. CASE Resume(q, Owned(q)) = <<>> /\ Watched \cap Owned(q) = {}
        <5>1. EndsWith(<<>>, "frames", {}, S)
          BY <2>1, <2>3, <3>1, <4>1
        <5> QED BY <4>1, <5>1, EndsEmpty
      <4>2. CASE Resume(q, Owned(q)) = <<FramesRequest(Watched \cap Owned(q))>>
        <5>1. EndsWith(<<FramesRequest(Watched \cap Owned(q))>>, "frames", {}, S)
          BY <2>1, <2>3, <3>1, <4>2
        <5>2. /\ FramesRequest(Watched \cap Owned(q)) \in Message
              /\ FramesRequest(Watched \cap Owned(q)).type = "frames"
              /\ FramesRequest(Watched \cap Owned(q)).screens = Watched \cap Owned(q)
          BY <1>1, MessageType
        <5> QED BY <5>1, <5>2, EndsOne
      <4> QED BY <1>1, <4>1, <4>2, ResumeIs
    <3> QED BY <2>1, <3>1 DEF ToldOf, EndsWith
  <2> QED BY <1>9, <2>2, <2>3 DEF Greets
<1>10. CASE Resumes(q)
  <2>1. /\ Owned(q)' = Owned(q) /\ Watched' = Watched /\ owed' = owed
        /\ greeting[q] \in SUBSET Screen /\ enabled'[q] = enabled[q]
        /\ link[q] = "up" /\ Owned(q) \subseteq greeting[q]
    BY <1>10, OwnedKept, WatchedKept DEF Resumes, table, tabs, TypeOK, Greeted
  <2>2. ToldOf(q)
    BY <1>2, <2>1
  <2>3. down'[q] = down[q] \o Resume(q, greeting[q])
    BY <1>10, <2>1 DEF Resumes, Linked
  <2>4. CASE down'[q] = down[q] /\ Watched \cap greeting[q] = {}
    <3>1. ASSUME NEW S \in SUBSET Screen, EndsWith(down'[q], "frames", enabled'[q], S)
          PROVE  S \cap Owned(q) = Watched \cap Owned(q)
      <4>1. EndsWith(down[q], "frames", enabled[q], S) /\ Watched \cap Owned(q) = {}
        BY <2>1, <2>4, <3>1
      <4> QED BY <2>2, <4>1 DEF ToldOf
    <3> QED BY <2>1, <3>1 DEF ToldOf, EndsWith
  <2>5. CASE down'[q] = Append(down[q], FramesRequest(Watched \cap greeting[q]))
    <3>1. ASSUME NEW S \in SUBSET Screen, EndsWith(down'[q], "frames", enabled'[q], S)
          PROVE  S \cap Owned(q) = Watched \cap Owned(q)
      <4>1. EndsWith(Append(down[q], FramesRequest(Watched \cap greeting[q])), "frames", enabled[q], S)
        BY <2>1, <2>5, <3>1
      <4>2. /\ FramesRequest(Watched \cap greeting[q]) \in Message
            /\ FramesRequest(Watched \cap greeting[q]).type = "frames"
            /\ FramesRequest(Watched \cap greeting[q]).screens = Watched \cap greeting[q]
        BY <2>1, MessageType
      <4>3. S = Watched \cap greeting[q]
        BY <1>1, <4>1, <4>2, EndsAppend
      <4> QED BY <2>1, <4>3
    <3> QED BY <2>1, <3>1 DEF ToldOf, EndsWith
  <2> QED BY <1>1, <2>1, <2>3, <2>4, <2>5, ResumeAppends
<1> QED BY <1>3, <1>4, <1>5, <1>6, <1>7, <1>8, <1>9, <1>10 DEF RackCase

-----------------------------------------------------------------------------
(* Who watches, and whose queue is filled.                                 *)

LEMMA OfferOthers ==
  ASSUME TypeOK, NEW T, NEW item, Offer(T, item), NEW t \in Tab, t \notin T
  PROVE  queue'[t] = queue[t]
BY DEF Offer, TypeOK

LEMMA TabWatches ==
  ASSUME TypeOK, Spent, Watches, NEW t \in Tab,
         \/ Open(t) \/ Close(t) \/ Write(t) \/ TabStep(t)
         \/ \E s \in Screen : Subscribe(t, s) \/ Unsubscribe(t, s)
  PROVE  Watches'
<1>1. CASE Open(t)
  <2>1. /\ UNCHANGED <<table, screens, queue>> /\ tab'[t] = "open"
        /\ \A u \in Tab \ {t} : tab'[u] = tab[u]
    BY <1>1 DEF Open, TypeOK
  <2> QED BY <2>1 DEF Watches, Own, table
<1>2. CASE Close(t)
  <2>1. /\ UNCHANGED table /\ queue'[t] = <<>> /\ \A s \in Screen : screens'[t][s] = None
        /\ \A u \in Tab \ {t} : /\ tab'[u] = tab[u] /\ queue'[u] = queue[u]
                                /\ screens'[u] = screens[u]
    BY <1>2 DEF Close, TypeOK
  <2> QED BY <2>1 DEF Watches, Own, table
<1>3. CASE Write(t)
  <2>1. /\ UNCHANGED <<table, screens, tab>> /\ tab[t] = "open"
        /\ \A u \in Tab \ {t} : queue'[u] = queue[u]
    BY <1>3 DEF Write, TypeOK, tabs
  <2> QED BY <2>1 DEF Watches, Own, table
<1>4. CASE Leave(t)
  <2>1. /\ UNCHANGED <<table, screens, queue>> /\ tab[t] = "closing" /\ tab'[t] = "closed"
        /\ \A u \in Tab \ {t} : tab'[u] = tab[u]
    BY <1>4 DEF Leave, TypeOK, pages
  <2> QED BY <2>1 DEF Watches, Own, table
<1>5. ASSUME NEW r \in Rack, WindowPasses(t, r) \/ Flush(t, r) \/ Tell(t, r)
      PROVE  Watches'
  BY <1>5 DEF WindowPasses, Flush, Tell, Watches, Own, table, pages
<1>6. ASSUME NEW s \in Screen, Subscribe(t, s) \/ Unsubscribe(t, s)
      PROVE  Watches'
  <2>1. UNCHANGED <<table, tab, queue>> /\ tab[t] = "open"
    BY <1>6 DEF Subscribe, Unsubscribe, pages
  <2>2. PICK x \in {owner[s], None} :
          screens' = [screens EXCEPT ![t] = [screens[t] EXCEPT ![s] = x]]
    BY <1>6 DEF Subscribe, Unsubscribe
  <2>3. /\ \A u \in Tab \ {t} : screens'[u] = screens[u]
        /\ \A y \in Screen : screens'[t][y] = IF y = s THEN x ELSE screens[t][y]
    BY <2>2 DEF TypeOK
  <2> QED BY <2>1, <2>3 DEF Watches, Own, table
<1> QED BY <1>1, <1>2, <1>3, <1>4, <1>5, <1>6 DEF TabStep

LEMMA WatchesStep ==
  ASSUME TypeOK, Spent, Watches, Next
  PROVE  Watches'
<1>1. ASSUME UNCHANGED tabs,
             \/ UNCHANGED pages
             \/ \E item : Offer({t \in Tab : tab[t] = "open"}, item)
             \/ \E s \in Screen : \E item : Offer(Watchers(s), item)
      PROVE  Watches'
  <2>1. ASSUME NEW t \in Tab, tab[t] # "open"
        PROVE  queue'[t] = queue[t]
    <3>1. \A s \in Screen : t \notin Watchers(s)
      BY <2>1 DEF Watches, Watchers
    <3>2. CASE UNCHANGED pages
      BY <3>2 DEF pages
    <3>3. ASSUME NEW T, t \notin T, NEW item, Offer(T, item)
          PROVE  queue'[t] = queue[t]
      BY <3>3, OfferOthers
    <3>4. t \notin {u \in Tab : tab[u] = "open"}
      BY <2>1
    <3> QED BY <1>1, <3>1, <3>2, <3>3, <3>4
  <2>2. \A r \in Rack, s \in Screen : Own(r, s) => Own(r, s)'
    BY TableStep
  <2>3. \A t \in Tab, s \in Screen : screens[t][s] # None => screens[t][s] \in Rack
    BY DEF TypeOK
  <2> QED BY <1>1, <2>1, <2>2, <2>3 DEF Watches, tabs
<1>2. CASE \E r \in Rack : Greet(r) \/ DropConnection(r)
  BY <1>1, <1>2 DEF Greet, DropConnection, Announce
<1>3. CASE \E r \in Rack : StreamStep(r)
  BY <1>1, <1>3 DEF StreamStep, Take, Draw, SendFrame
<1>4. CASE \E r \in Rack : Connect(r) \/ Receive(r) \/ ResumeAfterPush(r) \/ LoseLink(r)
  BY <1>1, <1>4 DEF Connect, Receive, ResumeAfterPush, LoseLink
<1>5. CASE \E s \in Screen : RemoveScreen(s) \/ \E r \in Rack : AddScreen(s, r)
  BY <1>1, <1>5 DEF RemoveScreen, AddScreen
<1>6. CASE \E t \in Tab : \/ Open(t) \/ Close(t) \/ Write(t) \/ TabStep(t)
                          \/ \E s \in Screen : Subscribe(t, s) \/ Unsubscribe(t, s)
  BY <1>6, TabWatches
<1> QED BY <1>2, <1>3, <1>4, <1>5, <1>6 DEF Next, RackStep, HandlerStep

-----------------------------------------------------------------------------
(* What a rack that refused a configuration encodes.                       *)

\* What is watched of a rack's own screens is watched as the rack's.
LEMMA WatchedUnder ==
  ASSUME ~ReuseIds, NEW q \in Rack
  PROVE  /\ TypeOK /\ Watches /\ Spent => Watched \cap Owned(q) \subseteq Under(q)
         /\ (TypeOK /\ Watches /\ Spent)' => (Watched \cap Owned(q))' \subseteq Under(q)'
<1>1. ASSUME TypeOK, Watches, Spent
      PROVE  Watched \cap Owned(q) \subseteq Under(q)
  <2>1. ASSUME NEW s \in Watched \cap Owned(q)
        PROVE  s \in Under(q)
    <3>1. PICK t \in Tab : screens[t][s] # None
      BY <2>1 DEF Watched, Watchers
    <3>2. s \in Screen /\ owner[s] = q /\ s \notin spent
      BY <1>1, <2>1, Limits DEF Owned, Spent
    <3>3. screens[t][s] = q
      BY <1>1, <3>1, <3>2 DEF Watches, Own
    <3> QED BY <3>2, <3>3 DEF Under
  <2> QED BY <2>1
<1>2. ASSUME TypeOK', Watches', Spent'
      PROVE  (Watched \cap Owned(q))' \subseteq Under(q)'
  <2>1. ASSUME NEW s \in (Watched \cap Owned(q))'
        PROVE  s \in Under(q)'
    <3>1. PICK t \in Tab : screens'[t][s] # None
      BY <2>1 DEF Watched, Watchers
    <3>2. s \in Screen /\ owner'[s] = q /\ s \notin spent'
      BY <1>2, <2>1, Limits DEF Owned, Spent
    <3>3. screens'[t][s] = q
      BY <1>2, <3>1, <3>2 DEF Watches, Own
    <3> QED BY <3>2, <3>3 DEF Under
  <2> QED BY <2>1
<1> QED BY <1>1, <1>2

\* A tab starts to watch a screen as its owner's, and stops.
LEMMA ScreensMove ==
  ASSUME TypeOK, Next
  PROVE  \A t \in Tab, s \in Screen : screens'[t][s] \in {screens[t][s], None, owner[s]}
<1>1. ASSUME NEW t \in Tab, NEW s \in Screen, Subscribe(t, s) \/ Unsubscribe(t, s)
      PROVE  \A u \in Tab, x \in Screen : screens'[u][x] \in {screens[u][x], None, owner[x]}
  <2>1. PICK x \in {owner[s], None} :
          screens' = [screens EXCEPT ![t] = [screens[t] EXCEPT ![s] = x]]
    BY <1>1 DEF Subscribe, Unsubscribe
  <2> QED BY <2>1 DEF TypeOK
<1>2. ASSUME NEW t \in Tab, Close(t)
      PROVE  \A u \in Tab, x \in Screen : screens'[u][x] \in {screens[u][x], None, owner[x]}
  BY <1>2 DEF Close, TypeOK
<1>3. CASE \E t \in Tab : Open(t) \/ Write(t) \/ TabStep(t)
  BY <1>3 DEF Open, Write, TabStep, Leave, WindowPasses, Flush, Tell, tabs
<1>4. CASE UNCHANGED tabs
  BY <1>4 DEF tabs
<1>5. CASE \E r \in Rack : RackStep(r) \/ StreamStep(r) \/ HandlerStep(r)
  BY <1>4, <1>5 DEF RackStep, StreamStep, HandlerStep, Connect, Receive, Take, Draw, SendFrame,
                    Greet, ResumeAfterPush
<1>6. CASE \E r \in Rack : LoseLink(r) \/ DropConnection(r)
  BY <1>4, <1>6 DEF LoseLink, DropConnection
<1>7. CASE \E s \in Screen : RemoveScreen(s) \/ \E r \in Rack : AddScreen(s, r)
  BY <1>4, <1>7 DEF RemoveScreen, AddScreen
<1> QED BY <1>1, <1>2, <1>3, <1>5, <1>6, <1>7 DEF Next

LEMMA GreetsOwnStep ==
  ASSUME TypeOK, Watches, Known, Spent, GreetsOwn, Next, \A q \in Rack : RackCase(q)
  PROVE  GreetsOwn'
<1> SUFFICES ASSUME ~ReuseIds, NEW q \in Rack, greeting'[q] # None, NEW s \in greeting'[q],
                    NEW t \in Tab
             PROVE  screens'[t][s] \in {None, q}
  BY DEF GreetsOwn
<1>1. greeting'[q] = greeting[q] \/ (UNCHANGED tabs /\ greeting'[q] = Owned(q))
  <2>1. CASE Still(q) \/ Owing(q) \/ Armed(q) \/ Edited(q)
    <3>1. Same(q) \/ \E m : Grows(q, m)
      BY <2>1 DEF Still, Owing, Armed, Edited
    <3> QED BY <3>1 DEF Same, Grows
  <2>2. CASE Reads(q) \/ Off(q) \/ Greets(q) \/ Resumes(q)
    BY <2>2 DEF Reads, Off, Greets, Resumes
  <2> QED BY <2>1, <2>2 DEF RackCase
<1>2. CASE greeting'[q] = greeting[q]
  <2>1. s \in Screen /\ Own(q, s) /\ screens[t][s] \in {None, q}
    BY <1>2 DEF TypeOK, Known, GreetsOwn
  <2>2. owner[s] \in {None, q}
    BY <2>1 DEF Own, Spent
  <2> QED BY <2>1, <2>2, ScreensMove
<1>3. CASE UNCHANGED tabs /\ greeting'[q] = Owned(q)
  <2>1. s \in Screen /\ owner[s] = q /\ s \notin spent /\ screens'[t][s] = screens[t][s]
    BY <1>3, Limits DEF Owned, Spent, tabs
  <2> QED BY <2>1 DEF Watches, Own
<1> QED BY <1>1, <1>2, <1>3

LEMMA WatchfulStep ==
  ASSUME TypeOK, Linked, Watches, Spent, GreetsOwn, Watchful, TypeOK', Watches', Spent',
         \A q \in Rack : RackCase(q)
  PROVE  Watchful'
<1> SUFFICES ASSUME ~ReuseIds, NEW q \in Rack, link'[q] = "up", \A t \in Tab : q \notin owed'[t],
                    NEW S \in SUBSET Screen, EndsWith(down'[q], "frames", enabled'[q], S)
             PROVE  S \subseteq Under(q)'
  BY DEF Watchful, EndsWith
<1>1. /\ down[q] \in Seq(Message) /\ Owned(q) \in SUBSET Screen /\ enabled[q] \in SUBSET Screen
      /\ "frames" # "config"
  BY OwnedType DEF TypeOK
<1>2. link[q] = "up" /\ (\A t \in Tab : q \notin owed[t]) =>
        \A R \in SUBSET Screen : EndsWith(down[q], "frames", enabled[q], R) => R \subseteq Under(q)
  BY DEF Watchful
<1>3. UNCHANGED tabs => Under(q)' = Under(q) /\ owed' = owed
  BY DEF tabs, Under
<1>4. CASE Still(q)
  <2>1. /\ EndsWith(down[q], "frames", enabled[q], S) /\ link[q] = "up"
        /\ \A t \in Tab : q \notin owed[t]
    BY <1>4 DEF Still, Same
  <2> QED BY <1>2, <1>4, <2>1 DEF Still
<1>5. CASE Owing(q)
  BY <1>5 DEF Owing, Same
<1>6. CASE Armed(q)
  <2>1. PICK R \in SUBSET Screen : R = Watched' \cap Owned(q) /\ Grows(q, FramesRequest(R))
    BY <1>6 DEF Armed
  <2>2. EndsWith(Append(down[q], FramesRequest(R)), "frames", enabled[q], S)
    BY <2>1 DEF Grows
  <2>3. S = R
    BY <1>1, <2>2, MessageType, EndsAppend
  <2>4. R = (Watched \cap Owned(q))'
    BY <1>6, <2>1 DEF Armed
  <2> QED BY <2>3, <2>4, WatchedUnder
<1>7. CASE Edited(q)
  <2>1. Same(q) \/ \E R \in SUBSET Screen : Grows(q, ConfigPush(R))
    BY <1>7 DEF Edited
  <2>2. link[q] = "up"
    BY <2>1 DEF Same, Grows
  <2>3. EndsWith(down[q], "frames", enabled[q], S)
    <3>1. CASE Same(q)
      BY <3>1 DEF Same
    <3>2. ASSUME NEW R \in SUBSET Screen, Grows(q, ConfigPush(R))
          PROVE  EndsWith(down[q], "frames", enabled[q], S)
      <4>1. EndsWith(Append(down[q], ConfigPush(R)), "frames", enabled[q], S)
        BY <3>2 DEF Grows
      <4> QED BY <1>1, <4>1, MessageType, EndsAppend
    <3> QED BY <2>1, <3>1, <3>2
  <2> QED BY <1>2, <1>3, <1>7, <2>2, <2>3 DEF Edited
<1>8. CASE Reads(q)
  <2>1. /\ link[q] = "up" /\ down[q] # <<>> /\ down'[q] = Tail(down[q]) /\ UNCHANGED tabs
        /\ \/ Head(down[q]).type = "frames" /\ enabled'[q] = Head(down[q]).screens
           \/ Head(down[q]).type # "frames" /\ enabled'[q] \subseteq enabled[q]
    BY <1>1, <1>8 DEF Reads
  <2>2. \/ EndsWith(down[q], "frames", enabled[q], S)
        \/ /\ S = enabled'[q]
           /\ Head(down[q]).type = "frames"
                => EndsWith(down[q], "frames", enabled[q], Head(down[q]).screens)
           /\ Head(down[q]).type # "frames" => EndsWith(down[q], "frames", enabled[q], enabled[q])
    <3>1. EndsWith(Tail(down[q]), "frames", enabled'[q], S)
      BY <2>1
    <3> QED BY <1>1, <2>1, <3>1, EndsTail
  <2>3. \E R \in SUBSET Screen : EndsWith(down[q], "frames", enabled[q], R) /\ S \subseteq R
    BY <1>1, <2>1, <2>2
  <2> QED BY <1>2, <1>3, <2>1, <2>3
<1>9. CASE Off(q)
  BY <1>9 DEF Off
<1>10. CASE Greets(q)
  <2>1. enabled'[q] = {} /\ UNCHANGED tabs
    BY <1>10 DEF Greets, Linked
  <2>2. Watched \cap Owned(q) \subseteq Under(q)
    BY WatchedUnder
  <2>3. \E m \in Message : /\ down'[q] = <<>> \/ down'[q] = <<m>>
                           /\ m.type = "config" \/ (m.type = "frames" /\ m.screens = Watched \cap Owned(q))
    <3>1. /\ ConfigPush(Owned(q)) \in Message /\ ConfigPush(Owned(q)).type = "config"
          /\ FramesRequest(Watched \cap Owned(q)) \in Message
          /\ FramesRequest(Watched \cap Owned(q)).type = "frames"
          /\ FramesRequest(Watched \cap Owned(q)).screens = Watched \cap Owned(q)
      BY <1>1, MessageType
    <3>2. \/ down'[q] = <<>>
          \/ down'[q] = <<ConfigPush(Owned(q))>>
          \/ down'[q] = <<FramesRequest(Watched \cap Owned(q))>>
      BY <1>1, <1>10, ResumeIs DEF Greets
    <3>3. CASE down'[q] = <<>> \/ down'[q] = <<ConfigPush(Owned(q))>>
      BY <3>1, <3>3
    <3>4. CASE down'[q] = <<FramesRequest(Watched \cap Owned(q))>>
      BY <3>1, <3>4
    <3> QED BY <3>2, <3>3, <3>4
  <2>4. EndsWith(down'[q], "frames", {}, S)
    BY <2>1
  <2>5. CASE down'[q] = <<>>
    <3>1. EndsWith(<<>>, "frames", {}, S)
      BY <2>4, <2>5
    <3>2. S = {}
      BY <3>1, EndsEmpty
    <3> QED BY <1>3, <2>1, <3>2
  <2>6. CASE down'[q] # <<>>
    <3>1. PICK m \in Message :
            /\ down'[q] = <<>> \/ down'[q] = <<m>>
            /\ m.type = "config" \/ (m.type = "frames" /\ m.screens = Watched \cap Owned(q))
      BY <2>3
    <3>2. EndsWith(<<m>>, "frames", {}, S)
      BY <2>4, <2>6, <3>1
    <3>3. IF m.type = "frames" THEN S = m.screens ELSE S = {}
      BY <3>2, EndsOne
    <3> QED BY <1>3, <2>1, <2>2, <3>1, <3>3
  <2> QED BY <2>5, <2>6
<1>11. CASE Resumes(q)
  <2>1. /\ link[q] = "up" /\ UNCHANGED tabs /\ greeting[q] # None /\ greeting[q] \in SUBSET Screen
        /\ enabled'[q] = enabled[q]
    BY <1>11 DEF Resumes, TypeOK
  <2>2. \/ down'[q] = down[q]
        \/ down'[q] = Append(down[q], FramesRequest(Watched \cap greeting[q]))
    BY <1>1, <1>11, <2>1, ResumeAppends DEF Resumes
  <2>3. Watched \cap greeting[q] \subseteq Under(q)
    <3>1. ASSUME NEW s \in Watched \cap greeting[q]
          PROVE  s \in Under(q)
      <4>1. PICK t \in Tab : screens[t][s] # None
        BY <3>1 DEF Watched, Watchers
      <4>2. screens[t][s] = q /\ s \in Screen
        BY <2>1, <3>1, <4>1 DEF GreetsOwn
      <4> QED BY <4>2 DEF Under
    <3> QED BY <3>1
  <2>4. CASE down'[q] = down[q]
    BY <1>2, <1>3, <2>1, <2>4
  <2>5. CASE down'[q] = Append(down[q], FramesRequest(Watched \cap greeting[q]))
    <3>1. EndsWith(Append(down[q], FramesRequest(Watched \cap greeting[q])), "frames", enabled[q], S)
      BY <2>1, <2>5
    <3>2. /\ FramesRequest(Watched \cap greeting[q]) \in Message
          /\ FramesRequest(Watched \cap greeting[q]).type = "frames"
          /\ FramesRequest(Watched \cap greeting[q]).screens = Watched \cap greeting[q]
      BY <2>1, MessageType
    <3>3. S = Watched \cap greeting[q]
      BY <1>1, <3>1, <3>2, EndsAppend
    <3> QED BY <1>3, <2>1, <2>3, <3>3
  <2> QED BY <2>2, <2>4, <2>5
<1> QED BY <1>4, <1>5, <1>6, <1>7, <1>8, <1>9, <1>10, <1>11 DEF RackCase

-----------------------------------------------------------------------------
(* What a page will show.                                                  *)

\* R is what a page that shows b has once it has read q: what the last list says.
Shows(q, b, R) ==
  \/ b = R /\ \A i \in DOMAIN q : ~IsList(q[i])
  \/ \E i \in DOMAIN q : /\ IsList(q[i]) /\ q[i].online = R
                         /\ \A j \in DOMAIN q : j > i => ~IsList(q[j])

LEMMA ListsShow ==
  ASSUME NEW q \in Seq(Item), NEW b, NEW R
  PROVE  Shows(q, b, R) <=>
           LET lists == {i \in DOMAIN q : IsList(q[i])}
           IN  \/ lists = {} /\ b = R
               \/ \E last \in lists : q[last].online = R /\ \A i \in lists : i <= last
<1>1. DOMAIN q \subseteq Nat
  BY LenProperties
<1>2. /\ (\A i \in DOMAIN q : ~IsList(q[i])) <=> {i \in DOMAIN q : IsList(q[i])} = {}
      /\ \A i \in DOMAIN q : (\A j \in {k \in DOMAIN q : IsList(q[k])} : j <= i)
                              <=> \A j \in DOMAIN q : j > i => ~IsList(q[j])
  BY <1>1
<1> QED BY <1>2 DEF Shows

LEMMA ShowsIs ==
  ASSUME NEW t \in Tab, NEW R
  PROVE  /\ TypeOK => (WillBelieve(t, R) <=> Shows(queue[t], believes[t], R))
         /\ TypeOK' => (WillBelieve(t, R)' <=> Shows(queue'[t], believes'[t], R))
<1>1. ASSUME TypeOK
      PROVE  WillBelieve(t, R) <=> Shows(queue[t], believes[t], R)
  <2>1. queue[t] \in Seq(Item)
    BY <1>1 DEF TypeOK
  <2> QED BY <2>1, ListsShow DEF WillBelieve
<1>2. ASSUME TypeOK'
      PROVE  WillBelieve(t, R)' <=> Shows(queue'[t], believes'[t], R)
  <2>1. queue'[t] \in Seq(Item)
    BY <1>2 DEF TypeOK
  <2> QED BY <2>1, ListsShow DEF WillBelieve
<1> QED BY <1>1, <1>2

LEMMA ShowsTail ==
  ASSUME NEW q \in Seq(Item), q # <<>>, NEW b, NEW R, Shows(q, b, R)
  PROVE  Shows(Tail(q), IF IsList(Head(q)) THEN Head(q).online ELSE b, R)
<1> DEFINE e == Tail(q)
           n == Len(q)
           c == IF IsList(Head(q)) THEN Head(q).online ELSE b
<1>1. /\ n \in Nat \ {0} /\ DOMAIN q = 1..n /\ DOMAIN e = 1..(n - 1)
      /\ \A i \in 1..(n - 1) : e[i] = q[i + 1]
      /\ q[1] = Head(q)
  BY TailIs
<1>2. IsList(q[1]) => c = q[1].online
  BY <1>1
<1>3. ~IsList(q[1]) => c = b
  BY <1>1
<1> HIDE DEF e, n, c
<1>4. CASE b = R /\ \A i \in DOMAIN q : ~IsList(q[i])
  <2>1. \A i \in DOMAIN e : ~IsList(e[i])
    BY <1>1, <1>4
  <2> QED BY <1>1, <1>3, <1>4, <2>1 DEF Shows, e, c
<1>5. ASSUME NEW i \in DOMAIN q, IsList(q[i]), q[i].online = R,
             \A j \in DOMAIN q : j > i => ~IsList(q[j])
      PROVE  Shows(e, c, R)
  <2>1. CASE i = 1
    <3>1. \A j \in DOMAIN e : ~IsList(e[j])
      <4>1. \A j \in DOMAIN e : j + 1 \in DOMAIN q /\ j + 1 > i /\ e[j] = q[j + 1]
        BY <1>1, <2>1
      <4> QED BY <1>5, <4>1
    <3> QED BY <1>2, <1>5, <2>1, <3>1 DEF Shows
  <2>2. CASE i # 1
    <3>1. i - 1 \in DOMAIN e /\ e[i - 1] = q[i]
      BY <1>1, <2>2
    <3>2. ASSUME NEW j \in DOMAIN e, j > i - 1
          PROVE  ~IsList(e[j])
      <4>1. j + 1 \in DOMAIN q /\ j + 1 > i /\ e[j] = q[j + 1]
        BY <1>1, <3>2
      <4> QED BY <1>5, <4>1
    <3> QED BY <1>5, <3>1, <3>2 DEF Shows
  <2> QED BY <2>1, <2>2
<1>6. Shows(e, c, R)
  BY <1>4, <1>5 DEF Shows, e, c
<1> QED BY <1>6 DEF e, c

\* A page is shown the list it is offered.
LEMMA ShowsList ==
  ASSUME NEW q \in Seq(Item), Len(q) <= QueueSize, NEW b, NEW R \in SUBSET Rack
  PROVE  Shows(Offered(q, OnlineList(R)), b, R)
<1> DEFINE e == Offered(q, OnlineList(R))
<1>1. OnlineList(R) \in Item /\ IsList(OnlineList(R)) /\ OnlineList(R).online = R
  BY ItemType
<1>2. e \in Seq(Item) /\ e[Len(e)] = OnlineList(R) /\ Len(e) \in Nat \ {0}
  <2>1. PICK k \in {0, 1} :
          /\ Len(e) = Len(q) + 1 - k /\ e[Len(q) + 1 - k] = OnlineList(R)
          /\ k = 1 => Len(q) >= 1
    BY <1>1, OfferedIs
  <2>2. e \in Seq(Item) /\ Len(q) \in Nat
    BY <1>1, OfferedIs
  <2> QED BY <2>1, <2>2
<1>3. DOMAIN e = 1..Len(e)
  BY <1>2, LenProperties
<1> HIDE DEF e
<1>4. Len(e) \in DOMAIN e /\ \A j \in DOMAIN e : ~(j > Len(e))
  BY <1>2, <1>3
<1>5. Shows(e, b, R)
  BY <1>1, <1>2, <1>4 DEF Shows
<1> QED BY <1>5 DEF e

\* A picture changes nothing, unless it pushes the only list out.
LEMMA ShowsPicture ==
  ASSUME NEW q \in Seq(Item), Len(q) <= QueueSize, NEW b, NEW R, Shows(q, b, R),
         ~Displaces(q, Picture)
  PROVE  Shows(Offered(q, Picture), b, R)
<1> DEFINE e == Offered(q, Picture)
           n == Len(q)
<1>1. PICK k \in {0, 1} :
        /\ Len(e) = n + 1 - k
        /\ \A i \in 1..(n - k) : e[i] = q[i + k]
        /\ e[n + 1 - k] = Picture
        /\ k = 1 <=> n = QueueSize
        /\ k = 1 => n >= 1
  BY ItemType, OfferedIs
<1>2. e \in Seq(Item) /\ n \in Nat /\ DOMAIN q = 1..n
  BY ItemType, OfferedIs, LenProperties
<1>3. DOMAIN e = 1..(n + 1 - k)
  BY <1>1, <1>2, LenProperties
<1>4. ~IsList(Picture)
  BY ItemType
<1>5. k = 1 => Head(q) = q[1]
  OBVIOUS
<1> HIDE DEF e, n
<1>6. \A i \in DOMAIN e : IsList(e[i]) => i + k \in DOMAIN q /\ e[i] = q[i + k]
  <2>1. ASSUME NEW i \in DOMAIN e, IsList(e[i])
        PROVE  i + k \in DOMAIN q /\ e[i] = q[i + k]
    <3>1. i # n + 1 - k
      BY <1>1, <1>4, <2>1
    <3>2. i \in 1..(n - k)
      BY <1>2, <1>3, <3>1
    <3>3. e[i] = q[i + k]
      BY <1>1, <3>2
    <3>4. i + k \in 1..n
      BY <1>2, <3>2
    <3> QED BY <1>2, <3>3, <3>4
  <2> QED BY <2>1
<1>7. ASSUME b = R, \A i \in DOMAIN q : ~IsList(q[i])
      PROVE  Shows(e, b, R)
  <2>1. \A i \in DOMAIN e : ~IsList(e[i])
    BY <1>6, <1>7
  <2> QED BY <1>7, <2>1 DEF Shows
<1>8. ASSUME NEW i \in DOMAIN q, IsList(q[i]), q[i].online = R,
             \A j \in DOMAIN q : j > i => ~IsList(q[j])
      PROVE  Shows(e, b, R)
  <2>1. i > k
    <3>1. CASE k = 1 /\ i = 1
      <4>1. \A j \in 2..n : ~IsList(q[j])
        BY <1>2, <1>8, <3>1
      <4>2. Len(q) = QueueSize /\ IsList(Head(q)) /\ ~IsList(Picture)
        BY <1>1, <1>4, <1>5, <1>8, <3>1 DEF n
      <4> QED BY <4>1, <4>2 DEF Displaces, n
    <3> QED BY <1>1, <1>2, <3>1
  <2>2. i - k \in DOMAIN e /\ e[i - k] = q[i]
    <3>1. i \in 1..n
      BY <1>2
    <3>2. i - k \in 1..(n - k)
      BY <1>2, <2>1, <3>1
    <3>3. e[i - k] = q[(i - k) + k]
      BY <1>1, <3>2
    <3>4. (i - k) + k = i /\ i - k \in 1..(n + 1 - k)
      BY <1>2, <3>1, <3>2
    <3> QED BY <1>3, <3>3, <3>4
  <2>3. ASSUME NEW j \in DOMAIN e, j > i - k
        PROVE  ~IsList(e[j])
    <3>1. ASSUME IsList(e[j])
          PROVE  FALSE
      <4>1. j + k \in DOMAIN q /\ e[j] = q[j + k] /\ j + k > i
        BY <1>1, <1>2, <1>3, <1>6, <2>3, <3>1
      <4> QED BY <1>8, <3>1, <4>1
    <3> QED BY <3>1
  <2> QED BY <1>8, <2>2, <2>3 DEF Shows
<1>9. Shows(e, b, R)
  BY <1>7, <1>8 DEF Shows
<1> QED BY <1>9 DEF e

LEMMA OfferShows ==
  ASSUME TypeOK, NEW T, NEW item \in Item, Offer(T, item), NEW t \in Tab
  PROVE  /\ believes' = believes
         /\ \A R \in SUBSET Rack :
              t \in T /\ item = OnlineList(R) => Shows(queue'[t], believes'[t], R)
         /\ \A R :
              item = Picture /\ ~displaced'[t] /\ (displaced[t] \/ Shows(queue[t], believes[t], R))
              => Shows(queue'[t], believes'[t], R)
         /\ t \notin T => queue'[t] = queue[t] /\ displaced'[t] = displaced[t]
<1>1. /\ queue'[t] = IF t \in T THEN Offered(queue[t], item) ELSE queue[t]
      /\ displaced'[t] = IF t \in T
                         THEN ~IsList(item) /\ (displaced[t] \/ Displaces(queue[t], item))
                         ELSE displaced[t]
      /\ believes' = believes
  BY DEF Offer
<1>2. queue[t] \in Seq(Item) /\ Len(queue[t]) <= QueueSize
  BY DEF TypeOK
<1>3. ASSUME NEW R \in SUBSET Rack, t \in T, item = OnlineList(R)
      PROVE  Shows(queue'[t], believes'[t], R)
  BY <1>1, <1>2, <1>3, ShowsList
<1>4. ASSUME NEW R, item = Picture, ~displaced'[t],
             displaced[t] \/ Shows(queue[t], believes[t], R)
      PROVE  Shows(queue'[t], believes'[t], R)
  <2>1. CASE t \in T
    <3>1. ~displaced[t] /\ ~Displaces(queue[t], Picture)
      BY <1>1, <1>4, <2>1, ItemType
    <3> QED BY <1>1, <1>2, <1>4, <2>1, <3>1, ShowsPicture
  <2>2. CASE t \notin T
    BY <1>1, <1>4, <2>2
  <2> QED BY <2>1, <2>2
<1> QED BY <1>1, <1>3, <1>4

LEMMA AnnounceInforms ==
  ASSUME TypeOK, TypeOK', Informed, tab' = tab, Announce(Online, Online')
  PROVE  Informed'
<1> SUFFICES ASSUME NEW t \in Tab, tab[t] = "open", ~displaced'[t]
             PROVE  WillBelieve(t, Online)'
  BY DEF Informed
<1>1. CASE Online' = Online
  <2>1. UNCHANGED pages
    BY <1>1 DEF Announce
  <2> QED BY <1>1, <2>1 DEF Informed, WillBelieve, pages
<1>2. CASE Online' # Online
  <2>1. Online' \in SUBSET Rack
    BY DEF Online
  <2>2. PICK R \in SUBSET Rack : R = Online'
    BY <2>1
  <2>3. Offer({u \in Tab : tab[u] = "open"}, OnlineList(R))
    BY <1>2, <2>2 DEF Announce
  <2>4. Shows(queue'[t], believes'[t], R)
    <3>1. OnlineList(R) \in Item
      BY ItemType
    <3> QED BY <2>3, <3>1, OfferShows
  <2>5. WillBelieve(t, R)'
    BY <2>4, ShowsIs
  <2> QED BY <2>2, <2>5 DEF WillBelieve
<1> QED BY <1>1, <1>2

LEMMA TabInforms ==
  ASSUME TypeOK, TypeOK', Watches, Informed, NEW t \in Tab,
         \/ Open(t) \/ Close(t) \/ Write(t) \/ TabStep(t)
         \/ \E s \in Screen : Subscribe(t, s) \/ Unsubscribe(t, s)
  PROVE  Informed'
<1>1. CASE Open(t)
  <2>1. /\ UNCHANGED <<queue, displaced, conn>> /\ believes'[t] = Online /\ tab[t] = "closed"
        /\ \A u \in Tab \ {t} : tab'[u] = tab[u] /\ believes'[u] = believes[u]
    BY <1>1 DEF Open, TypeOK, hub
  <2>2. Online' = Online
    BY <2>1 DEF Online
  <2>3. queue[t] = <<>>
    BY <2>1 DEF Watches
  <2>4. WillBelieve(t, Online)'
    BY <2>1, <2>2, <2>3 DEF WillBelieve
  <2>5. \A u \in Tab \ {t} : WillBelieve(u, Online) => WillBelieve(u, Online)'
    BY <2>1, <2>2 DEF WillBelieve
  <2> QED BY <2>1, <2>4, <2>5 DEF Informed
<1>2. CASE Close(t)
  <2>1. /\ conn' = conn /\ tab'[t] = "closing"
        /\ \A u \in Tab \ {t} : /\ tab'[u] = tab[u] /\ queue'[u] = queue[u]
                                /\ displaced'[u] = displaced[u] /\ believes'[u] = believes[u]
    BY <1>2 DEF Close, TypeOK, hub
  <2>2. Online' = Online
    BY <2>1 DEF Online
  <2>3. \A u \in Tab \ {t} : WillBelieve(u, Online) => WillBelieve(u, Online)'
    BY <2>1, <2>2 DEF WillBelieve
  <2> QED BY <2>1, <2>3 DEF Informed
<1>3. CASE Write(t)
  <2>1. /\ UNCHANGED <<conn, tab, displaced>> /\ queue[t] # <<>>
        /\ queue'[t] = Tail(queue[t])
        /\ believes'[t] = IF IsList(Head(queue[t])) THEN Head(queue[t]).online ELSE believes[t]
        /\ \A u \in Tab \ {t} : queue'[u] = queue[u] /\ believes'[u] = believes[u]
    BY <1>3 DEF Write, TypeOK, hub, tabs
  <2>2. Online' = Online
    BY <2>1 DEF Online
  <2>3. \A u \in Tab \ {t} : WillBelieve(u, Online) => WillBelieve(u, Online)'
    BY <2>1, <2>2 DEF WillBelieve
  <2>4. ASSUME WillBelieve(t, Online)
        PROVE  WillBelieve(t, Online)'
    <3>1. PICK R : R = Online
      OBVIOUS
    <3>2. queue[t] \in Seq(Item) /\ Shows(queue[t], believes[t], R)
      BY <2>4, <3>1, ShowsIs DEF TypeOK
    <3>3. Shows(Tail(queue[t]),
                IF IsList(Head(queue[t])) THEN Head(queue[t]).online ELSE believes[t], R)
      BY <2>1, <3>2, ShowsTail
    <3>4. Shows(queue'[t], believes'[t], R)
      BY <2>1, <3>3
    <3>5. WillBelieve(t, R)'
      BY <3>4, ShowsIs
    <3> QED BY <2>2, <3>1, <3>5 DEF WillBelieve
  <2> QED BY <2>1, <2>3, <2>4 DEF Informed
<1>4. ASSUME UNCHANGED <<conn, pages>>, \A u \in Tab : tab'[u] = "open" => tab[u] = "open"
      PROVE  Informed'
  BY <1>4 DEF Informed, WillBelieve, Online, pages
<1>5. CASE Leave(t)
  BY <1>4, <1>5 DEF Leave, TypeOK, hub
<1>6. CASE \E r \in Rack : WindowPasses(t, r) \/ Flush(t, r) \/ Tell(t, r)
  BY <1>4, <1>6 DEF WindowPasses, Flush, Tell, hub
<1>7. CASE \E s \in Screen : Subscribe(t, s) \/ Unsubscribe(t, s)
  BY <1>4, <1>7 DEF Subscribe, Unsubscribe, hub
<1> QED BY <1>1, <1>2, <1>3, <1>5, <1>6, <1>7 DEF TabStep

LEMMA InformedStep ==
  ASSUME TypeOK, TypeOK', Watches, Informed, Next
  PROVE  Informed'
<1>1. ASSUME UNCHANGED <<tab, pages>>, Online' = Online
      PROVE  Informed'
  BY <1>1 DEF Informed, WillBelieve, pages
<1>2. ASSUME NEW r \in Rack, Greet(r)
      PROVE  Informed'
  <2>1. tab' = tab /\ Online' = Online \cup {r}
    BY <1>2 DEF Greet, Online, TypeOK, tabs
  <2> QED BY <1>2, <2>1, AnnounceInforms DEF Greet
<1>3. ASSUME NEW r \in Rack, DropConnection(r)
      PROVE  Informed'
  <2>1. tab' = tab /\ Online' = Online \ {r}
    BY <1>3 DEF DropConnection, Online, TypeOK, tabs
  <2> QED BY <1>3, <2>1, AnnounceInforms DEF DropConnection
<1>4. ASSUME NEW r \in Rack, LoseLink(r)
      PROVE  Informed'
  <2>1. UNCHANGED <<tab, pages>> /\ Online' = Online
    BY <1>4 DEF LoseLink, Online, TypeOK, tabs
  <2> QED BY <1>1, <2>1
<1>5. ASSUME NEW r \in Rack, NEW s \in Screen, SendFrame(r, s)
      PROVE  Informed'
  <2>1. tab' = tab /\ Online' = Online
    BY <1>5 DEF SendFrame, Online, hub, tabs
  <2>2. CASE Offer(Watchers(s), Picture)
    <3>1. ASSUME NEW t \in Tab, tab[t] = "open", ~displaced'[t]
          PROVE  WillBelieve(t, Online)'
      <4>1. PICK R : R = Online
        OBVIOUS
      <4>2. displaced[t] \/ Shows(queue[t], believes[t], R)
        BY <3>1, <4>1, ShowsIs DEF Informed
      <4>3. ~displaced'[t] /\ (displaced[t] \/ Shows(queue[t], believes[t], R))
            => Shows(queue'[t], believes'[t], R)
        BY <2>2, ItemType, OfferShows
      <4>4. Shows(queue'[t], believes'[t], R)
        BY <3>1, <4>2, <4>3
      <4>5. WillBelieve(t, R)'
        BY <4>4, ShowsIs
      <4> QED BY <2>1, <4>1, <4>5 DEF WillBelieve
    <3> QED BY <2>1, <3>1 DEF Informed
  <2> QED BY <1>1, <1>5, <2>1, <2>2 DEF SendFrame
<1>6. CASE \E r \in Rack : \/ RackStep(r) \/ ResumeAfterPush(r) \/ Take(r)
                          \/ \E s \in Screen : Draw(r, s)
  <2>1. UNCHANGED <<tab, pages, conn>>
    BY <1>6 DEF RackStep, Connect, Receive, ResumeAfterPush, Take, Draw, hub, tabs
  <2> QED BY <1>1, <2>1 DEF Online
<1>7. CASE \E s \in Screen : RemoveScreen(s) \/ \E r \in Rack : AddScreen(s, r)
  <2>1. UNCHANGED <<tab, pages, conn>>
    BY <1>7 DEF RemoveScreen, AddScreen, hub, tabs
  <2> QED BY <1>1, <2>1 DEF Online
<1>8. CASE \E t \in Tab : \/ Open(t) \/ Close(t) \/ Write(t) \/ TabStep(t)
                          \/ \E s \in Screen : Subscribe(t, s) \/ Unsubscribe(t, s)
  BY <1>8, TabInforms
<1> QED BY <1>2, <1>3, <1>4, <1>5, <1>6, <1>7, <1>8 DEF Next, StreamStep, HandlerStep

-----------------------------------------------------------------------------
(* The theorems.                                                           *)

LEMMA InitInv ==
  ASSUME Init
  PROVE  FramesInv
<1>1. TypeOK
  <2>1. <<>> \in Seq(Item) /\ <<>> \in Seq(Message) /\ Len(<<>>) <= QueueSize
    BY Limits
  <2>2. shown \in [Rack -> SUBSET Screen]
    BY DEF Init, Owned
  <2> QED BY <2>1, <2>2, Limits, ConfiguredAssumption DEF Init, TypeOK
<1>2. Linked /\ Watches
  BY DEF Init, Linked, Watches
<1>3. Known /\ Spent
  BY DEF Init, Known, Spent, Own, Owned
<1>4. Pushed
  BY DEF Init, Pushed, Steady
<1>5. Informed
  BY DEF Init, Informed
<1>6. Arrives /\ Greeted /\ Told
  BY DEF Init, Arrives, Greeted, Told
<1>7. GreetsOwn /\ Watchful
  BY DEF Init, GreetsOwn, Watchful
<1> QED BY <1>1, <1>2, <1>3, <1>4, <1>5, <1>6, <1>7 DEF FramesInv, ScreensInv, StreamInv

LEMMA StepInv ==
  ASSUME FramesInv, [Next]_vars
  PROVE  FramesInv'
<1>1. /\ TypeOK /\ Linked /\ Watches /\ Known /\ Spent /\ Pushed /\ GreetsOwn
      /\ Informed /\ Arrives /\ Greeted /\ Told /\ Watchful
  BY DEF FramesInv, ScreensInv, StreamInv
<1>2. CASE Next
  <2>1. TypeOK' /\ \A q \in Rack : RackCase(q)
    BY <1>1, <1>2, TypeStep, RackCases
  <2>2. Linked' /\ Watches' /\ Known' /\ Spent' /\ Pushed'
    BY <1>1, <1>2, <2>1, LinkedStep, WatchesStep, KnownStep, TableStep, PushedStep
  <2>3. Informed'
    BY <1>1, <1>2, <2>1, InformedStep
  <2>4. Arrives' /\ Greeted' /\ Told'
    BY <1>1, <2>1, ArrivesStep, GreetedStep, ToldStep
  <2>5. GreetsOwn'
    BY <1>1, <1>2, <2>1, GreetsOwnStep
  <2>6. Watchful'
    BY <1>1, <2>1, <2>2, WatchfulStep
  <2> QED BY <2>1, <2>2, <2>3, <2>4, <2>5, <2>6 DEF FramesInv, ScreensInv, StreamInv
<1>3. CASE UNCHANGED vars
  <2>1. /\ UNCHANGED <<owner, spent, unserved, conn, greeting, tab, screens, hot, owed, queue>>
        /\ UNCHANGED <<believes, displaced, down, link, shown, refused, enabled, pending, taken>>
        /\ UNCHANGED <<clicks, faults>>
    BY <1>3 DEF vars, table, hub, tabs, pages, rack, stream
  <2>2. TypeOK' /\ Linked'
    BY <1>1, <2>1 DEF TypeOK, Linked
  <2>3. Watches' /\ Known' /\ Spent' /\ Pushed' /\ GreetsOwn'
    BY <1>1, <2>1 DEF Watches, Known, Spent, Pushed, Steady, Own, Owned, GreetsOwn
  <2>4. Informed'
    BY <1>1, <2>1 DEF Informed, WillBelieve, Online
  <2>5. Watched' = Watched /\ \A q : Owned(q)' = Owned(q)
    BY <2>1, WatchedKept, OwnedKept
  <2>6. Arrives'
    BY <1>1, <2>1, <2>5 DEF Arrives, EndsWith, Adopted
  <2>7. Greeted'
    BY <1>1, <2>1, <2>5 DEF Greeted
  <2>8. Told'
    <3>1. ASSUME NEW r \in Rack, ToldOf(r)
          PROVE  ToldOf(r)'
      BY <2>1, <2>5, <3>1 DEF ToldOf, EndsWith
    <3> QED BY <1>1, <2>1, <3>1 DEF Told
  <2>9. Watchful'
    BY <1>1, <2>1 DEF Watchful, EndsWith, Under
  <2> QED BY <2>2, <2>3, <2>4, <2>6, <2>7, <2>8, <2>9 DEF FramesInv, ScreensInv, StreamInv
<1> QED BY <1>2, <1>3

LEMMA AlwaysFramesInv == Spec => []FramesInv
<1>1. Init => FramesInv
  BY InitInv
<1>2. FramesInv /\ [Next]_vars => FramesInv'
  BY StepInv
<1> QED BY <1>1, <1>2, PTL DEF Spec

\* Every variable keeps its type, and no tab's queue grows past its size,
\* whatever is drawn and however little the page reads.
THEOREM TypeCorrect == Spec => []TypeOK
<1>1. FramesInv => TypeOK
  BY DEF FramesInv
<1> QED BY <1>1, AlwaysFramesInv, PTL

\* Whatever the order of first lists, connects and drops, an open page will
\* show the racks that are online once it has read what waits for it, if its
\* queue did not lose the only list to pictures.
THEOREM PagesInformed == Spec => []Informed
<1>1. FramesInv => Informed
  BY DEF FramesInv
<1> QED BY <1>1, AlwaysFramesInv, PTL

\* A rack that is quiet shows the screens that are its own, unless it refused its
\* last configuration or the server could not build it; whatever edits, pushes
\* and lost links came before (ws_daemon._push_for, changes._assemble, link._config).
THEOREM QuietHasItsScreens ==
  Spec => [](\A r \in Rack : Quiet(r) => Behind(r) \/ shown[r] = Owned(r))
<1>1. FramesInv => \A r \in Rack : Quiet(r) => Behind(r) \/ shown[r] = Owned(r)
  <2> SUFFICES ASSUME FramesInv, NEW r \in Rack, Quiet(r), ~Behind(r)
               PROVE  shown[r] = Owned(r)
    OBVIOUS
  <2>1. EndsWith(down[r], "config", Adopted(r), shown[r])
    BY EndsEmpty DEF Quiet, Adopted, Behind
  <2> QED BY <2>1 DEF FramesInv, StreamInv, TypeOK, Arrives, Quiet, Behind
<1> QED BY <1>1, AlwaysFramesInv, PTL

\* A quiet rack that has its last configuration streams the screens somebody
\* watches and no other; one that refused it or was not sent it streams those of
\* its own that it shows and somebody watches, and none that nobody watches.  So
\* in whatever order tabs, coalesced requests, reconnects, pushes and edits come;
\* as long as no screen is added to a rack in the middle of its greeting, and no
\* new screen is given the id of a removed one.
THEOREM StreamsWhatIsWatched ==
  ASSUME ~AddInGreeting, ~ReuseIds
  PROVE  Spec => []StreamsWatched
<1>1. FramesInv => StreamsWatched
  <2> SUFFICES ASSUME FramesInv, NEW r \in Rack, Quiet(r)
               PROVE  Streams(r)
    BY DEF StreamsWatched
  <2>1. EndsWith(down[r], "frames", enabled[r], enabled[r])
    BY EndsEmpty DEF Quiet
  <2>2. shown[r] \in SUBSET Screen /\ enabled[r] \in SUBSET Screen
    BY DEF FramesInv, TypeOK
  <2>3. enabled[r] \cap Owned(r) = Watched \cap Owned(r)
    BY <2>1, <2>2 DEF FramesInv, StreamInv, Told, ToldOf, Quiet
  <2>4. CASE ~Behind(r)
    <3>1. EndsWith(down[r], "config", Adopted(r), shown[r])
      BY <2>4, EndsEmpty DEF Quiet, Adopted, Behind
    <3>2. shown[r] = Owned(r)
      BY <2>2, <2>4, <3>1 DEF FramesInv, StreamInv, Arrives, Quiet, Behind
    <3> QED BY <2>3, <2>4, <3>2 DEF Streams, Streamed
  <2>5. CASE Behind(r)
    <3>1. enabled[r] \subseteq Under(r)
      BY <2>1, <2>2 DEF FramesInv, StreamInv, Watchful, Quiet
    <3>2. Under(r) \subseteq Watched
      BY Limits DEF Under, Watched, Watchers
    <3> QED BY <2>3, <2>5, <3>1, <3>2 DEF Streams, Streamed
  <2> QED BY <2>4, <2>5
<1> QED BY <1>1, AlwaysFramesInv, PTL

=============================================================================
