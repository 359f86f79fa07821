------------------------------- MODULE Frames -------------------------------
(***************************************************************************)
(* Live pictures: what browsers watch, what racks are told to stream, and  *)
(* who is shown as online.                                                 *)
(*                                                                         *)
(* Server side: one socket per browser tab (server/src/ors_server:         *)
(* link/ws_ui), the hub's watchers and queues (link/hub), the part of a    *)
(* daemon's socket that resumes its frames and relays them                 *)
(* (link/ws_daemon), and the edits that add or remove a screen.  A step is *)
(* what one task does between two awaits.                                  *)
(* Rack side: FrameStream and FramePump (daemon/src/ors_daemon: frames)    *)
(* and the link thread that feeds them (link, supervisor).                 *)
(*                                                                         *)
(* A request to a rack names all of its screens to stream and replaces     *)
(* what it was told before.  Pictures are abstracted to the screen they    *)
(* are of, and, once in a tab's queue, to being a picture.                 *)
(***************************************************************************)
EXTENDS Integers, Sequences, FiniteSets

CONSTANTS
  Rack, Screen, Tab,
  None,
  Configured,    \* the rack each screen is of at first, or None
  QueueSize,     \* WATCHER_QUEUE
  AddInGreeting, \* whether a screen may be added while its rack is greeted
  ReuseIds,      \* whether a new screen may get the id of a removed one
  MaxClicks,     \* bound: what people do in tabs, and screens added or removed
  MaxFaults      \* bound: sockets lost

ASSUME ConfiguredAssumption == Configured \in [Screen -> Rack \cup {None}]
ASSUME BoundsAssumption == QueueSize \in Nat \ {0} /\ {MaxClicks, MaxFaults} \subseteq Nat
ASSUME SwitchAssumption == {AddInGreeting, ReuseIds} \subseteq BOOLEAN
ASSUME NoneAssumption == None \notin Rack /\ \A S \in SUBSET Screen : None # S

VARIABLES
  \* The `screen` table: whose each is.  History: the ids that were removed, and
  \* whether a rack's last edit was not pushed, as nothing could be built of it.
  owner, spent, unserved,
  \* The hub's connection to each rack ("dead" when the rack's end is gone and
  \* nobody here knows), and the greeting of a rack whose push is being sent.
  conn, greeting,
  \* Each browser tab's socket: its watcher, and the hub's queue for it.
  tab, screens, hot, owed, queue,
  \* What the page shows as online; whether its queue lost the last list.
  believes, displaced,
  \* Requests and configurations on their way to each rack.
  down,
  \* Each rack: its link, the screens it shows, and its frame stream.  History:
  \* whether it refused the last configuration it read.
  link, shown, refused, enabled, pending, taken,
  clicks, faults

table == <<owner, spent, unserved>>
hub == <<conn, greeting>>
tabs == <<tab, screens, hot, owed>>
pages == <<queue, believes, displaced>>
stream == <<enabled, pending, taken>>
rack == <<link, shown, refused, stream>>
vars == <<table, hub, tabs, pages, down, rack, clicks, faults>>

-----------------------------------------------------------------------------
Owned(r) == {s \in Screen : owner[s] = r}

\* Hub._watchers: the two are changed together, so it is read off the tabs.
Watchers(s) == {t \in Tab : screens[t][s] # None}
Watched == {s \in Screen : Watchers(s) # {}}

\* The rack was not given its row's last configuration, or refused it.
Behind(r) == refused[r] \/ unserved[r]

Online == {r \in Rack : conn[r] # "none"}

Message == [type : {"frames", "config"}, screens : SUBSET Screen]
FramesRequest(S) == [type |-> "frames", screens |-> S]
ConfigPush(S) == [type |-> "config", screens |-> S]

Picture == [type |-> "frame"]
OnlineList(R) == [type |-> "list", online |-> R]
IsList(item) == item.type = "list"
Item == {Picture} \cup {OnlineList(R) : R \in SUBSET Rack}

Click == clicks < MaxClicks /\ clicks' = clicks + 1
Fault == faults < MaxFaults /\ faults' = faults + 1

\* Hub._send: what is written to a dead connection is lost.
Sent(r, message) == IF conn[r] = "live" THEN [down EXCEPT ![r] = Append(@, message)] ELSE down

\* Hub.frames_for, and its request sent.  `watched` is what is watched once the
\* step is done.
Arm(r, watched) == down' = Sent(r, FramesRequest(watched \cap Owned(r)))

-----------------------------------------------------------------------------
(* Tabs' queues.                                                           *)

\* Faulty Offered: nothing is lost.
OfferedUnbounded(q, item) == Append(q, item)

\* _offer: a full queue loses its oldest item.
Offered(q, item) == Append(IF Len(q) < QueueSize THEN q ELSE Tail(q), item)

\* The queue lost its only list of racks to a picture.
Displaces(q, item) ==
  /\ Len(q) = QueueSize
  /\ IsList(Head(q))
  /\ ~IsList(item)
  /\ \A i \in 2..Len(q) : ~IsList(q[i])

Offer(T, item) ==
  /\ queue' = [t \in Tab |-> IF t \in T THEN Offered(queue[t], item) ELSE queue[t]]
  /\ displaced' = [t \in Tab |->
                     IF t \in T
                     THEN ~IsList(item) /\ (displaced[t] \/ Displaces(queue[t], item))
                     ELSE displaced[t]]
  /\ UNCHANGED believes

\* Faulty Announce: a rack that leaves is told to nobody.
AnnounceArrivals(was, now) ==
  IF now \subseteq was THEN UNCHANGED pages ELSE Offer({t \in Tab : tab[t] = "open"}, OnlineList(now))

\* _announce, when the set of racks online changes.
Announce(was, now) ==
  IF was = now THEN UNCHANGED pages ELSE Offer({t \in Tab : tab[t] = "open"}, OnlineList(now))

\* _write: the oldest item goes to the page.
Write(t) ==
  /\ tab[t] = "open" /\ queue[t] # <<>>
  /\ queue' = [queue EXCEPT ![t] = Tail(@)]
  /\ believes' = [believes EXCEPT ![t] =
                    IF IsList(Head(queue[t])) THEN Head(queue[t]).online ELSE @]
  /\ UNCHANGED <<table, hub, tabs, displaced, down, rack, clicks, faults>>

-----------------------------------------------------------------------------
(* Tabs' sockets.                                                          *)

\* ui_socket: the tab is a watcher of the list before it is sent the first one.
Open(t) ==
  /\ tab[t] = "closed"
  /\ Click
  /\ tab' = [tab EXCEPT ![t] = "open"]
  /\ believes' = [believes EXCEPT ![t] = Online]
  /\ UNCHANGED <<table, hub, screens, hot, owed, queue, displaced, down, rack, faults>>

\* Faulty Changed: a change inside the window is taken as sent.
ChangedForgetful(t, r, watched) ==
  /\ UNCHANGED owed
  /\ IF r \in hot[t]
     THEN UNCHANGED <<hot, down>>
     ELSE /\ hot' = [hot EXCEPT ![t] = @ \cup {r}]
          /\ Arm(r, watched)

\* _changed: inside the window of the last request, the rack is owed one.
Changed(t, r, watched) ==
  IF r \in owed[t] \cup hot[t]
  THEN /\ owed' = [owed EXCEPT ![t] = @ \cup {r}]
       /\ UNCHANGED <<hot, down>>
  ELSE /\ hot' = [hot EXCEPT ![t] = @ \cup {r}]
       /\ UNCHANGED owed
       /\ Arm(r, watched)

\* A screen already watched, or one that is not there, changes nothing.
Subscribe(t, s) ==
  /\ tab[t] = "open" /\ screens[t][s] = None /\ owner[s] # None
  /\ Click
  /\ screens' = [screens EXCEPT ![t][s] = owner[s]]
  /\ Changed(t, owner[s], Watched \cup {s})
  /\ UNCHANGED <<table, hub, tab, pages, rack, faults>>

Unsubscribe(t, s) ==
  /\ tab[t] = "open" /\ screens[t][s] # None
  /\ Click
  /\ screens' = [screens EXCEPT ![t][s] = None]
  /\ Changed(t, screens[t][s], IF Watchers(s) = {t} THEN Watched \ {s} ELSE Watched)
  /\ UNCHANGED <<table, hub, tab, pages, rack, faults>>

\* ARM_INTERVAL_S has passed since the tab last told the rack.
WindowPasses(t, r) ==
  /\ r \in hot[t]
  /\ hot' = [hot EXCEPT ![t] = @ \ {r}]
  /\ UNCHANGED <<table, hub, tab, screens, owed, pages, down, rack, clicks, faults>>

\* _flush: what is owed is sent when the window has passed.
Flush(t, r) ==
  /\ tab[t] = "open" /\ r \in owed[t] \ hot[t]
  /\ owed' = [owed EXCEPT ![t] = @ \ {r}]
  /\ hot' = [hot EXCEPT ![t] = @ \cup {r}]
  /\ Arm(r, Watched)
  /\ UNCHANGED <<table, hub, tab, screens, pages, rack, clicks, faults>>

\* Faulty Concerned: only the racks of which a screen is still held.
ConcernedByScreens(t) == {screens[t][s] : s \in Screen} \ {None}

\* The racks a tab that goes away has to tell: those of its screens, and those
\* it still owed a request.
Concerned(t) == ({screens[t][s] : s \in Screen} \ {None}) \cup owed[t]

\* _let_go, with no await before it or in it.  `owed` now holds what
\* _tell_the_racks has to do.
Close(t) ==
  /\ tab[t] = "open"
  /\ Click
  /\ tab' = [tab EXCEPT ![t] = "closing"]
  /\ owed' = [owed EXCEPT ![t] = Concerned(t)]
  /\ screens' = [screens EXCEPT ![t] = [s \in Screen |-> None]]
  /\ hot' = [hot EXCEPT ![t] = {}]
  /\ queue' = [queue EXCEPT ![t] = <<>>]
  /\ displaced' = [displaced EXCEPT ![t] = FALSE]
  /\ believes' = [believes EXCEPT ![t] = {}]
  /\ UNCHANGED <<table, hub, down, rack, faults>>

\* _tell_the_racks: one rack after the other, window or not.
Tell(t, r) ==
  /\ tab[t] = "closing" /\ r \in owed[t]
  /\ owed' = [owed EXCEPT ![t] = @ \ {r}]
  /\ Arm(r, Watched)
  /\ UNCHANGED <<table, hub, tab, screens, hot, pages, rack, clicks, faults>>

Leave(t) ==
  /\ tab[t] = "closing" /\ owed[t] = {}
  /\ tab' = [tab EXCEPT ![t] = "closed"]
  /\ UNCHANGED <<table, hub, screens, hot, owed, pages, down, rack, clicks, faults>>

-----------------------------------------------------------------------------
(* Screens added and removed: the rack is pushed its configuration.        *)

\* changes._assemble: an edit of a rack that could not be given a configuration
\* before it is saved all the same, and pushed to nobody if it still cannot.
PushScreens(r, S) ==
  \/ /\ down' = Sent(r, ConfigPush(S))
     /\ unserved' = [unserved EXCEPT ![r] = FALSE]
  \/ /\ unserved' = [unserved EXCEPT ![r] = TRUE]
     /\ UNCHANGED down

AddScreen(s, r) ==
  /\ owner[s] = None
  /\ ReuseIds \/ s \notin spent
  /\ AddInGreeting \/ greeting[r] = None
  /\ Click
  /\ owner' = [owner EXCEPT ![s] = r]
  /\ PushScreens(r, Owned(r) \cup {s})
  /\ UNCHANGED <<spent, hub, tabs, pages, rack, faults>>

RemoveScreen(s) ==
  /\ owner[s] # None
  /\ Click
  /\ owner' = [owner EXCEPT ![s] = None]
  /\ spent' = spent \cup {s}
  /\ PushScreens(owner[s], Owned(owner[s]) \ {s})
  /\ UNCHANGED <<hub, tabs, pages, rack, faults>>

-----------------------------------------------------------------------------
(* A rack's connection.                                                    *)

Connect(r) ==
  /\ link[r] = "down"
  /\ link' = [link EXCEPT ![r] = "hello"]
  /\ UNCHANGED <<table, hub, tabs, pages, down, shown, refused, stream, clicks, faults>>

\* _resume_frames: what is watched, of the screens it was given; nothing if none.
Resume(r, owned) ==
  IF Watched \cap owned = {} THEN <<>> ELSE <<FramesRequest(Watched \cap owned)>>

\* _hello: the rack is registered, and pushed its configuration unless it has
\* it; one it refused or was not sent it does not claim.  The send of that push
\* is awaited; without one the frames follow at once.  If the configuration
\* cannot be built the socket is closed, which to the rack is LoseLink.
Greet(r) ==
  /\ link[r] = "hello"
  /\ link' = [link EXCEPT ![r] = "up"]
  /\ conn' = [conn EXCEPT ![r] = "live"]
  /\ Announce(Online, Online \cup {r})
  /\ \/ /\ greeting' = [greeting EXCEPT ![r] = Owned(r)]
        /\ down' = [down EXCEPT ![r] = <<ConfigPush(Owned(r))>>]
        /\ unserved' = [unserved EXCEPT ![r] = FALSE]
     \/ /\ shown[r] = Owned(r) /\ ~Behind(r)
        /\ UNCHANGED unserved
        /\ greeting' = [greeting EXCEPT ![r] = None]
        /\ down' = [down EXCEPT ![r] = Resume(r, Owned(r))]
  /\ UNCHANGED <<owner, spent, tabs, shown, refused, stream, clicks, faults>>

\* The push is sent, and the frames follow: of the screens read before it.
ResumeAfterPush(r) ==
  /\ greeting[r] # None
  /\ greeting' = [greeting EXCEPT ![r] = None]
  /\ down' = IF conn[r] = "live" THEN [down EXCEPT ![r] = @ \o Resume(r, greeting[r])]
                                 ELSE down
  /\ UNCHANGED <<table, conn, tabs, pages, rack, clicks, faults>>

\* The rack's end of the link goes: its stream is disabled before it dials again.
LinkDown(r) ==
  /\ link' = [link EXCEPT ![r] = "down"]
  /\ enabled' = [enabled EXCEPT ![r] = {}]
  /\ pending' = [pending EXCEPT ![r] = {}]
  /\ down' = [down EXCEPT ![r] = <<>>]
  /\ UNCHANGED <<shown, refused, taken>>

LoseLink(r) ==
  /\ link[r] # "down"
  /\ Fault
  /\ LinkDown(r)
  /\ conn' = [conn EXCEPT ![r] = IF link[r] = "up" /\ @ = "live" THEN "dead" ELSE @]
  /\ UNCHANGED <<table, greeting, tabs, pages, clicks>>

\* The server sees that a socket is dead, or a send to it fails or times out:
\* Hub.drop, and the rack finds its link closed if it was not.
DropConnection(r) ==
  /\ \/ conn[r] = "dead" /\ UNCHANGED faults
     \/ conn[r] = "live" /\ Fault
  /\ conn' = [conn EXCEPT ![r] = "none"]
  /\ greeting' = [greeting EXCEPT ![r] = None]
  /\ Announce(Online, Online \ {r})
  /\ IF link[r] = "up" THEN LinkDown(r) ELSE UNCHANGED <<down, rack>>
  /\ UNCHANGED <<table, tabs, clicks>>

-----------------------------------------------------------------------------
(* The rack's stream.                                                      *)

\* FrameStream.enable, disable and _forget_unwatched.
Enable(r, S) ==
  /\ enabled' = [enabled EXCEPT ![r] = S]
  /\ pending' = [pending EXCEPT ![r] = @ \cap S]

\* Supervisor.apply: the screens it no longer has are streamed no more.
Apply(r, S) ==
  /\ shown' = [shown EXCEPT ![r] = S]
  /\ refused' = [refused EXCEPT ![r] = FALSE]
  /\ Enable(r, enabled[r] \ (shown[r] \ S))

\* A configuration it cannot use: the server is told, and only logs it.  The
\* rack keeps its screens, and its stream is left alone.
Refuse(r) ==
  /\ refused' = [refused EXCEPT ![r] = TRUE]
  /\ UNCHANGED <<shown, enabled, pending>>

\* The link thread handles one message: a request replaces what is enabled.
Receive(r) ==
  /\ link[r] = "up" /\ down[r] # <<>>
  /\ down' = [down EXCEPT ![r] = Tail(@)]
  /\ LET message == Head(down[r])
     IN  \/ /\ message.type = "frames"
            /\ Enable(r, message.screens)
            /\ UNCHANGED <<shown, refused>>
         \/ message.type = "config" /\ (Apply(r, message.screens) \/ Refuse(r))
  /\ UNCHANGED <<table, hub, tabs, pages, link, taken, clicks, faults>>

\* FrameStream.offer: a worker has drawn, and the newest picture wins.
Draw(r, s) ==
  /\ s \in enabled[r] \cap shown[r]
  /\ pending' = [pending EXCEPT ![r] = @ \cup {s}]
  /\ UNCHANGED <<table, hub, tabs, pages, down, link, shown, refused, enabled, taken,
                 clicks, faults>>

\* FrameStream.take: the pump has everything that waits, and encodes it without
\* the lock.
Take(r) ==
  /\ taken[r] = {} /\ pending[r] # {}
  /\ taken' = [taken EXCEPT ![r] = pending[r]]
  /\ pending' = [pending EXCEPT ![r] = {}]
  /\ UNCHANGED <<table, hub, tabs, pages, down, link, shown, refused, enabled, clicks, faults>>

\* A picture encoded: sent if its screen is still enabled and the link is up,
\* then relayed, if the screen is the rack's, to the tabs that watch it.
SendFrame(r, s) ==
  /\ s \in taken[r]
  /\ taken' = [taken EXCEPT ![r] = @ \ {s}]
  /\ IF s \in enabled[r] /\ link[r] = "up" /\ owner[s] = r
     THEN Offer(Watchers(s), Picture)
     ELSE UNCHANGED pages
  /\ UNCHANGED <<table, hub, tabs, down, link, shown, refused, enabled, pending, clicks, faults>>

-----------------------------------------------------------------------------
Init ==
  /\ owner = Configured /\ spent = {} /\ unserved = [r \in Rack |-> FALSE]
  /\ conn = [r \in Rack |-> "none"]
  /\ greeting = [r \in Rack |-> None]
  /\ tab = [t \in Tab |-> "closed"]
  /\ screens = [t \in Tab |-> [s \in Screen |-> None]]
  /\ hot = [t \in Tab |-> {}]
  /\ owed = [t \in Tab |-> {}]
  /\ queue = [t \in Tab |-> <<>>]
  /\ believes = [t \in Tab |-> {}]
  /\ displaced = [t \in Tab |-> FALSE]
  /\ down = [r \in Rack |-> <<>>]
  /\ link = [r \in Rack |-> "down"]
  /\ shown = [r \in Rack |-> Owned(r)]
  /\ refused = [r \in Rack |-> FALSE]
  /\ enabled = [r \in Rack |-> {}]
  /\ pending = [r \in Rack |-> {}]
  /\ taken = [r \in Rack |-> {}]
  /\ clicks = 0
  /\ faults = 0

\* What a tab's tasks, a rack's threads and a rack's handler do by themselves.
TabStep(t) ==
  \/ Leave(t)
  \/ \E r \in Rack : WindowPasses(t, r) \/ Flush(t, r) \/ Tell(t, r)
RackStep(r) == Connect(r) \/ Receive(r)
StreamStep(r) == Take(r) \/ \E s \in Screen : Draw(r, s) \/ SendFrame(r, s)
HandlerStep(r) == Greet(r) \/ ResumeAfterPush(r)

Next ==
  \/ \E t \in Tab : Open(t) \/ Close(t) \/ Write(t) \/ TabStep(t)
  \/ \E t \in Tab, s \in Screen : Subscribe(t, s) \/ Unsubscribe(t, s)
  \/ \E s \in Screen : RemoveScreen(s) \/ \E r \in Rack : AddScreen(s, r)
  \/ \E r \in Rack : RackStep(r) \/ StreamStep(r) \/ HandlerStep(r)
  \/ \E r \in Rack : LoseLink(r) \/ DropConnection(r)

Spec == Init /\ [][Next]_vars

\* Threads and tasks run on; drawing, people and a page's reading may stop; a
\* dead socket is found by its keepalive, and no live one need ever fail.
Fairness ==
  /\ \A t \in Tab : WF_vars(TabStep(t))
  /\ \A r \in Rack : WF_vars(RackStep(r) \/ HandlerStep(r))
  /\ \A r \in Rack : WF_vars(conn[r] = "dead" /\ DropConnection(r))

FairSpec == Spec /\ Fairness

-----------------------------------------------------------------------------
(* Properties.                                                             *)

TypeOK ==
  /\ owner \in [Screen -> Rack \cup {None}] /\ spent \subseteq Screen
  /\ conn \in [Rack -> {"none", "live", "dead"}]
  /\ greeting \in [Rack -> {None} \cup SUBSET Screen]
  /\ tab \in [Tab -> {"closed", "open", "closing"}]
  /\ screens \in [Tab -> [Screen -> Rack \cup {None}]]
  /\ hot \in [Tab -> SUBSET Rack] /\ owed \in [Tab -> SUBSET Rack]
  /\ queue \in [Tab -> Seq(Item)] /\ \A t \in Tab : Len(queue[t]) <= QueueSize
  /\ believes \in [Tab -> SUBSET Rack] /\ displaced \in [Tab -> BOOLEAN]
  /\ down \in [Rack -> Seq(Message)]
  /\ link \in [Rack -> {"down", "hello", "up"}]
  /\ {shown, enabled, pending, taken} \subseteq [Rack -> SUBSET Screen]
  /\ {refused, unserved} \subseteq [Rack -> BOOLEAN]
  /\ clicks \in 0..MaxClicks /\ faults \in 0..MaxFaults

\* R is what the page shows as online once it has read all that waits for it.
WillBelieve(t, R) ==
  LET lists == {i \in DOMAIN queue[t] : IsList(queue[t][i])}
  IN  \/ lists = {} /\ believes[t] = R
      \/ \E last \in lists : queue[t][last].online = R /\ \A i \in lists : i <= last

\* An open tab is not left with racks that went or without racks that came,
\* whatever the order of its first list, the watch, connects and drops; unless
\* pictures pushed the only list out of its full queue (see Kept).
Informed ==
  \A t \in Tab : tab[t] = "open" /\ ~displaced[t] => WillBelieve(t, Online)

\* The same without the exception, as WATCHER_QUEUE's comment has it: the
\* bound of the queue is no bound on correctness.
Kept == \A t \in Tab : tab[t] = "open" => WillBelieve(t, Online)

\* Nothing is on its way to a rack that is linked and known to be.
Quiet(r) ==
  /\ link[r] = "up" /\ conn[r] = "live" /\ greeting[r] = None /\ down[r] = <<>>
  /\ \A t \in Tab : r \notin owed[t]

\* What the rack encodes: it draws no screen it does not have.
Streamed(r) == enabled[r] \cap shown[r]

\* A rack that took its last configuration streams the screens it was given
\* that somebody watches, and no other.  One that refused it or was not sent it
\* goes on with those it had: the ones that are still its own it streams if they
\* are watched, and none that nobody watches.
Streams(r) ==
  IF Behind(r)
  THEN Watched \cap Owned(r) \cap shown[r] \subseteq Streamed(r) /\ Streamed(r) \subseteq Watched
  ELSE Streamed(r) = Watched \cap Owned(r)

\* Once a rack is quiet, no order of subscriptions, coalesced requests, closed
\* tabs, reconnects, pushes taken or refused, and edits has left a watched
\* screen frozen that it shows, or the rack encoding pictures for nobody
\* (ws_ui._changed, ws_daemon._resume_frames, frames.FrameStream).
StreamsWatched == \A r \in Rack : Quiet(r) => Streams(r)

\* And it does become quiet: no request stays owed, no tab stays closing, and
\* every rack ends up linked and told (ws_ui._flush, ws_ui._tell_the_racks).
Settles == <>[](\A r \in Rack : Quiet(r) /\ Streams(r))

=============================================================================
