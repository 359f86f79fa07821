------------------------------ MODULE Requests ------------------------------
(***************************************************************************)
(* Questions asked of a rack: detect and probe.                            *)
(*                                                                         *)
(* Server side: the routes that ask (server/src/ors_server: api/daemons),  *)
(* the hub's table of waits (link/hub) and the part of a daemon's socket   *)
(* that reads the answers (link/ws_daemon).  A step is what one task does  *)
(* between two awaits.                                                     *)
(* Rack side: the link thread that answers (daemon/src/ors_daemon: link,   *)
(* hardware), the frame pump it shares the socket with, and the watchdog   *)
(* of a send that never returns.                                           *)
(*                                                                         *)
(* Connections are numbered as they are dialled.  A question's id is the   *)
(* number of the question: the ids are drawn so as never to repeat.        *)
(***************************************************************************)
EXTENDS Integers, Sequences, FiniteSets

CONSTANTS
  Rack, Asker,
  None,
  MaxConns,     \* bound: connections dialled, over all racks
  MaxQuestions, \* bound: questions asked
  MaxFaults     \* bound: connections lost or stalled

ASSUME BoundsAssumption == {MaxConns, MaxQuestions, MaxFaults} \subseteq Nat

Conn == 1..MaxConns
NoConn == 0

VARIABLES
  \* Each connection: the rack that dialled it, how its socket is, and what is
  \* on its way in each direction.
  dialled, socket, down, up,
  \* Hub._connections, and the connections whose `closed` event is set.
  conn, closed,
  \* The daemon sockets' handlers that are registered and have not ended.
  handlers,
  \* The HTTP handlers that ask; Hub._pending; the racks being probed.
  ask, pending, probing,
  \* The link thread of each rack, its connection, what it has in hand, and the
  \* threads inside a send; _connection, as the pump finds it.
  link, at, hand, senders, published,
  asked, faults

wires == <<dialled, socket, down, up>>
hub == <<conn, closed, handlers>>
waits == <<ask, pending, probing>>
rack == <<link, at, hand, senders, published>>
vars == <<wires, hub, waits, rack, asked, faults>>

-----------------------------------------------------------------------------
Kind == {"detect", "probe"}
Question == [type : {"question"}, id : 1..MaxQuestions, kind : Kind]
Reply == [type : {"reply"}, id : 1..MaxQuestions, kind : Kind, rack : Rack]
Hello == [type |-> "hello"]
Beat == [type |-> "beat"]
Gone == [type |-> "gone"]

ASSUME NoneAssumption ==
  /\ None \notin Rack \cup Question \cup Reply \cup {Hello, Beat, Gone}
  /\ None \notin [id : Nat, rack : Rack, kind : Kind] \cup {[type |-> "lost"]}

\* Another request handler: what it asked, of whom, over which connection it
\* left, and what its future holds.
Idle == [phase |-> "idle"]
Wait == [phase : {"sending", "waiting"}, rack : Rack, kind : Kind, id : 1..MaxQuestions,
         via : Conn, got : {None, Gone} \cup Reply]
InFlight == {a \in Asker : ask[a].phase # "idle"}
Unresolved(a) == ask[a].phase # "idle" /\ ask[a].got = None

\* _question_id.
NextId == asked + 1

Fault == faults < MaxFaults /\ faults' = faults + 1

-----------------------------------------------------------------------------
(* The hub's waits.                                                        *)

\* Faulty Delivered: a rack's answer goes to whoever waits on the rack.
DeliveredToAny(r, reply) ==
  [a \in Asker |-> IF a \in pending /\ ask[a].rack = r /\ ask[a].got = None
                   THEN [ask[a] EXCEPT !.got = reply] ELSE ask[a]]

\* deliver_reply: the wait of that question of that rack, if it is still open.
Delivered(r, reply) ==
  [a \in Asker |-> IF /\ a \in pending /\ ask[a].id = reply.id
                      /\ ask[a].rack = r /\ ask[a].got = None
                   THEN [ask[a] EXCEPT !.got = reply] ELSE ask[a]]

\* Faulty Abandoned: the waits are left to time out.
AbandonedNever(r) == ask

\* _abandon_waits.
Abandoned(r) ==
  [a \in Asker |-> IF a \in pending /\ ask[a].rack = r /\ ask[a].got = None
                   THEN [ask[a] EXCEPT !.got = Gone] ELSE ask[a]]

\* Faulty Current: whichever connection its rack has is taken out.
CurrentAlways(c) == TRUE

Current(c) == conn[dialled[c]] = c

\* Hub.drop: a connection that was replaced is not the rack's.
Drop(c) ==
  /\ closed' = closed \cup {c}
  /\ conn' = IF Current(c) THEN [conn EXCEPT ![dialled[c]] = NoConn] ELSE conn

WaitsAfterDrop(c) == IF Current(c) THEN Abandoned(dialled[c]) ELSE ask

-----------------------------------------------------------------------------
(* The routes.                                                             *)

\* detect_panels, probe_panel, one_probe_at_a_time and Hub.request up to the
\* end of the write: the wait is there before the question leaves.  A second
\* probe is refused; an offline rack is an answer at once.
Ask(a, r, kind) ==
  /\ a \notin InFlight
  /\ asked < MaxQuestions
  /\ kind = "probe" => r \notin probing
  /\ conn[r] # NoConn
  /\ asked' = NextId
  /\ ask' = [ask EXCEPT ![a] = [phase |-> "sending", rack |-> r, kind |-> kind,
                                id |-> NextId, via |-> conn[r], got |-> None]]
  /\ pending' = pending \cup {a}
  /\ probing' = IF kind = "probe" THEN probing \cup {r} ELSE probing
  /\ down' = IF socket[conn[r]] # "open" THEN down
             ELSE [down EXCEPT ![conn[r]] =
                     Append(@, [type |-> "question", id |-> NextId, kind |-> kind])]
  /\ UNCHANGED <<dialled, socket, up, hub, rack, faults>>

SendReturns(a) ==
  /\ ask[a].phase = "sending"
  /\ ask' = [ask EXCEPT ![a].phase = "waiting"]
  /\ UNCHANGED <<wires, hub, pending, probing, rack, asked, faults>>

\* Faulty Release: the rack is given back by an answer only.
ReleaseOnAnswer(a) ==
  probing' = IF ask[a].kind = "probe" /\ ask[a].got # None /\ ask[a].got # Gone
             THEN probing \ {ask[a].rack} ELSE probing

\* The `finally` of one_probe_at_a_time.
Release(a) == probing' = IF ask[a].kind = "probe" THEN probing \ {ask[a].rack} ELSE probing

\* The way out of Hub.request and of the route, whatever the way.
WayOut(a, now) ==
  /\ ask' = [now EXCEPT ![a] = Idle]
  /\ pending' = pending \ {a}
  /\ Release(a)
  /\ UNCHANGED <<wires, rack, asked, faults>>

\* The send failed or timed out: its connection is dropped on the way.
SendFails(a) ==
  /\ ask[a].phase = "sending"
  /\ socket[ask[a].via] \in {"dead", "stalled"}
  /\ Drop(ask[a].via)
  /\ WayOut(a, WaitsAfterDrop(ask[a].via))
  /\ UNCHANGED handlers

\* The answer came, or word that the rack went.
Answered(a) ==
  /\ ask[a].phase = "waiting" /\ ask[a].got # None
  /\ WayOut(a, ask)
  /\ UNCHANGED hub

\* Too long, or the browser hung up, or the server stops: the answer may be
\* there already.
GiveUp(a) ==
  /\ a \in InFlight
  /\ WayOut(a, ask)
  /\ UNCHANGED hub

-----------------------------------------------------------------------------
(* Daemon sockets' handlers.                                               *)

\* _hello and Hub.register: the newest connection wins, and the one it
\* replaces is told to close.
Register(c) ==
  /\ c \notin handlers \cup closed
  /\ up[c] # <<>> /\ Head(up[c]) = Hello
  /\ LET r == dialled[c]
     IN  /\ conn' = [conn EXCEPT ![r] = c]
         /\ closed' = closed \cup ({conn[r]} \ {NoConn})
  /\ handlers' = handlers \cup {c}
  /\ up' = [up EXCEPT ![c] = Tail(@)]
  /\ UNCHANGED <<dialled, socket, down, waits, rack, asked, faults>>

\* _serve and _handle: a closed connection's messages are not read.
Read(c) ==
  /\ c \in handlers \ closed
  /\ up[c] # <<>>
  /\ up' = [up EXCEPT ![c] = Tail(@)]
  /\ ask' = Delivered(dialled[c], Head(up[c]))
  /\ UNCHANGED <<dialled, socket, down, hub, pending, probing, rack, asked, faults>>

\* The handler finds its connection closed, or the socket gone with whatever it
\* had not read, and drops the connection.
HandlerEnds(c) ==
  /\ c \in handlers
  /\ c \in closed \/ socket[c] = "dead"
  /\ handlers' = handlers \ {c}
  /\ Drop(c)
  /\ ask' = WaitsAfterDrop(c)
  /\ up' = [up EXCEPT ![c] = <<>>]
  /\ UNCHANGED <<dialled, socket, down, pending, probing, rack, asked, faults>>

\* A socket that went before its hello was read.
HelloLost(c) ==
  /\ c \notin handlers \cup closed
  /\ socket[c] = "dead" /\ up[c] # <<>>
  /\ up' = [up EXCEPT ![c] = <<>>]
  /\ closed' = closed \cup {c}
  /\ UNCHANGED <<dialled, socket, down, conn, handlers, waits, rack, asked, faults>>

-----------------------------------------------------------------------------
(* The rack.                                                               *)

\* Faulty LockFree: writes are not serialised.
LockIgnored(r) == TRUE

LockFree(r) == senders[r] = {}

\* Faulty Watching: the watchdog is stopped before the lock is asked for.
WatchingWhileServing(r) == link[r] \notin {"down", "ending"}

\* The watchdog of a connection outlives every send on it.
Watching(r) == link[r] # "down"

\* A write in hand: under the lock, until the socket takes it or is no more.
TakeLock(r, thread) ==
  /\ LockFree(r)
  /\ senders' = [senders EXCEPT ![r] = @ \cup {thread}]
LeaveLock(r, thread) == senders' = [senders EXCEPT ![r] = @ \ {thread}]

\* tick_once: the connection is published, then hello goes out.
Dial(r) ==
  /\ link[r] = "down" /\ LockFree(r)
  /\ \E c \in Conn :
       /\ socket[c] = "unused" /\ \A d \in 1..(c - 1) : socket[d] # "unused"
       /\ socket' = [socket EXCEPT ![c] = "open"]
       /\ dialled' = [dialled EXCEPT ![c] = r]
       /\ at' = [at EXCEPT ![r] = c]
       /\ published' = [published EXCEPT ![r] = TRUE]
  /\ link' = [link EXCEPT ![r] = "ready"]
  /\ hand' = [hand EXCEPT ![r] = Hello]
  /\ UNCHANGED <<down, up, hub, waits, senders, asked, faults>>

\* _receive and _answer: the handler of a question runs on the link thread.
Receive(r) ==
  /\ link[r] = "serving" /\ down[at[r]] # <<>> /\ socket[at[r]] # "dead"
  /\ link' = [link EXCEPT ![r] = "handling"]
  /\ hand' = [hand EXCEPT ![r] = Head(down[at[r]])]
  /\ down' = [down EXCEPT ![at[r]] = Tail(@)]
  /\ UNCHANGED <<dialled, socket, up, hub, waits, at, senders, published, asked, faults>>

\* detect_handler and probe_handler answer whatever happens.
Handle(r) ==
  /\ link[r] = "handling"
  /\ link' = [link EXCEPT ![r] = "ready"]
  /\ hand' = [hand EXCEPT ![r] = [type |-> "reply", id |-> @.id, kind |-> @.kind, rack |-> r]]
  /\ UNCHANGED <<wires, hub, waits, at, senders, published, asked, faults>>

\* _beat, after a recv that found nothing wrong.
BeatDue(r) ==
  /\ link[r] = "serving" /\ socket[at[r]] # "dead" /\ at[r] \notin closed
  /\ link' = [link EXCEPT ![r] = "ready"]
  /\ hand' = [hand EXCEPT ![r] = Beat]
  /\ UNCHANGED <<wires, hub, waits, at, senders, published, asked, faults>>

\* _send of what is in hand, on the connection this loop serves.
LinkSend(r) ==
  /\ link[r] = "ready"
  /\ TakeLock(r, "link")
  /\ link' = [link EXCEPT ![r] = "sending"]
  /\ UNCHANGED <<wires, hub, waits, at, hand, published, asked, faults>>

LinkSent(r) ==
  /\ link[r] = "sending" /\ socket[at[r]] # "stalled"
  /\ LeaveLock(r, "link")
  /\ hand' = [hand EXCEPT ![r] = None]
  /\ IF socket[at[r]] = "dead"
     THEN link' = [link EXCEPT ![r] = "ending"] /\ UNCHANGED up
     ELSE /\ link' = [link EXCEPT ![r] = "serving"]
          /\ up' = IF hand[r] = Beat THEN up ELSE [up EXCEPT ![at[r]] = Append(@, hand[r])]
  /\ UNCHANGED <<dialled, socket, down, hub, waits, at, published, asked, faults>>

\* LinkClient.send, on the pump's thread: nothing without a connection.
PumpSend(r) ==
  /\ published[r] /\ "pump" \notin senders[r]
  /\ TakeLock(r, "pump")
  /\ UNCHANGED <<wires, hub, waits, link, at, hand, published, asked, faults>>

PumpSent(r) ==
  /\ "pump" \in senders[r] /\ socket[at[r]] # "stalled"
  /\ LeaveLock(r, "pump")
  /\ UNCHANGED <<wires, hub, waits, link, at, hand, published, asked, faults>>

\* _wedged: a write past its deadline has its socket taken from under it.
Abort(r) ==
  /\ Watching(r)
  /\ senders[r] # {} /\ socket[at[r]] = "stalled"
  /\ socket' = [socket EXCEPT ![at[r]] = "dead"]
  /\ UNCHANGED <<dialled, down, up, hub, waits, rack, asked, faults>>

\* recv finds the socket gone, or the server closed it.
RecvFails(r) ==
  /\ link[r] = "serving"
  /\ socket[at[r]] = "dead" \/ at[r] \in closed
  /\ link' = [link EXCEPT ![r] = "ending"]
  /\ UNCHANGED <<wires, hub, waits, at, hand, senders, published, asked, faults>>

\* The `finally` of tick_once: it waits for whoever is sending.
End(r) ==
  /\ link[r] = "ending" /\ LockFree(r)
  /\ link' = [link EXCEPT ![r] = "down"]
  /\ published' = [published EXCEPT ![r] = FALSE]
  /\ socket' = [socket EXCEPT ![at[r]] = "dead"]
  /\ down' = [down EXCEPT ![at[r]] = <<>>]
  /\ at' = [at EXCEPT ![r] = NoConn]
  /\ UNCHANGED <<dialled, up, hub, waits, hand, senders, asked, faults>>

-----------------------------------------------------------------------------
(* The network.                                                            *)

\* A connection is lost, both ends of it.
Lose(c) ==
  /\ Fault
  /\ socket[c] \in {"open", "stalled"}
  /\ socket' = [socket EXCEPT ![c] = "dead"]
  /\ down' = [down EXCEPT ![c] = <<>>]
  /\ UNCHANGED <<dialled, up, hub, waits, rack, asked>>

\* The other end, or the network, takes nothing more of what is sent.
Stall(c) ==
  /\ Fault
  /\ socket[c] = "open"
  /\ socket' = [socket EXCEPT ![c] = "stalled"]
  /\ down' = [down EXCEPT ![c] = <<>>]
  /\ UNCHANGED <<dialled, up, hub, waits, rack, asked>>

-----------------------------------------------------------------------------
Init ==
  /\ dialled = [c \in Conn |-> None]
  /\ socket = [c \in Conn |-> "unused"]
  /\ down = [c \in Conn |-> <<>>]
  /\ up = [c \in Conn |-> <<>>]
  /\ conn = [r \in Rack |-> NoConn]
  /\ closed = {}
  /\ handlers = {}
  /\ ask = [a \in Asker |-> Idle]
  /\ pending = {}
  /\ probing = {}
  /\ link = [r \in Rack |-> "down"]
  /\ at = [r \in Rack |-> NoConn]
  /\ hand = [r \in Rack |-> None]
  /\ senders = [r \in Rack |-> {}]
  /\ published = [r \in Rack |-> FALSE]
  /\ asked = 0
  /\ faults = 0

AskerStep(a) == SendReturns(a) \/ SendFails(a) \/ Answered(a) \/ GiveUp(a)
HandlerStep(c) == Register(c) \/ Read(c) \/ HandlerEnds(c) \/ HelloLost(c)
LinkStep(r) ==
  \/ Dial(r) \/ Receive(r) \/ Handle(r) \/ BeatDue(r) \/ LinkSend(r) \/ LinkSent(r)
  \/ RecvFails(r) \/ End(r)
PumpStep(r) == PumpSend(r) \/ PumpSent(r)

Next ==
  \/ \E a \in Asker : AskerStep(a) \/ \E r \in Rack, kind \in Kind : Ask(a, r, kind)
  \/ \E r \in Rack : LinkStep(r) \/ PumpStep(r) \/ Abort(r)
  \/ \E c \in Conn : HandlerStep(c) \/ Lose(c) \/ Stall(c)

Spec == Init /\ [][Next]_vars

\* Tasks and threads run on; the pump lets go of the lock between two frames,
\* for seconds at a time.  Nobody need ask, and no frame need be sent.
Fairness ==
  /\ \A a \in Asker : WF_vars(AskerStep(a))
  /\ \A c \in Conn : WF_vars(HandlerStep(c))
  /\ \A r \in Rack : SF_vars(LinkStep(r)) /\ WF_vars(PumpSent(r)) /\ WF_vars(Abort(r))

FairSpec == Spec /\ Fairness

-----------------------------------------------------------------------------
(* Properties.                                                             *)

\* Every variable keeps its shape, and one thread at a time is in a send.
TypeOK ==
  /\ dialled \in [Conn -> Rack \cup {None}]
  /\ socket \in [Conn -> {"unused", "open", "stalled", "dead"}]
  /\ down \in [Conn -> Seq(Question)] /\ up \in [Conn -> Seq(Reply \cup {Hello})]
  /\ conn \in [Rack -> Conn \cup {NoConn}] /\ closed \subseteq Conn /\ handlers \subseteq Conn
  /\ ask \in [Asker -> Wait \cup {Idle}]
  /\ pending \subseteq Asker /\ probing \subseteq Rack
  /\ link \in [Rack -> {"down", "ready", "sending", "serving", "handling", "ending"}]
  /\ at \in [Rack -> Conn \cup {NoConn}] /\ published \in [Rack -> BOOLEAN]
  /\ hand \in [Rack -> Question \cup Reply \cup {Hello, Beat, None}]
  /\ senders \in [Rack -> {{}, {"link"}, {"pump"}}]
  /\ asked \in 0..MaxQuestions /\ faults \in 0..MaxFaults

\* What the callers see of it: Asking's question and outcome of each handler.
QuestionOf(w) == IF w = Idle THEN None ELSE [id |-> w.id, rack |-> w.rack, kind |-> w.kind]
OutcomeOf(w) ==
  IF w = Idle \/ w.got = None THEN None
  ELSE IF w.got = Gone THEN [type |-> "lost"]
  ELSE [id |-> w.got.id, rack |-> w.got.rack, kind |-> w.got.kind]

questions == [a \in Asker |-> QuestionOf(ask[a])]
outcomes == [a \in Asker |-> OutcomeOf(ask[a])]

Asked == INSTANCE Asking WITH question <- questions, outcome <- outcomes

\* The requests and all their connections implement what Asking promises: a
\* rack's answer reaches the handler that asked that question of that rack and
\* nobody else, however late it is; an outcome is not replaced by a later one; a
\* rack is probed for one handler at a time; and every handler returns.
Implements == Asked!Spec

\* A rack is taken as being probed exactly while one handler probes it, and a
\* wait is in the hub's table exactly while its handler waits: no timeout, lost
\* rack, failed send or cancelled browser leaves either behind.
GuardedWhileProbed ==
  /\ pending = InFlight
  /\ \A r \in Rack :
       LET probes == {a \in InFlight : ask[a].kind = "probe" /\ ask[a].rack = r}
       IN  Cardinality(probes) = IF r \in probing THEN 1 ELSE 0

\* Nobody is left to sit out a timeout on a rack the hub knows to be gone.
ToldAtOnce == \A a \in Asker : Unresolved(a) => conn[ask[a].rack] # NoConn

\* The clean-up of a connection that was replaced does not end the questions
\* asked over the one that replaced it.
SurvivesOldCleanUp ==
  \A a \in InFlight : ask[a].got = Gone => ask[a].via \in closed

\* A question of a rack that reconnected while it was in flight can still be
\* answered, as the comment of Hub._abandon_waits says of why it is not ended:
\* the rack or the wire has it, or its answer is on a wire that is read.
Answerable ==
  \A a \in Asker : Unresolved(a) =>
    \/ conn[ask[a].rack] = ask[a].via
    \/ \E c \in Conn : \E i \in 1..Len(down[c]) : down[c][i].id = ask[a].id
    \/ \E c \in handlers \ closed : \E i \in 1..Len(up[c]) : up[c][i] \in Reply /\ up[c][i].id = ask[a].id
    \/ \E r \in Rack : /\ link[r] \in {"handling", "ready", "sending"}
                       /\ hand[r] \in Question \cup Reply /\ hand[r].id = ask[a].id

\* In the end no handler waits, no rack is held as probed, and every rack is
\* linked by the connection the hub has for it: no send that never returns, and
\* no late hello or clean-up of an old connection, holds it off for good.
Recovers ==
  <>[](/\ InFlight = {} /\ probing = {}
       /\ \A r \in Rack : link[r] # "ending" /\ at[r] # NoConn /\ conn[r] = at[r]
                          /\ socket[at[r]] = "open" /\ at[r] \notin closed)

=============================================================================
