------------------------------ MODULE RackLink ------------------------------
(***************************************************************************)
(* The link between the server and its racks: how a configuration reaches  *)
(* the panels, and how the server learns that it did.                      *)
(*                                                                         *)
(* Server side: the `daemon` rows, the handlers of saved edits, the hub    *)
(* and one handler per daemon socket (server/src/ors_server: api/changes,  *)
(* api/daemons, pairing, link/hub, link/ws_daemon).  Rack side: the link   *)
(* file, the snapshot cache and the LinkClient thread with the handler it  *)
(* hands each push to (daemon/src/ors_daemon: link, __main__).             *)
(*                                                                         *)
(* A step is what one asyncio task does between two awaits, or what one    *)
(* message makes the daemon's link thread do: nothing else of the same     *)
(* process can run in between.  A crash inside such a step leaves what a   *)
(* crash before it, or one of its failing branches, leaves (see Paired).   *)
(***************************************************************************)
EXTENDS Integers, Sequences, FiniteSets

CONSTANTS
  Row,         \* the ids a `daemon` row can have
  Rack,        \* the machines that run the daemon
  Conn,        \* the sockets that can exist at one time
  Editor,      \* the HTTP handlers that can be saving an edit at one time
  None,        \* Python's None
  MaxVersion,  \* bound: configurations a row goes through
  MaxMinted,   \* bound: tokens and keys ever minted
  MaxBorn,     \* bound: times an id is used (1: ids are never used again)
  MaxFaults,   \* bound: losses, crashes, signals and failed writes, together
  DiskFaults,  \* the writes that may fail: a subset of DiskWrites
  Unusable,    \* versions no rack can apply: an undefined template, say
  Unservable,  \* versions the server cannot build a snapshot of
  Abroad,      \* versions whose timezone is not UTC
  Unclocked    \* versions whose timezone no rack can resolve

DiskWrites == {"cache", "link", "unlink"}

ASSUME RowAssumption == Row \subseteq Nat \ {0}
ASSUME BoundAssumption == {MaxVersion, MaxMinted, MaxBorn, MaxFaults} \subseteq Nat
ASSUME NoneAssumption == None \notin Row \cup Conn \cup Nat
ASSUME SetAssumption == DiskFaults \subseteq DiskWrites

VARIABLES
  \* The database.
  rows, born, token, key, config_version, minted,
  \* Handlers of edits: the pushes each has not sent yet.
  pushing,
  \* The hub.
  connections, acked,
  \* The server's end of each socket, and what each direction carries.
  socket, session, closed, up, down,
  \* Each rack's disk.
  link, cache,
  \* Each rack's process.
  running, settings, version, shown, zone, stopping, dialled,
  \* Faults spent so far.
  faults

database == <<rows, born, token, key, config_version, minted>>
hub == <<connections, acked>>
sockets == <<socket, session, closed>>
disk == <<link, cache>>
process == <<running, settings, version, shown, zone, stopping, dialled>>
vars == <<database, pushing, hub, sockets, up, down, disk, process, faults>>

-----------------------------------------------------------------------------
(* What is stored and said.                                                *)

\* A token or a key.  Its text is random; all anyone does with it is compare.
\* `row` and `born` name the row it was minted for, which only properties read.
Credential == [row : Row, born : Nat, serial : Nat]
ASSUME CredentialAssumption == None \notin Credential

MaybeCredential == Credential \cup {None}

\* What a rack is told to show: the configuration of a row at a version.
Snapshot == [row : Row, born : Nat, version : Nat]
ASSUME SnapshotAssumption == None \notin Snapshot

LinkSettings == [token : MaybeCredential, key : MaybeCredential]
NoLink == [token |-> None, key |-> None]

\* LinkSettings.credential: the key once there is one, the token until then.
Presented(l) == IF l.key # None THEN l.key ELSE l.token

MaybeVersion == Nat \cup {None}

FromRack ==
  [type : {"hello"}, credential : MaybeCredential, version : MaybeVersion]
    \cup [type : {"ack", "nack"}, version : Nat]
FromServer == [type : {"config"}, snapshot : Snapshot]
    \cup [type : {"paired"}, key : Credential]

Hello(r) == [type |-> "hello", credential |-> Presented(settings[r]),
             version |-> version[r]]
Ack(v) == [type |-> "ack", version |-> v]
Nack(v) == [type |-> "nack", version |-> v]
ConfigPush(s) == [type |-> "config", snapshot |-> s]
PairedWith(k) == [type |-> "paired", key |-> k]

Current(d) == [row |-> d, born |-> born[d], version |-> config_version[d]]

Fresh(d, b) == [row |-> d, born |-> b, serial |-> minted + 1]

Zone == {"utc", "abroad", "nowhere"}
ZoneOf(s) == CASE s # None /\ s.version \in Unclocked -> "nowhere"
               [] s # None /\ s.version \in Abroad \ Unclocked -> "abroad"
               [] OTHER -> "utc"

Spend(n) == faults + n <= MaxFaults /\ faults' = faults + n
Failed(ok) == IF ok THEN 0 ELSE 1

-----------------------------------------------------------------------------
(* The database: rows, credentials and saved edits.                        *)

\* POST /api/daemons.  SQLite gives a new row the id after the largest one in
\* the table, so the id of a deleted row comes back.
CreateDaemon(d) ==
  /\ IF rows = {} THEN d = 1 ELSE d - 1 \in rows /\ \A o \in rows : o < d
  /\ born[d] < MaxBorn /\ minted < MaxMinted
  /\ rows' = rows \cup {d}
  /\ born' = [born EXCEPT ![d] = @ + 1]
  /\ token' = [token EXCEPT ![d] = Fresh(d, born[d] + 1)]
  /\ key' = [key EXCEPT ![d] = None]
  /\ config_version' = [config_version EXCEPT ![d] = 0]
  /\ minted' = minted + 1
  /\ UNCHANGED <<pushing, hub, sockets, up, down, disk, process, faults>>

\* POST /api/daemons/{id}/rotate-key.  The hub is not told.
RotateKey(d) ==
  /\ d \in rows /\ minted < MaxMinted
  /\ key' = [key EXCEPT ![d] = None]
  /\ token' = [token EXCEPT ![d] = Fresh(d, born[d])]
  /\ minted' = minted + 1
  /\ UNCHANGED <<rows, born, config_version, pushing, hub, sockets, up, down,
                 disk, process, faults>>

\* DELETE /api/daemons/{id}.  The hub is not told here either.
DeleteDaemon(d) ==
  /\ d \in rows
  /\ rows' = rows \ {d}
  /\ token' = [token EXCEPT ![d] = None]
  /\ key' = [key EXCEPT ![d] = None]
  /\ UNCHANGED <<born, config_version, minted, pushing, hub, sockets, up, down,
                 disk, process, faults>>

\* Send what is left of an edit, in the order of the rows' ids.  A rack that is
\* offline costs nothing; the first that is online gets its push written, and
\* the handler is then suspended until that send returns.
PushLoop(e, todo) ==
  LET online == {s \in todo : connections[s.row] # None}
  IN  \/ /\ online = {}
         /\ pushing' = [pushing EXCEPT ![e] = {}]
         /\ UNCHANGED down
      \/ \E next \in online :
           /\ \A other \in online : next.row <= other.row
           /\ down' = [down EXCEPT ![connections[next.row]] =
                          Append(@, ConfigPush(next))]
           /\ pushing' = [pushing EXCEPT ![e] = {s \in todo : s.row > next.row}]

\* An edit saved: one transaction bumps the version of every row the edit
\* affects, one rack or all of them, and then its handler starts pushing.  An
\* edit that would break a servable row is refused and changes nothing; a row
\* that was broken already is bumped and pushed nothing.
SaveEdit(e, affected) ==
  /\ pushing[e] = {}
  /\ affected # {} /\ affected \subseteq rows
  /\ Cardinality(affected) = 1 \/ affected = rows
  /\ \A d \in affected :
       /\ config_version[d] < MaxVersion
       /\ config_version[d] + 1 \in Unservable => config_version[d] \in Unservable
  /\ config_version' = [d \in Row |-> IF d \in affected THEN config_version[d] + 1
                                                        ELSE config_version[d]]
  /\ PushLoop(e, {[row |-> d, born |-> born[d], version |-> config_version[d] + 1] :
                    d \in {a \in affected : config_version[a] + 1 \notin Unservable}})
  /\ UNCHANGED <<rows, born, token, key, minted, hub, sockets, up, disk, process,
                 faults>>

\* A send of an edit's push returned and the handler goes on with the rest.
ResumePushing(e) ==
  /\ pushing[e] # {}
  /\ PushLoop(e, pushing[e])
  /\ UNCHANGED <<database, hub, sockets, up, disk, process, faults>>

-----------------------------------------------------------------------------
(* The hub.                                                                *)

\* Faulty Register: a superseded connection is not told.
RegisterQuietly(c, d) ==
  /\ connections' = [connections EXCEPT ![d] = c]
  /\ acked' = [acked EXCEPT ![d] = None]
  /\ UNCHANGED closed

\* The newest connection wins; what the rack confirmed before is forgotten.
Register(c, d) ==
  /\ connections' = [connections EXCEPT ![d] = c]
  /\ acked' = [acked EXCEPT ![d] = None]
  /\ closed' = [o \in Conn |-> closed[o] \/ o = connections[d]]

IsCurrent(c) == session[c] # None /\ connections[session[c]] = c

\* Faulty Unregister: by the row's id, whichever connection the hub holds.
UnregisterById(c) ==
  IF session[c] # None
    THEN /\ connections' = [connections EXCEPT ![session[c]] = None]
         /\ acked' = [acked EXCEPT ![session[c]] = None]
    ELSE UNCHANGED hub

\* Take c out of the hub, if the hub still holds it.
Unregister(c) ==
  IF IsCurrent(c)
    THEN /\ connections' = [connections EXCEPT ![session[c]] = None]
         /\ acked' = [acked EXCEPT ![session[c]] = None]
    ELSE UNCHANGED hub

\* Faulty RecordAck: by the row's id, so a late ack of an older socket counts.
RecordAckById(c, v) ==
  /\ acked' = [acked EXCEPT ![session[c]] = v]
  /\ UNCHANGED connections

\* The hub notes an ack read on c, if c is still the row's connection.
RecordAck(c, v) ==
  /\ acked' = IF IsCurrent(c) THEN [acked EXCEPT ![session[c]] = v] ELSE acked
  /\ UNCHANGED connections

\* Hub._send gave up on a send to c, by timeout or by an exception: the push of
\* an edit, or any other message the server sends a rack.
SendFails(c) ==
  /\ IsCurrent(c)
  /\ Spend(1)
  /\ Unregister(c)
  /\ closed' = [closed EXCEPT ![c] = TRUE]
  /\ UNCHANGED <<database, pushing, socket, session, up, down, disk, process>>

-----------------------------------------------------------------------------
(* The handler of one daemon socket.                                       *)

Held(c) == \E r \in Rack : dialled[r] = c

\* The handler returns and its socket closes.  What was written to the rack
\* before the close can still be read by it.
HangUp(c) ==
  /\ Unregister(c)
  /\ socket' = [socket EXCEPT ![c] = IF Held(c) THEN "closed" ELSE "free"]
  /\ session' = [session EXCEPT ![c] = None]
  /\ closed' = [closed EXCEPT ![c] = FALSE]
  /\ up' = [up EXCEPT ![c] = <<>>]
  /\ down' = [down EXCEPT ![c] = IF Held(c) THEN @ ELSE <<>>]

\* Faulty PushFor: any version the rack claims is believed to be the row's.
PushForAnyClaim(d, claimed, pairing) ==
  IF claimed # None /\ ~pairing THEN None ELSE Current(d)

\* What to push at hello: nothing only if the rack claims the row's version,
\* and never believed on the connection that spends a token.
PushFor(d, claimed, pairing) ==
  IF claimed = config_version[d] /\ ~pairing THEN None ELSE Current(d)

\* The second half of _hello: read, register and push without an await.  A row
\* that is gone, or cannot be served, closes the socket and registers nothing.
Greet(c, d, pairing) ==
  LET push == PushFor(d, Head(up[c]).version, pairing)
  IN  IF d \notin rows \/ (push # None /\ config_version[d] \in Unservable)
        THEN HangUp(c)
        ELSE /\ socket' = [socket EXCEPT ![c] = "serving"]
             /\ session' = [session EXCEPT ![c] = d]
             /\ Register(c, d)
             /\ up' = [up EXCEPT ![c] = Tail(@)]
             /\ down' = IF push = None THEN down
                          ELSE [down EXCEPT ![c] = Append(@, ConfigPush(push))]

\* A hello with a live key is greeted at once.
HelloWithKey(c, d) ==
  /\ socket[c] = "accepted" /\ up[c] # <<>>
  /\ d \in rows /\ key[d] # None /\ key[d] = Head(up[c]).credential
  /\ Greet(c, d, FALSE)
  /\ UNCHANGED <<database, pushing, disk, process, faults>>

\* A hello with a live token spends it: the row holds a key from now on, and
\* the key goes down this socket.  The send is awaited, so the greeting is a
\* step of its own; until then the hub knows nothing of this socket.
HelloWithToken(c, d) ==
  LET issued == Fresh(d, born[d])
  IN  /\ socket[c] = "accepted" /\ up[c] # <<>>
      /\ d \in rows /\ token[d] # None /\ token[d] = Head(up[c]).credential
      /\ minted < MaxMinted
      /\ token' = [token EXCEPT ![d] = None]
      /\ key' = [key EXCEPT ![d] = issued]
      /\ minted' = minted + 1
      /\ socket' = [socket EXCEPT ![c] = "pairing"]
      /\ session' = [session EXCEPT ![c] = d]
      /\ down' = [down EXCEPT ![c] = Append(@, PairedWith(issued))]
      /\ UNCHANGED <<rows, born, config_version, pushing, hub, closed, up, disk,
                     process, faults>>

GreetPaired(c) ==
  /\ socket[c] = "pairing"
  /\ Greet(c, session[c], TRUE)
  /\ UNCHANGED <<database, pushing, disk, process, faults>>

\* A credential that matches no row.
HelloRefused(c) ==
  /\ socket[c] = "accepted" /\ up[c] # <<>>
  /\ \A d \in rows : Head(up[c]).credential \notin {key[d], token[d]} \ {None}
  /\ HangUp(c)
  /\ UNCHANGED <<database, pushing, disk, process, faults>>

\* One message from a registered rack.  The reader may have finished before the
\* socket was superseded, so this can be a message of a rack that has moved on.
HandleMessage(c) ==
  /\ socket[c] = "serving" /\ up[c] # <<>>
  /\ up' = [up EXCEPT ![c] = Tail(@)]
  /\ IF Head(up[c]).type = "ack" THEN RecordAck(c, Head(up[c]).version)
                                 ELSE UNCHANGED hub
  /\ UNCHANGED <<database, pushing, sockets, down, disk, process, faults>>

\* The hub superseded or dropped this socket: its handler closes it.
CloseSuperseded(c) ==
  /\ socket[c] = "serving" /\ closed[c]
  /\ HangUp(c)
  /\ UNCHANGED <<database, pushing, disk, process, faults>>

\* The rack's end is gone, and the handler's receive says so.
SeeDisconnect(c) ==
  /\ socket[c] \in {"accepted", "pairing", "serving"} /\ ~Held(c)
  /\ HangUp(c)
  /\ UNCHANGED <<database, pushing, disk, process, faults>>

\* The network loses a socket the rack still holds, seen from the server first.
LoseSocket(c) ==
  /\ socket[c] \in {"accepted", "pairing", "serving"} /\ Held(c)
  /\ Spend(1)
  /\ HangUp(c)
  /\ UNCHANGED <<database, pushing, disk, process>>

\* The server process dies and comes back: rows are all it keeps.
RestartServer ==
  /\ Spend(1)
  /\ pushing' = [e \in Editor |-> {}]
  /\ connections' = [d \in Row |-> None]
  /\ acked' = [d \in Row |-> None]
  /\ socket' = [c \in Conn |-> IF Held(c) THEN "closed" ELSE "free"]
  /\ session' = [c \in Conn |-> None]
  /\ closed' = [c \in Conn |-> FALSE]
  /\ up' = [c \in Conn |-> <<>>]
  /\ down' = [c \in Conn |-> IF Held(c) THEN down[c] ELSE <<>>]
  /\ UNCHANGED <<database, disk, process>>

-----------------------------------------------------------------------------
(* The rack: its disk, its process and its end of the link.                *)

\* `ors-daemon connect` with the token the interface showed: forget the cached
\* snapshot, then write the pairing.  It is another process than the daemon.
Connect(r, d) ==
  /\ token[d] # None
  /\ cache' = [cache EXCEPT ![r] = None]
  /\ \E written \in {TRUE} \cup (IF "link" \in DiskFaults THEN {FALSE} ELSE {}) :
       /\ Spend(Failed(written))
       /\ link' = IF written
                    THEN [link EXCEPT ![r] = [token |-> token[d], key |-> None]]
                    ELSE link
  /\ UNCHANGED <<database, pushing, hub, sockets, up, down, process>>

\* Boot a paired rack from its cache, or with no screens if that is unusable.
Boot(r) ==
  LET booted == IF cache[r] # None /\ cache[r].version \notin Unusable
                  THEN cache[r] ELSE None
  IN  /\ ~running[r] /\ link[r] # NoLink
      /\ running' = [running EXCEPT ![r] = TRUE]
      /\ settings' = [settings EXCEPT ![r] = link[r]]
      /\ version' = [version EXCEPT ![r] = IF booted = None THEN None
                                                             ELSE booted.version]
      /\ shown' = [shown EXCEPT ![r] = booted]
      /\ zone' = [zone EXCEPT ![r] = ZoneOf(booted)]
      /\ UNCHANGED <<database, pushing, hub, sockets, up, down, disk, stopping,
                     dialled, faults>>

\* The rack's end of its socket closes.  A socket both ends have left is free.
LetGo(r) ==
  LET c == dialled[r]
  IN  /\ dialled' = [dialled EXCEPT ![r] = None]
      /\ IF c = None THEN UNCHANGED <<socket, down>>
           ELSE /\ socket' = [socket EXCEPT ![c] = IF @ = "closed" THEN "free" ELSE @]
                /\ down' = [down EXCEPT ![c] = <<>>]

\* The process is gone, and what it drew and knew with it.
Halt(r) ==
  /\ LetGo(r)
  /\ running' = [running EXCEPT ![r] = FALSE]
  /\ settings' = [settings EXCEPT ![r] = NoLink]
  /\ version' = [version EXCEPT ![r] = None]
  /\ shown' = [shown EXCEPT ![r] = None]
  /\ zone' = [zone EXCEPT ![r] = "utc"]
  /\ stopping' = [stopping EXCEPT ![r] = FALSE]

Crash(r) ==
  /\ running[r]
  /\ Spend(1)
  /\ Halt(r)
  /\ UNCHANGED <<database, pushing, hub, session, closed, up, disk>>

\* SIGTERM: the stop event is set, and the process leaves later.
Signal(r) ==
  /\ running[r] /\ ~stopping[r]
  /\ Spend(1)
  /\ stopping' = [stopping EXCEPT ![r] = TRUE]
  /\ UNCHANGED <<database, pushing, hub, sockets, up, down, disk, running, settings,
                 version, shown, zone, dialled>>

Exit(r) ==
  /\ running[r] /\ stopping[r]
  /\ Halt(r)
  /\ UNCHANGED <<database, pushing, hub, session, closed, up, disk, faults>>

\* Faulty Reack: the version is confirmed before there is one.
ReackAlways(r) == <<Ack(version[r])>>

\* What a rack re-acks on connecting: the version it runs, once it has a key.
Reack(r) ==
  IF version[r] = None \/ settings[r].key = None THEN <<>>
                                                 ELSE <<Ack(version[r])>>

\* Connect, say hello and re-ack, on a socket nobody uses.
TickOnce(r, c) ==
  /\ running[r] /\ ~stopping[r] /\ dialled[r] = None
  /\ socket[c] = "free"
  /\ socket' = [socket EXCEPT ![c] = "accepted"]
  /\ dialled' = [dialled EXCEPT ![r] = c]
  /\ up' = [up EXCEPT ![c] = <<Hello(r)>> \o Reack(r)]
  /\ UNCHANGED <<database, pushing, hub, session, closed, down, disk, running,
                 settings, version, shown, zone, stopping, faults>>

\* The link is over: the server closed it.
LinkClosed(r) ==
  /\ dialled[r] # None /\ socket[dialled[r]] = "closed"
  /\ LetGo(r)
  /\ UNCHANGED <<database, pushing, hub, session, closed, up, disk, running,
                 settings, version, shown, zone, stopping, faults>>

\* The link is over although the server still holds it: a network failure, or
\* the send watchdog taking a wedged socket apart.
LoseLink(r) ==
  /\ dialled[r] # None /\ socket[dialled[r]] # "closed"
  /\ Spend(1)
  /\ LetGo(r)
  /\ UNCHANGED <<database, pushing, hub, session, closed, up, disk, running,
                 settings, version, shown, zone, stopping>>

Receives(r, type) ==
  /\ dialled[r] # None /\ down[dialled[r]] # <<>>
  /\ Head(down[dialled[r]]).type = type

\* Take the message, and say something back unless the server has closed.
Take(c) == down' = [down EXCEPT ![c] = Tail(@)]
Answer(c, m) == up' = IF socket[c] = "closed" THEN up
                                              ELSE [up EXCEPT ![c] = Append(@, m)]

Pushed(r) == Head(down[dialled[r]]).snapshot

\* Write the snapshot to the cache, or fail to.
WriteCache(r, written) ==
  /\ written \/ "cache" \in DiskFaults
  /\ cache' = IF written THEN [cache EXCEPT ![r] = Pushed(r)] ELSE cache

\* A push of the version already running is acked and not applied.
SkipPush(r) ==
  /\ Receives(r, "config")
  /\ Pushed(r).version = version[r]
  /\ Take(dialled[r])
  /\ Answer(dialled[r], Ack(Pushed(r).version))
  /\ UNCHANGED <<database, pushing, hub, sockets, disk, process, faults>>

\* A push read by a process that is stopping is answered with silence.
IgnorePush(r) ==
  /\ Receives(r, "config")
  /\ Pushed(r).version # version[r] /\ stopping[r]
  /\ Take(dialled[r])
  /\ UNCHANGED <<database, pushing, hub, sockets, up, disk, process, faults>>

Considers(r) ==
  /\ Receives(r, "config")
  /\ Pushed(r).version # version[r] /\ ~stopping[r]
  /\ Take(dialled[r])

\* The push is of another timezone than this process booted with; it is refused
\* if that one cannot be resolved, and any other push if it cannot be applied.
Rezones(r) == ZoneOf(Pushed(r)) # zone[r]
Refuses(r) == IF Rezones(r) THEN ZoneOf(Pushed(r)) = "nowhere"
                            ELSE Pushed(r).version \in Unusable

\* Faulty RefusePush: a push that was not applied is acked.
RefusePushAcked(r) ==
  /\ Considers(r)
  /\ Refuses(r)
  /\ Answer(dialled[r], Ack(Pushed(r).version))
  /\ UNCHANGED <<database, pushing, hub, sockets, disk, process, faults>>

\* A push that is refused is nacked, and the rack keeps what it has.
RefusePush(r) ==
  /\ Considers(r)
  /\ Refuses(r)
  /\ Answer(dialled[r], Nack(Pushed(r).version))
  /\ UNCHANGED <<database, pushing, hub, sockets, disk, process, faults>>

\* A push of another timezone is not applied but cached, and the process stops
\* to boot from it.  Uncached it is nacked, and the process stops all the same.
ReclockPush(r) ==
  /\ Considers(r)
  /\ Rezones(r) /\ ~Refuses(r)
  /\ stopping' = [stopping EXCEPT ![r] = TRUE]
  /\ \E written \in BOOLEAN :
       /\ WriteCache(r, written) /\ Spend(Failed(written))
       /\ IF written
            THEN /\ version' = [version EXCEPT ![r] = Pushed(r).version]
                 /\ Answer(dialled[r], Ack(Pushed(r).version))
            ELSE /\ UNCHANGED version
                 /\ Answer(dialled[r], Nack(Pushed(r).version))
  /\ UNCHANGED <<database, pushing, hub, sockets, link, running, settings, shown,
                 zone, dialled>>

\* A push is applied: the panels show it, it is cached if the disk lets it be,
\* and acked.  A signal that lands meanwhile makes it take the other ending of
\* _config, where a failed cache write is a nack.
ApplyPush(r) ==
  /\ Considers(r)
  /\ ~Rezones(r) /\ ~Refuses(r)
  /\ shown' = [shown EXCEPT ![r] = Pushed(r)]
  /\ \E written, signalled \in BOOLEAN :
       /\ WriteCache(r, written)
       /\ Spend(Failed(written) + Failed(~signalled))
       /\ stopping' = [stopping EXCEPT ![r] = signalled]
       /\ IF written \/ ~signalled
            THEN /\ version' = [version EXCEPT ![r] = Pushed(r).version]
                 /\ Answer(dialled[r], Ack(Pushed(r).version))
            ELSE /\ UNCHANGED version
                 /\ Answer(dialled[r], Nack(Pushed(r).version))
  /\ UNCHANGED <<database, pushing, hub, sockets, link, running, settings, zone,
                 dialled>>

\* Faulty Paired: the version and the cache of the row before are kept.
PairedKeepingVersion(r) ==
  /\ Receives(r, "paired")
  /\ Take(dialled[r])
  /\ IF settings[r].key # None THEN UNCHANGED <<settings, link>>
       ELSE /\ settings' = [settings EXCEPT ![r] =
                              [token |-> None, key |-> Head(down[dialled[r]]).key]]
            /\ link' = [link EXCEPT ![r] = settings'[r]]
  /\ UNCHANGED <<database, pushing, hub, sockets, up, running, version, shown, zone,
                 stopping, dialled, cache, faults>>

\* A pairing: keep the key, forget the version and the cache, then save.  Either
\* write may fail and the session goes on; failing to save is also what a crash
\* between the two writes leaves.  A rack that holds a key ignores it.
Paired(r) ==
  LET k == Head(down[dialled[r]]).key
  IN  /\ Receives(r, "paired")
      /\ Take(dialled[r])
      /\ IF settings[r].key # None THEN UNCHANGED <<settings, version, disk, faults>>
           ELSE /\ settings' = [settings EXCEPT ![r] = [token |-> None, key |-> k]]
                /\ version' = [version EXCEPT ![r] = None]
                /\ \E forgot, saved \in BOOLEAN :
                     /\ forgot \/ "unlink" \in DiskFaults
                     /\ saved \/ "link" \in DiskFaults
                     /\ Spend(Failed(forgot) + Failed(saved))
                     /\ cache' = IF forgot THEN [cache EXCEPT ![r] = None] ELSE cache
                     /\ link' = IF saved THEN [link EXCEPT ![r] = settings'[r]]
                                         ELSE link
      /\ UNCHANGED <<database, pushing, hub, sockets, up, running, shown, zone,
                     stopping, dialled>>

-----------------------------------------------------------------------------
(* The specification.                                                      *)

Init ==
  /\ rows = {}
  /\ born = [d \in Row |-> 0]
  /\ minted = 0
  /\ token = [d \in Row |-> None]
  /\ key = [d \in Row |-> None]
  /\ config_version = [d \in Row |-> 0]
  /\ pushing = [e \in Editor |-> {}]
  /\ connections = [d \in Row |-> None]
  /\ acked = [d \in Row |-> None]
  /\ socket = [c \in Conn |-> "free"]
  /\ session = [c \in Conn |-> None]
  /\ closed = [c \in Conn |-> FALSE]
  /\ up = [c \in Conn |-> <<>>]
  /\ down = [c \in Conn |-> <<>>]
  /\ link = [r \in Rack |-> NoLink]
  /\ cache = [r \in Rack |-> None]
  /\ running = [r \in Rack |-> FALSE]
  /\ settings = [r \in Rack |-> NoLink]
  /\ version = [r \in Rack |-> None]
  /\ shown = [r \in Rack |-> None]
  /\ zone = [r \in Rack |-> "utc"]
  /\ stopping = [r \in Rack |-> FALSE]
  /\ dialled = [r \in Rack |-> None]
  /\ faults = 0

Interface ==
  \/ \E d \in Row : CreateDaemon(d) \/ RotateKey(d) \/ DeleteDaemon(d)
  \/ \E e \in Editor :
       (\E affected \in SUBSET Row : SaveEdit(e, affected)) \/ ResumePushing(e)

Socket(c) ==
  \/ SendFails(c) \/ GreetPaired(c) \/ HelloRefused(c) \/ HandleMessage(c)
  \/ CloseSuperseded(c) \/ SeeDisconnect(c) \/ LoseSocket(c)
  \/ \E d \in Row : HelloWithKey(c, d) \/ HelloWithToken(c, d)

Config(r) ==
  SkipPush(r) \/ IgnorePush(r) \/ RefusePush(r) \/ ReclockPush(r) \/ ApplyPush(r)

Daemon(r) ==
  \/ Boot(r) \/ Crash(r) \/ Signal(r) \/ Exit(r)
  \/ \E c \in Conn : TickOnce(r, c)
  \/ LinkClosed(r) \/ LoseLink(r) \/ Paired(r) \/ Config(r)
  \/ \E d \in Row : Connect(r, d)

Next ==
  \/ Interface
  \/ RestartServer
  \/ \E c \in Conn : Socket(c)
  \/ \E r \in Rack : Daemon(r)

Spec == Init /\ [][Next]_vars

-----------------------------------------------------------------------------
(* Liveness.                                                               *)

\* Everything that runs by itself keeps running: both processes' loops, the
\* handlers, and systemd, which restarts a rack that stopped (Restart=always).
\* What people do and what breaks is not fair.
Fairness ==
  /\ \A e \in Editor : WF_vars(ResumePushing(e))
  /\ \A c \in Conn :
       /\ \A d \in Row : WF_vars(HelloWithKey(c, d)) /\ WF_vars(HelloWithToken(c, d))
       /\ WF_vars(GreetPaired(c))
       /\ WF_vars(HelloRefused(c))
       /\ WF_vars(HandleMessage(c))
       /\ WF_vars(CloseSuperseded(c))
       /\ WF_vars(SeeDisconnect(c))
  /\ \A r \in Rack :
       /\ WF_vars(Boot(r))
       /\ WF_vars(Exit(r))
       /\ WF_vars(\E c \in Conn : TickOnce(r, c))
       /\ WF_vars(LinkClosed(r))
       /\ WF_vars(Paired(r))
       /\ WF_vars(Config(r))

FairSpec == Spec /\ Fairness

-----------------------------------------------------------------------------
(* Properties.                                                             *)

MaybeSnapshot == Snapshot \cup {None}

\* Every variable keeps the shape the code gives it.
TypeOK ==
  /\ rows \subseteq Row
  /\ born \in [Row -> Nat]
  /\ token \in [Row -> MaybeCredential]
  /\ key \in [Row -> MaybeCredential]
  /\ config_version \in [Row -> Nat]
  /\ minted \in Nat
  /\ pushing \in [Editor -> SUBSET Snapshot]
  /\ connections \in [Row -> Conn \cup {None}]
  /\ acked \in [Row -> MaybeVersion]
  /\ socket \in [Conn -> {"free", "accepted", "pairing", "serving", "closed"}]
  /\ session \in [Conn -> Row \cup {None}]
  /\ closed \in [Conn -> BOOLEAN]
  /\ up \in [Conn -> Seq(FromRack)]
  /\ down \in [Conn -> Seq(FromServer)]
  /\ link \in [Rack -> LinkSettings]
  /\ cache \in [Rack -> MaybeSnapshot]
  /\ running \in [Rack -> BOOLEAN]
  /\ settings \in [Rack -> LinkSettings]
  /\ version \in [Rack -> MaybeVersion]
  /\ shown \in [Rack -> MaybeSnapshot]
  /\ zone \in [Rack -> Zone]
  /\ stopping \in [Rack -> BOOLEAN]
  /\ dialled \in [Rack -> Conn \cup {None}]
  /\ faults \in 0..MaxFaults

\* No ack is on its way up a socket.
NoAckInFlight(c) == \A i \in DOMAIN up[c] : up[c][i].type # "ack"

\* The rack holds the connection the hub routes its row to.
OnLine(r, d) == dialled[r] # None /\ connections[d] = dialled[r]

\* What the interface shows as applied is what the rack at the other end of
\* the row's connection runs, once its acks are read: a late ack of an older
\* socket, or an older boot, never stands in for it.
AckTruth ==
  \A r \in Rack, d \in Row :
    OnLine(r, d) /\ acked[d] # None /\ NoAckInFlight(dialled[r])
      => acked[d] = version[r]

\* A rack that holds a key and claims a version shows that version of the row
\* the key is for, unless it is stopping to boot from it: the number a hello
\* claims, which the server believes, is about the row it is compared with.
ClaimIsOwn ==
  \A r \in Rack :
    settings[r].key # None /\ version[r] # None /\ ~stopping[r]
      => shown[r] = [row |-> settings[r].key.row, born |-> settings[r].key.born,
                     version |-> version[r]]

\* A row that the interface shows in step -- the version it has is the version
\* its rack confirmed -- has a rack that shows the row's configuration, unless
\* it is stopping to boot from it.
InStep ==
  \A r \in Rack, d \in Row :
    /\ OnLine(r, d) /\ acked[d] = config_version[d] /\ NoAckInFlight(dialled[r])
    /\ ~stopping[r]
    => shown[r] = Current(d)

Usable(v) == v \notin Unusable \cup Unservable \cup Unclocked

\* An online rack with nothing on its way to it shows its row's configuration,
\* unless it is stopping, cannot use that one, or the server cannot build it:
\* no saved edit is lost without the link ending too.
NothingLost ==
  \A r \in Rack, d \in Row :
    /\ OnLine(r, d) /\ down[dialled[r]] = <<>> /\ ~stopping[r]
    /\ \A e \in Editor : \A s \in pushing[e] : s.row # d
    /\ Usable(config_version[d])
    => shown[r] = Current(d)

\* At most one socket of a row is served and not told to close, and it is the
\* one the hub routes to: no rack is left talking to a handler nobody uses.
OneSocketPerRow ==
  \A c \in Conn : socket[c] = "serving" /\ ~closed[c] => IsCurrent(c)

\* Once edits and faults are over, a rack that holds the live key of a row
\* shows that row's configuration for good, unless that one cannot be used.
Converges ==
  \A r \in Rack, d \in Row :
    <>[](link[r].key # None /\ link[r].key = key[d]
           /\ Usable(config_version[d])
         => shown[r] = Current(d))

\* Pushes to a row leave in the order their edits were saved.
PushesInOrder ==
  \A c \in Conn : \A i, j \in DOMAIN down[c] :
    i < j /\ down[c][i].type = "config" /\ down[c][j].type = "config"
      => down[c][i].snapshot.version <= down[c][j].snapshot.version

\* A configuration that fails validation is never confirmed.
UnusableIsNeverApplied == \A d \in Row : acked[d] \notin Unusable

\* The version shown as applied for a row was confirmed by a rack of that row.
AppliedByOwnRack ==
  \A r \in Rack, d \in rows :
    OnLine(r, d) /\ acked[d] # None => settings[r].key.born = born[d]

=============================================================================
