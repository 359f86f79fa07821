------------------------- MODULE RackLinkClaimProofs -------------------------
(***************************************************************************)
(* Proofs that a claimed version is of the row the rack's key is for, that *)
(* a row shown in step is, and that no saved edit is lost.                 *)
(*                                                                         *)
(* The server compares bare numbers, so all three rest on whose they are:  *)
(* what is sent to a rack, what it has on its disk and what it runs are    *)
(* about the row of the credential it holds (OwnInv, ClaimInv), and        *)
(* whatever was ever minted or configured for an id was of a row that had  *)
(* that id (BornInv).  NothingLost then follows the last configuration on  *)
(* its way to a rack (DeliverInv).                                         *)
(***************************************************************************)
EXTENDS RackLinkProofs

-----------------------------------------------------------------------------
(* The inductive invariants.                                               *)

\* A credential or a snapshot is of a row that had its id when b rows had had it.
Stood(x, b) == x # None => 1 <= x.born /\ x.born <= b[x.row]

\* The credential or the snapshot that a message to a rack carries, and what
\* socket c carries to its rack.
Subject(m) == IF m.type = "config" THEN m.snapshot ELSE m.key
OnItsWay(c) == {down[c][i] : i \in DOMAIN down[c]}

Minted ==
  \A d \in Row :
    /\ born[d] <= MaxBorn /\ (d \in rows => 1 <= born[d])
    /\ \A x \in {token[d], key[d]} : Stood(x, born) /\ (x # None => x.row = d)

Sent ==
  /\ \A e \in Editor : \A s \in pushing[e] : Stood(s, born)
  /\ \A c \in Conn : \A m \in OnItsWay(c) : Stood(Subject(m), born)

Kept ==
  \A r \in Rack :
    \A x \in {link[r].token, link[r].key, settings[r].token, settings[r].key,
              cache[r], shown[r]} : Stood(x, born)

\* Whatever anyone holds was minted, or configured, for a row that was there, and
\* a row's own credentials bear its id.
BornInv == Minted /\ Sent /\ Kept

\* The credential rack r holds is one of row d.
HoldsOf(r, d) == Presented(settings[r]) # None /\ Presented(settings[r]).row = d

\* Rack r on socket c: its hello waits unchanged until it is greeted, the session
\* is of the row of its credential, and so is all that it is sent.
RackOwn(r, c) ==
  /\ socket[c] = "accepted" =>
       /\ up[c] # <<>> /\ down[c] = <<>>
       /\ Head(up[c]).credential = Presented(settings[r])
       /\ Head(up[c]).version = version[r]
  /\ socket[c] \in {"pairing", "serving"} => HoldsOf(r, session[c])
  /\ \A m \in OnItsWay(c) : HoldsOf(r, Subject(m).row)

OwnInv == \A r \in Rack : dialled[r] # None => RackOwn(r, dialled[r])

\* What rack r shows is of the row its key is for, and is what it claims.
Claims(r) ==
  settings[r].key # None /\ version[r] # None /\ ~stopping[r] =>
    /\ shown[r] # None
    /\ shown[r].row = settings[r].key.row
    /\ shown[r].version = version[r]

\* The link file holds a key only if that is the key of the process that runs,
\* and a cache beside a key is of that key's row: a rack that restarts claims
\* no other row's version.
ClaimInv ==
  \A r \in Rack :
    /\ running[r] /\ link[r].key # None => settings[r] = link[r]
    /\ link[r].key # None /\ cache[r] # None => cache[r].row = link[r].key.row
    /\ Claims(r)

NoConfigIn(q) == \A i \in DOMAIN q : q[i].type # "config"

\* The last configuration of a queue, if there is one, is s.
LastConfigIs(q, s) ==
  \A i \in DOMAIN q :
    q[i].type = "config" /\ (\A j \in DOMAIN q : j > i => q[j].type # "config")
      => q[i].snapshot = s

Pending(d) == \E e \in Editor : \E s \in pushing[e] : s.row = d

\* Rack r is the one that row d is routed to.  It has the configuration of the
\* row, or the last one on its way is that, unless an edit's handler has still
\* to send it.
Delivered(r, d) ==
  /\ settings[r].key = None => ~NoConfigIn(down[dialled[r]])
  /\ ~Pending(d) /\ config_version[d] \notin Unservable =>
       /\ LastConfigIs(down[dialled[r]], Current(d))
       /\ NoConfigIn(down[dialled[r]]) /\ Usable(config_version[d]) /\ ~stopping[r]
            => shown[r] = Current(d)

DeliverInv ==
  /\ \A e \in Editor : \A s \in pushing[e] : s = Current(s.row)
  /\ \A r \in Rack, d \in Row : OnLine(r, d) => Delivered(r, d)

-----------------------------------------------------------------------------
(* What the handlers do to sockets and what they carry.                    *)

\* A channel emptied, sent to, or read from.
LEMMA ChannelSteps ==
  ASSUME NEW q \in Seq(FromServer), NEW m \in FromServer
  PROVE  /\ {Append(q, m)[i] : i \in DOMAIN Append(q, m)} = {q[i] : i \in DOMAIN q} \cup {m}
         /\ q # <<>> => /\ {Tail(q)[i] : i \in DOMAIN Tail(q)} \subseteq {q[i] : i \in DOMAIN q}
                        /\ Head(q) \in {q[i] : i \in DOMAIN q}
<1>1. /\ DOMAIN Append(q, m) = 1..(Len(q) + 1) /\ DOMAIN q = 1..Len(q) /\ Len(q) \in Nat
      /\ Append(q, m)[Len(q) + 1] = m
      /\ \A i \in 1..Len(q) : Append(q, m)[i] = q[i]
  OBVIOUS
<1>2. {Append(q, m)[i] : i \in DOMAIN Append(q, m)} = {q[i] : i \in DOMAIN q} \cup {m}
  BY <1>1
<1>3. ASSUME q # <<>>
      PROVE  /\ DOMAIN Tail(q) = 1..(Len(q) - 1) /\ Len(q) > 0 /\ Head(q) = q[1]
             /\ \A i \in 1..(Len(q) - 1) : Tail(q)[i] = q[i + 1]
  BY <1>3
<1> QED BY <1>1, <1>2, <1>3

LEMMA OnItsWayTypes ==
  ASSUME TypeOK, NEW c \in Conn
  PROVE  /\ OnItsWay(c) \subseteq FromServer
         /\ \A m \in FromServer :
              /\ Subject(m) \in Snapshot \cup Credential
              /\ m.type = "config" => Subject(m) = m.snapshot /\ m.snapshot \in Snapshot
              /\ m.type = "paired" => Subject(m) = m.key /\ m.key \in Credential
<1>1. OnItsWay(c) \subseteq FromServer
  BY DEF OnItsWay, TypeOK
<1>2. ASSUME NEW m \in FromServer
      PROVE  /\ Subject(m) \in Snapshot \cup Credential
             /\ m.type = "config" => Subject(m) = m.snapshot /\ m.snapshot \in Snapshot
             /\ m.type = "paired" => Subject(m) = m.key /\ m.key \in Credential
  BY <1>2 DEF FromServer, Subject
<1> QED BY <1>1, <1>2

\* Sending m on socket c.
LEMMA SendsOn ==
  ASSUME TypeOK, NEW c \in Conn, NEW m \in FromServer,
         down' = [down EXCEPT ![c] = Append(@, m)]
  PROVE  /\ OnItsWay(c)' = OnItsWay(c) \cup {m}
         /\ down'[c] = Append(down[c], m)
         /\ \A o \in Conn : o # c => down'[o] = down[o] /\ OnItsWay(o)' = OnItsWay(o)
<1>1. down[c] \in Seq(FromServer) /\ down'[c] = Append(down[c], m)
  BY DEF TypeOK
<1>2. \A o \in Conn : o # c => down'[o] = down[o]
  BY DEF TypeOK
<1> QED BY <1>1, <1>2, ChannelSteps DEF OnItsWay

\* The rack on socket c reads a message.
LEMMA ReadsFrom ==
  ASSUME TypeOK, NEW r \in Rack, NEW type, Receives(r, type),
         NEW c, c = dialled[r], Take(c)
  PROVE  /\ c \in Conn /\ down[c] # <<>> /\ down'[c] = Tail(down[c])
         /\ OnItsWay(c)' \subseteq OnItsWay(c) /\ Head(down[c]) \in OnItsWay(c)
         /\ Head(down[c]).type = type
         /\ \A o \in Conn : o # c => down'[o] = down[o] /\ OnItsWay(o)' = OnItsWay(o)
<1>1. /\ c \in Conn /\ down[c] # <<>> /\ Head(down[c]).type = type
      /\ down[c] \in Seq(FromServer)
  BY ReceivesType DEF Receives, TypeOK
<1>2. down'[c] = Tail(down[c]) /\ \A o \in Conn : o # c => down'[o] = down[o]
  BY <1>1 DEF Take, TypeOK
<1>3. /\ {Tail(down[c])[i] : i \in DOMAIN Tail(down[c])} \subseteq OnItsWay(c)
      /\ Head(down[c]) \in OnItsWay(c)
  BY <1>1, ChannelSteps DEF OnItsWay
<1> QED BY <1>1, <1>2, <1>3 DEF OnItsWay

\* A handler that returns leaves its rack, if there is one, what it was sent.
LEMMA HangUpEffect ==
  ASSUME TypeOK, Routed, NEW c \in Conn, HangUp(c)
  PROVE  /\ \A d \in Row : connections'[d] # c /\ connections'[d] \in {None, connections[d]}
         /\ \A o \in Conn : o # c => /\ socket'[o] = socket[o] /\ session'[o] = session[o]
                                     /\ up'[o] = up[o] /\ down'[o] = down[o]
         /\ IF Held(c) THEN socket'[c] = "closed" /\ down'[c] = down[c]
                       ELSE socket'[c] = "free" /\ down'[c] = <<>>
<1>1. \A d \in Row : connections'[d] # c /\ connections'[d] \in {None, connections[d]}
  BY UnregisterEffect DEF HangUp
<1> QED BY <1>1 DEF HangUp, TypeOK

\* A handler that greets serves its socket for the row, and pushes it the
\* configuration of the row or nothing.
LEMMA GreetEffect ==
  ASSUME TypeOK, NEW c \in Conn, NEW d, NEW pairing, Greet(c, d, pairing), ~HangUp(c)
  PROVE  /\ d \in rows /\ d \in Row
         /\ socket' = [socket EXCEPT ![c] = "serving"]
         /\ session' = [session EXCEPT ![c] = d]
         /\ connections' = [connections EXCEPT ![d] = c]
         /\ up' = [up EXCEPT ![c] = Tail(@)]
         /\ \/ /\ UNCHANGED down
               /\ ~pairing /\ Head(up[c]).version = config_version[d]
            \/ /\ down' = [down EXCEPT ![c] = Append(@, ConfigPush(Current(d)))]
               /\ ConfigPush(Current(d)) \in FromServer
<1>1. d \in rows /\ d \in Row
  BY DEF Greet, TypeOK
<1>2. Current(d) \in Snapshot /\ ConfigPush(Current(d)) \in FromServer
  BY <1>1, CurrentType, ConfigPushType
<1>3. Current(d) # None
  BY <1>2, SnapshotAssumption
<1> QED BY <1>1, <1>2, <1>3 DEF Greet, Register, PushFor

\* An edit's handler sends its next push, the first of those whose rack is
\* online, and keeps those after it.
LEMMA PushLoopEffect ==
  ASSUME TypeOK, NEW e \in Editor, NEW todo \in SUBSET Snapshot, PushLoop(e, todo)
  PROVE  \/ /\ \A s \in todo : connections[s.row] = None
            /\ pushing' = [pushing EXCEPT ![e] = {}] /\ UNCHANGED down
         \/ \E next \in todo :
              /\ connections[next.row] \in Conn /\ next.row \in Row
              /\ \A s \in todo : s.row < next.row => connections[s.row] = None
              /\ pushing' = [pushing EXCEPT ![e] = {s \in todo : s.row > next.row}]
              /\ down' = [down EXCEPT ![connections[next.row]] = Append(@, ConfigPush(next))]
              /\ ConfigPush(next) \in FromServer
<1> DEFINE online == {s \in todo : connections[s.row] # None}
<1>1. CASE online = {} /\ pushing' = [pushing EXCEPT ![e] = {}] /\ UNCHANGED down
  BY <1>1
<1>2. ASSUME NEW next \in online,
             \A other \in online : next.row <= other.row,
             down' = [down EXCEPT ![connections[next.row]] = Append(@, ConfigPush(next))],
             pushing' = [pushing EXCEPT ![e] = {s \in todo : s.row > next.row}]
      PROVE  /\ connections[next.row] \in Conn /\ next.row \in Row
             /\ \A s \in todo : s.row < next.row => connections[s.row] = None
             /\ ConfigPush(next) \in FromServer
  <2>1. \A s \in todo : s.row \in Row /\ s.row \in Nat
    BY RowAssumption DEF Snapshot
  <2>2. connections[next.row] \in Conn
    BY <2>1 DEF TypeOK
  <2>3. ASSUME NEW s \in todo, s.row < next.row PROVE connections[s.row] = None
    BY <1>2, <2>1, <2>3
  <2> QED BY <2>1, <2>2, <2>3, ConfigPushType
<1> QED BY <1>1, <1>2 DEF PushLoop

\* The rack's end of a socket goes; another rack's is not touched.
LEMMA LetGoEffect ==
  ASSUME TypeOK, Exclusive, NEW r \in Rack, LetGo(r)
  PROVE  /\ dialled'[r] = None /\ \A s \in Rack : s # r => dialled'[s] = dialled[s]
         /\ \A s \in Rack : s # r /\ dialled[s] # None =>
              /\ socket'[dialled[s]] = socket[dialled[s]]
              /\ down'[dialled[s]] = down[dialled[s]]
         /\ \A c \in Conn : down'[c] \in {<<>>, down[c]}
<1>1. dialled'[r] = None /\ \A s \in Rack : s # r => dialled'[s] = dialled[s]
  BY DEF LetGo, TypeOK
<1>2. CASE dialled[r] = None
  BY <1>1, <1>2 DEF LetGo
<1>3. CASE dialled[r] # None
  <2>1. /\ dialled[r] \in Conn
        /\ socket' = [socket EXCEPT ![dialled[r]] = IF @ = "closed" THEN "free" ELSE @]
        /\ down' = [down EXCEPT ![dialled[r]] = <<>>]
    BY <1>3 DEF LetGo, TypeOK
  <2>2. \A c \in Conn : c # dialled[r] => socket'[c] = socket[c] /\ down'[c] = down[c]
    BY <2>1 DEF TypeOK
  <2>3. \A c \in Conn : down'[c] \in {<<>>, down[c]}
    BY <2>1 DEF TypeOK
  <2>4. \A s \in Rack : s # r /\ dialled[s] # None
          => dialled[s] \in Conn /\ dialled[s] # dialled[r]
    BY <1>3 DEF Exclusive, TypeOK
  <2> QED BY <1>1, <2>2, <2>3, <2>4
<1> QED BY <1>2, <1>3

-----------------------------------------------------------------------------
(* Whose the credentials and the configurations are.                       *)

Thing == MaybeCredential \cup MaybeSnapshot

\* Rows do not become fewer times used.
LEMMA BornGrows ==
  TypeOK /\ [Next]_vars => \A d \in Row : born[d] <= born'[d]
<1> SUFFICES ASSUME TypeOK, [Next]_vars PROVE \A d \in Row : born[d] <= born'[d]
  OBVIOUS
<1>1. ASSUME NEW d \in Row, CreateDaemon(d) PROVE \A o \in Row : born[o] <= born'[o]
  BY <1>1 DEF CreateDaemon, TypeOK
<1>2. ASSUME UNCHANGED born PROVE \A o \in Row : born[o] <= born'[o]
  BY <1>2 DEF TypeOK
<1>3. CASE RestartServer \/ UNCHANGED vars
  BY <1>2, <1>3 DEF RestartServer, vars, database
<1>4. CASE Interface
  BY <1>1, <1>2, <1>4 DEF Interface, RotateKey, DeleteDaemon, SaveEdit, ResumePushing,
                          database
<1>5. ASSUME NEW c \in Conn, Socket(c) PROVE UNCHANGED born
  BY <1>5 DEF Socket, SendFails, GreetPaired, HelloRefused, HandleMessage, CloseSuperseded,
              SeeDisconnect, LoseSocket, HelloWithKey, HelloWithToken, database
<1>6. ASSUME NEW r \in Rack, Daemon(r) PROVE UNCHANGED born
  BY <1>6 DEF Daemon, Config, Boot, Crash, Signal, Exit, TickOnce, LinkClosed, LoseLink,
              Paired, Connect, SkipPush, IgnorePush, RefusePush, ReclockPush, ApplyPush,
              database
<1> QED BY <1>2, <1>3, <1>4, <1>5, <1>6 DEF Next

LEMMA StoodStays ==
  ASSUME TypeOK, TypeOK', \A d \in Row : born[d] <= born'[d],
         NEW x \in Thing, Stood(x, born)
  PROVE  Stood(x, born')
<1>1. CASE x = None
  BY <1>1 DEF Stood
<1>2. CASE x # None
  <2>1. x.row \in Row /\ x.born \in Nat
    BY <1>2 DEF Thing, MaybeCredential, MaybeSnapshot, Credential, Snapshot
  <2> QED BY <1>2, <2>1 DEF Stood, TypeOK
<1> QED BY <1>1, <1>2

\* What is minted or configured for a row that is there.
LEMMA StoodNow ==
  ASSUME TypeOK, Minted, NEW d \in rows
  PROVE  /\ d \in Row /\ born[d] \in Nat /\ born[d] >= 1
         /\ Stood(Fresh(d, born[d]), born) /\ Fresh(d, born[d]).row = d
         /\ Stood(Current(d), born) /\ Current(d).row = d
BY DEF TypeOK, Minted, Stood, Fresh, Current

LEMMA MintedStep ==
  TypeOK /\ TypeOK' /\ Minted /\ [Next]_vars => Minted'
<1> SUFFICES ASSUME TypeOK, TypeOK', Minted, [Next]_vars PROVE Minted'
  OBVIOUS
<1>1. ASSUME NEW x \in Thing, Stood(x, born) PROVE Stood(x, born')
  BY <1>1, BornGrows, StoodStays
<1>2. \A d \in Row : token[d] \in Thing /\ key[d] \in Thing
  BY DEF TypeOK, Thing
<1>3. Stood(None, born')
  BY DEF Stood
\* A row's credentials are those it had, none, or one that was just minted.
<1>4. ASSUME \A d \in Row :
               /\ born'[d] <= MaxBorn /\ (d \in rows' => 1 <= born'[d])
               /\ token'[d] \in {token[d], None} \/ (Stood(token'[d], born') /\ token'[d].row = d)
               /\ key'[d] \in {key[d], None} \/ (Stood(key'[d], born') /\ key'[d].row = d)
      PROVE  Minted'
  <2>1. ASSUME NEW d \in Row
        PROVE  \A x \in {token'[d], key'[d]} : Stood(x, born') /\ (x # None => x.row = d)
    <3>1. /\ Stood(token[d], born') /\ (token[d] # None => token[d].row = d)
          /\ Stood(key[d], born') /\ (key[d] # None => key[d].row = d)
      BY <1>1, <1>2 DEF Minted
    <3> QED BY <1>3, <1>4, <3>1
  <2> QED BY <1>4, <2>1 DEF Minted
<1>5. ASSUME UNCHANGED <<rows, born, token, key>> PROVE Minted'
  BY <1>5 DEF Minted
<1>6. ASSUME NEW d \in Row, CreateDaemon(d) PROVE Minted'
  <2> DEFINE f == Fresh(d, born[d] + 1)
  <2>1. f.row = d /\ f.born = born[d] + 1
    BY DEF Fresh
  <2>2. born'[d] = born[d] + 1 /\ born[d] \in Nat /\ born[d] < MaxBorn /\ MaxBorn \in Nat
    BY <1>6, BoundAssumption DEF CreateDaemon, TypeOK
  <2>3. Stood(f, born')
    BY <2>1, <2>2 DEF Stood
  <2>4. /\ token' = [token EXCEPT ![d] = f] /\ key' = [key EXCEPT ![d] = None]
        /\ rows' = rows \cup {d} /\ born' = [born EXCEPT ![d] = @ + 1]
    BY <1>6 DEF CreateDaemon
  <2> HIDE DEF f
  <2>5. \A o \in Row : born'[o] <= MaxBorn /\ (o \in rows' => 1 <= born'[o])
    BY <2>2, <2>4 DEF Minted, TypeOK
  <2>6. \A o \in Row : /\ token'[o] = IF o = d THEN f ELSE token[o]
                       /\ key'[o] = IF o = d THEN None ELSE key[o]
    BY <2>4 DEF TypeOK
  <2> QED BY <1>4, <2>1, <2>3, <2>5, <2>6
<1>7. ASSUME NEW d \in Row, RotateKey(d) PROVE Minted'
  <2> DEFINE f == Fresh(d, born[d])
  <2>1. Stood(f, born) /\ f.row = d
    BY <1>7, StoodNow DEF RotateKey
  <2>2. /\ token' = [token EXCEPT ![d] = f] /\ key' = [key EXCEPT ![d] = None]
        /\ UNCHANGED <<rows, born>>
    BY <1>7 DEF RotateKey
  <2> HIDE DEF f
  <2>3. \A o \in Row : /\ token'[o] = IF o = d THEN f ELSE token[o]
                       /\ key'[o] = IF o = d THEN None ELSE key[o]
    BY <2>2 DEF TypeOK
  <2>4. \A o \in Row : born'[o] <= MaxBorn /\ (o \in rows' => 1 <= born'[o])
    BY <2>2 DEF Minted
  <2> QED BY <1>4, <2>1, <2>2, <2>3, <2>4
<1>8. ASSUME NEW d \in Row, DeleteDaemon(d) PROVE Minted'
  <2>1. \A o \in Row : token'[o] \in {token[o], None} /\ key'[o] \in {key[o], None}
    BY <1>8 DEF DeleteDaemon, TypeOK
  <2>2. \A o \in Row : born'[o] <= MaxBorn /\ (o \in rows' => 1 <= born'[o])
    BY <1>8 DEF DeleteDaemon, Minted
  <2> QED BY <1>4, <2>1, <2>2
<1>9. ASSUME NEW c \in Conn, NEW d \in Row, HelloWithToken(c, d) PROVE Minted'
  <2> DEFINE f == Fresh(d, born[d])
  <2>1. Stood(f, born) /\ f.row = d
    BY <1>9, StoodNow DEF HelloWithToken
  <2>2. /\ token' = [token EXCEPT ![d] = None] /\ key' = [key EXCEPT ![d] = f]
        /\ UNCHANGED <<rows, born>>
    BY <1>9 DEF HelloWithToken
  <2> HIDE DEF f
  <2>3. \A o \in Row : /\ token'[o] = IF o = d THEN None ELSE token[o]
                       /\ key'[o] = IF o = d THEN f ELSE key[o]
    BY <2>2 DEF TypeOK
  <2>4. \A o \in Row : born'[o] <= MaxBorn /\ (o \in rows' => 1 <= born'[o])
    BY <2>2 DEF Minted
  <2> QED BY <1>4, <2>1, <2>2, <2>3, <2>4
<1>10. CASE RestartServer \/ UNCHANGED vars
  BY <1>5, <1>10 DEF RestartServer, vars, database
<1>11. ASSUME NEW e \in Editor,
              (\E affected \in SUBSET Row : SaveEdit(e, affected)) \/ ResumePushing(e)
       PROVE  UNCHANGED <<rows, born, token, key>>
  BY <1>11 DEF SaveEdit, ResumePushing, database
<1>12. ASSUME NEW c \in Conn, Socket(c), ~\E d \in Row : HelloWithToken(c, d)
       PROVE  UNCHANGED <<rows, born, token, key>>
  BY <1>12 DEF Socket, SendFails, GreetPaired, HelloRefused, HandleMessage,
               CloseSuperseded, SeeDisconnect, LoseSocket, HelloWithKey, database
<1>13. ASSUME NEW r \in Rack, Daemon(r) PROVE UNCHANGED <<rows, born, token, key>>
  BY <1>13 DEF Daemon, Config, Boot, Crash, Signal, Exit, TickOnce, LinkClosed, LoseLink,
               Paired, Connect, SkipPush, IgnorePush, RefusePush, ReclockPush, ApplyPush,
               database
<1> QED BY <1>5, <1>6, <1>7, <1>8, <1>9, <1>10, <1>11, <1>12, <1>13 DEF Next, Interface

LEMMA SentStep ==
  TypeOK /\ TypeOK' /\ SocketInv /\ Minted /\ Sent /\ [Next]_vars => Sent'
<1> SUFFICES ASSUME TypeOK, TypeOK', SocketInv, Minted, Sent, [Next]_vars PROVE Sent'
  OBVIOUS
<1> USE DEF hub, sockets, database, disk, process
<1>1. ASSUME NEW x \in Thing, Stood(x, born) PROVE Stood(x, born')
  BY <1>1, BornGrows, StoodStays
<1>2. \A e \in Editor : \A s \in pushing[e] : s \in Thing /\ Stood(s, born')
  BY <1>1 DEF TypeOK, Thing, MaybeSnapshot, Sent
<1>3. \A c \in Conn : \A m \in OnItsWay(c) : Stood(Subject(m), born')
  BY <1>1, OnItsWayTypes DEF Thing, MaybeSnapshot, MaybeCredential, Sent
\* Nothing new is pushed, and a channel has what it had, or a part of that.
<1>4. ASSUME \A e \in Editor : pushing'[e] \subseteq pushing[e],
             \A c \in Conn : OnItsWay(c)' \subseteq OnItsWay(c)
      PROVE  Sent'
  BY <1>2, <1>3, <1>4 DEF Sent
<1>5. ASSUME UNCHANGED pushing, \A c \in Conn : down'[c] \in {<<>>, down[c]} PROVE Sent'
  BY <1>4, <1>5 DEF OnItsWay
\* One message is sent, of something that was there.
<1>6. ASSUME \A e \in Editor : \A s \in pushing'[e] : Stood(s, born'),
             NEW c \in Conn, NEW m \in FromServer, Stood(Subject(m), born'),
             down' = [down EXCEPT ![c] = Append(@, m)]
      PROVE  Sent'
  <2>1. \A o \in Conn : OnItsWay(o)' \subseteq OnItsWay(o) \cup {m}
    BY <1>6, SendsOn
  <2> QED BY <1>3, <1>6, <2>1 DEF Sent
<1>7. ASSUME NEW c \in Conn, HangUp(c), UNCHANGED pushing PROVE Sent'
  BY <1>5, <1>7, HangUpEffect DEF SocketInv
<1>8. ASSUME NEW c \in Conn, NEW d, NEW pairing, Greet(c, d, pairing), UNCHANGED <<pushing, born>>
      PROVE  Sent'
  <2>1. CASE HangUp(c)
    BY <1>7, <1>8, <2>1
  <2>2. CASE ~HangUp(c)
    <3> DEFINE m == ConfigPush(Current(d))
    <3>1. \/ UNCHANGED down
          \/ down' = [down EXCEPT ![c] = Append(@, m)] /\ m \in FromServer
      BY <1>8, <2>2, GreetEffect
    <3>2. Stood(Subject(m), born')
      <4>1. Subject(m) = Current(d)
        BY DEF ConfigPush, Subject
      <4> QED BY <1>8, <2>2, <4>1, GreetEffect, StoodNow
    <3> HIDE DEF m
    <3> QED BY <1>2, <1>5, <1>6, <1>8, <3>1, <3>2
  <2> QED BY <2>1, <2>2
<1>9. ASSUME NEW e \in Editor, NEW todo \in SUBSET Snapshot, PushLoop(e, todo),
             \A s \in todo : Stood(s, born'), UNCHANGED born
      PROVE  Sent'
  <2>1. CASE /\ pushing' = [pushing EXCEPT ![e] = {}] /\ UNCHANGED down
    <3>1. \A f \in Editor : pushing'[f] \subseteq pushing[f]
      BY <2>1 DEF TypeOK
    <3> QED BY <1>4, <2>1, <3>1 DEF OnItsWay
  <2>2. ASSUME NEW next \in todo, connections[next.row] \in Conn,
               pushing' = [pushing EXCEPT ![e] = {s \in todo : s.row > next.row}],
               down' = [down EXCEPT ![connections[next.row]] = Append(@, ConfigPush(next))],
               ConfigPush(next) \in FromServer
        PROVE  Sent'
    <3>1. \A f \in Editor : \A s \in pushing'[f] : Stood(s, born')
      BY <1>2, <1>9, <2>2 DEF TypeOK
    <3>2. Subject(ConfigPush(next)) = next
      BY DEF ConfigPush, Subject
    <3> QED BY <1>6, <1>9, <2>2, <3>1, <3>2
  <2> QED BY <1>9, <2>1, <2>2, PushLoopEffect
<1>10. ASSUME NEW e \in Editor, NEW affected \in SUBSET Row, SaveEdit(e, affected)
       PROVE  Sent'
  <2> DEFINE todo == {[row |-> d, born |-> born[d], version |-> config_version[d] + 1] :
                        d \in {a \in affected : config_version[a] + 1 \notin Unservable}}
  <2>1. affected \subseteq rows /\ PushLoop(e, todo) /\ UNCHANGED born
    BY <1>10 DEF SaveEdit
  <2>2. todo \in SUBSET Snapshot
    BY SaveEditTodo
  <2>3. \A s \in todo : Stood(s, born')
    BY <2>1, StoodNow DEF Stood
  <2> HIDE DEF todo
  <2> QED BY <1>9, <2>1, <2>2, <2>3
<1>11. ASSUME NEW e \in Editor, ResumePushing(e) PROVE Sent'
  <2>1. pushing[e] \in SUBSET Snapshot /\ PushLoop(e, pushing[e]) /\ UNCHANGED born
    BY <1>11 DEF ResumePushing, TypeOK
  <2> QED BY <1>2, <1>9, <2>1
<1>12. ASSUME NEW c \in Conn, NEW d \in Row, HelloWithToken(c, d) PROVE Sent'
  <2> DEFINE m == PairedWith(Fresh(d, born[d]))
  <2>1. m \in FromServer /\ Subject(m) = Fresh(d, born[d])
    BY FreshType DEF PairedWith, FromServer, Subject, TypeOK
  <2>2. Stood(Subject(m), born')
    BY <1>12, <2>1, StoodNow DEF HelloWithToken
  <2>3. down' = [down EXCEPT ![c] = Append(@, m)] /\ UNCHANGED pushing
    BY <1>12 DEF HelloWithToken
  <2> HIDE DEF m
  <2> QED BY <1>2, <1>6, <2>1, <2>2, <2>3
<1>13. ASSUME NEW r \in Rack, NEW type, Receives(r, type), Take(dialled[r]), UNCHANGED pushing
       PROVE  Sent'
  <2> DEFINE c == dialled[r]
  <2>1. \A o \in Conn : OnItsWay(o)' \subseteq OnItsWay(o)
    <3>1. c = dialled[r]
      OBVIOUS
    <3> HIDE DEF c
    <3> QED BY <1>13, <3>1, ReadsFrom
  <2> QED BY <1>4, <1>13, <2>1
<1>14. ASSUME NEW r \in Rack, LetGo(r), UNCHANGED pushing PROVE Sent'
  BY <1>5, <1>14, LetGoEffect DEF SocketInv
<1>15. CASE RestartServer
  <2>1. \A c \in Conn : down'[c] \in {<<>>, down[c]}
    BY <1>15 DEF RestartServer
  <2>2. \A e \in Editor : pushing'[e] \subseteq pushing[e]
    BY <1>15 DEF RestartServer
  <2> QED BY <1>4, <2>1, <2>2 DEF OnItsWay
<1>16. CASE Interface
  <2>1. CASE \E d \in Row : CreateDaemon(d) \/ RotateKey(d) \/ DeleteDaemon(d)
    <3>1. UNCHANGED <<pushing, down>>
      BY <2>1 DEF CreateDaemon, RotateKey, DeleteDaemon
    <3> QED BY <1>5, <3>1
  <2> QED BY <1>10, <1>11, <1>16, <2>1 DEF Interface
<1>17. ASSUME NEW c \in Conn, Socket(c) PROVE Sent'
  <2>1. CASE SendFails(c) \/ HandleMessage(c)
    <3>1. UNCHANGED <<pushing, down>>
      BY <2>1 DEF SendFails, HandleMessage
    <3> QED BY <1>5, <3>1
  <2>2. CASE GreetPaired(c) \/ \E d \in Row : HelloWithKey(c, d)
    BY <1>8, <2>2 DEF GreetPaired, HelloWithKey
  <2>3. CASE HelloRefused(c) \/ CloseSuperseded(c) \/ SeeDisconnect(c) \/ LoseSocket(c)
    BY <1>7, <2>3 DEF HelloRefused, CloseSuperseded, SeeDisconnect, LoseSocket
  <2> QED BY <1>12, <1>17, <2>1, <2>2, <2>3 DEF Socket
<1>18. ASSUME NEW r \in Rack, Daemon(r) PROVE Sent'
  <2>1. CASE Boot(r) \/ Signal(r) \/ (\E c \in Conn : TickOnce(r, c)) \/ \E d \in Row : Connect(r, d)
    <3>1. UNCHANGED <<pushing, down>>
      BY <2>1 DEF Boot, Signal, TickOnce, Connect
    <3> QED BY <1>5, <3>1
  <2>2. CASE Crash(r) \/ Exit(r) \/ LinkClosed(r) \/ LoseLink(r)
    BY <1>14, <2>2 DEF Crash, Exit, Halt, LinkClosed, LoseLink
  <2>3. CASE Paired(r) \/ Config(r)
    BY <1>13, <2>3 DEF Paired, Config, SkipPush, IgnorePush, RefusePush, ReclockPush,
                       ApplyPush, Considers
  <2> QED BY <1>18, <2>1, <2>2, <2>3 DEF Daemon
<1>19. CASE UNCHANGED vars
  <2>1. UNCHANGED <<pushing, down>>
    BY <1>19 DEF vars
  <2> QED BY <1>5, <2>1
<1> QED BY <1>15, <1>16, <1>17, <1>18, <1>19 DEF Next

\* What a rack has on its disk or in its process was there before, or came in a
\* message, or is the token somebody typed in.
LEMMA KeptStep ==
  TypeOK /\ TypeOK' /\ Minted /\ Sent /\ Kept /\ [Next]_vars => Kept'
<1> SUFFICES ASSUME TypeOK, TypeOK', Minted, Sent, Kept, [Next]_vars PROVE Kept'
  OBVIOUS
<1> USE DEF hub, sockets, database, disk, process
<1> DEFINE Of(r) == {link[r].token, link[r].key, settings[r].token, settings[r].key,
                     cache[r], shown[r]}
           OfNext(r) == {link'[r].token, link'[r].key, settings'[r].token,
                         settings'[r].key, cache'[r], shown'[r]}
<1>1. ASSUME NEW x \in Thing, Stood(x, born) PROVE Stood(x, born')
  BY <1>1, BornGrows, StoodStays
<1>2. ASSUME NEW r \in Rack PROVE \A x \in Of(r) : Stood(x, born')
  BY <1>1 DEF TypeOK, Thing, LinkSettings, MaybeSnapshot, Kept
<1>3. Stood(None, born') /\ NoLink.token = None /\ NoLink.key = None
  BY DEF Stood, NoLink
<1>4. ASSUME \A r \in Rack : \A x \in OfNext(r) : x \in Of(r) \cup {None} \/ Stood(x, born')
      PROVE  Kept'
  BY <1>2, <1>3, <1>4 DEF Kept
<1>5. ASSUME UNCHANGED <<link, settings, cache, shown>> PROVE Kept'
  <2>1. \A r \in Rack : OfNext(r) = Of(r)
    BY <1>5
  <2> HIDE DEF Of, OfNext
  <2> QED BY <1>4, <2>1
\* A message that is read carries something of a row that was there.
<1>6. ASSUME NEW r \in Rack, NEW type, Receives(r, type)
      PROVE  Stood(Subject(Head(down[dialled[r]])), born')
  <2>1. dialled[r] \in Conn /\ Head(down[dialled[r]]) \in FromServer
    BY <1>6, ReceivesType
  <2>2. Head(down[dialled[r]]) \in OnItsWay(dialled[r])
    <3>1. down[dialled[r]] \in Seq(FromServer) /\ down[dialled[r]] # <<>>
      BY <1>6, <2>1 DEF Receives, TypeOK
    <3> QED BY <3>1, <2>1, ChannelSteps DEF OnItsWay
  <2> QED BY <1>1, <2>1, <2>2, OnItsWayTypes DEF Sent, Thing, MaybeCredential, MaybeSnapshot
<1>7. ASSUME NEW r \in Rack, Config(r) PROVE Kept'
  <2>1. Receives(r, "config") /\ UNCHANGED <<link, settings>>
    BY <1>7 DEF Config, SkipPush, IgnorePush, RefusePush, ReclockPush, ApplyPush, Considers
  <2>2. Stood(Pushed(r), born')
    <3>1. Subject(Head(down[dialled[r]])) = Pushed(r)
      BY <2>1 DEF Receives, Subject, Pushed
    <3> QED BY <1>6, <2>1, <3>1
  <2>3. /\ cache' = cache \/ cache' = [cache EXCEPT ![r] = Pushed(r)]
        /\ shown' = shown \/ shown' = [shown EXCEPT ![r] = Pushed(r)]
    BY <1>7, Zenon DEF Config, SkipPush, IgnorePush, RefusePush, ReclockPush, ApplyPush,
                       WriteCache
  <2>4. \A s \in Rack : /\ cache'[s] \in {cache[s], Pushed(r)}
                        /\ shown'[s] \in {shown[s], Pushed(r)}
    BY <2>3 DEF TypeOK
  <2>5. \A s \in Rack : \A x \in OfNext(s) : x \in Of(s) \cup {Pushed(r)}
    BY <2>1, <2>4
  <2> HIDE DEF Of, OfNext
  <2> QED BY <1>4, <2>2, <2>5
<1>8. ASSUME NEW r \in Rack, Paired(r) PROVE Kept'
  <2> DEFINE k == Head(down[dialled[r]]).key
             l == [token |-> None, key |-> k]
  <2>1. Receives(r, "paired") /\ UNCHANGED shown
    BY <1>8 DEF Paired
  <2>2. Stood(k, born')
    <3>1. Subject(Head(down[dialled[r]])) = k
      BY <2>1 DEF Receives, Subject
    <3> QED BY <1>6, <2>1, <3>1
  <2>3. CASE settings[r].key # None
    BY <1>5, <1>8, <2>1, <2>3 DEF Paired
  <2>4. CASE settings[r].key = None
    <3>1. settings' = [settings EXCEPT ![r] = l] /\ settings'[r] = l
      BY <1>8, <2>4 DEF Paired, TypeOK
    <3>2. /\ link' = link \/ link' = [link EXCEPT ![r] = l]
          /\ cache' = cache \/ cache' = [cache EXCEPT ![r] = None]
      BY <1>8, <2>4, <3>1, Zenon DEF Paired
    <3>3. l.token = None /\ l.key = k
      OBVIOUS
    <3> HIDE DEF k, l
    <3>4. \A s \in Rack : /\ link'[s] \in {link[s], l} /\ settings'[s] \in {settings[s], l}
                          /\ cache'[s] \in {cache[s], None} /\ shown'[s] = shown[s]
      BY <2>1, <3>1, <3>2 DEF TypeOK
    <3>5. \A s \in Rack : \A x \in OfNext(s) : x \in Of(s) \cup {None, k}
      BY <3>3, <3>4
    <3> HIDE DEF Of, OfNext
    <3> QED BY <1>4, <2>2, <3>5
  <2> QED BY <2>3, <2>4
<1>9. ASSUME NEW r \in Rack, Crash(r) \/ Exit(r) PROVE Kept'
  <2>1. /\ settings' = [settings EXCEPT ![r] = NoLink]
        /\ shown' = [shown EXCEPT ![r] = None] /\ UNCHANGED <<link, cache>>
    BY <1>9 DEF Crash, Exit, Halt
  <2>2. \A s \in Rack : settings'[s] \in {settings[s], NoLink} /\ shown'[s] \in {shown[s], None}
    BY <2>1 DEF TypeOK
  <2>3. \A s \in Rack : \A x \in OfNext(s) : x \in Of(s) \cup {None}
    BY <1>3, <2>1, <2>2
  <2> HIDE DEF Of, OfNext
  <2> QED BY <1>4, <2>3
<1>10. ASSUME NEW r \in Rack, Boot(r) PROVE Kept'
  <2>1. /\ settings' = [settings EXCEPT ![r] = link[r]]
        /\ shown'[r] \in {cache[r], None} /\ \A s \in Rack : s # r => shown'[s] = shown[s]
        /\ UNCHANGED <<link, cache>>
    BY <1>10 DEF Boot, TypeOK
  <2>2. \A s \in Rack : settings'[s] \in {settings[s], link[s]}
                        /\ shown'[s] \in {shown[s], cache[s], None}
    BY <2>1 DEF TypeOK
  <2>3. \A s \in Rack : \A x \in OfNext(s) : x \in Of(s) \cup {None}
    BY <2>1, <2>2
  <2> HIDE DEF Of, OfNext
  <2> QED BY <1>4, <2>3
<1>11. ASSUME NEW r \in Rack, NEW d \in Row, Connect(r, d) PROVE Kept'
  <2> DEFINE l == [token |-> token[d], key |-> None]
  <2>1. /\ cache' = [cache EXCEPT ![r] = None] /\ UNCHANGED <<settings, shown>>
        /\ link' = link \/ link' = [link EXCEPT ![r] = l]
    BY <1>11 DEF Connect
  <2>2. l.token = token[d] /\ l.key = None
    OBVIOUS
  <2>3. Stood(token[d], born')
    BY <1>1 DEF Minted, TypeOK, Thing
  <2> HIDE DEF l
  <2>4. \A s \in Rack : link'[s] \in {link[s], l} /\ cache'[s] \in {cache[s], None}
    BY <2>1 DEF TypeOK
  <2>5. \A s \in Rack : \A x \in OfNext(s) : x \in Of(s) \cup {None, token[d]}
    BY <2>1, <2>2, <2>4
  <2> HIDE DEF Of, OfNext
  <2> QED BY <1>4, <2>3, <2>5
<1>12. CASE Interface \/ RestartServer \/ UNCHANGED vars
  BY <1>5, <1>12 DEF Interface, RestartServer, vars, CreateDaemon, RotateKey, DeleteDaemon,
                     SaveEdit, ResumePushing
<1>13. ASSUME NEW c \in Conn, Socket(c) PROVE Kept'
  <2>1. UNCHANGED <<link, settings, cache, shown>>
    BY <1>13 DEF Socket, SendFails, GreetPaired, HelloRefused, HandleMessage,
                 CloseSuperseded, SeeDisconnect, LoseSocket, HelloWithKey, HelloWithToken
  <2> QED BY <1>5, <2>1
<1>14. ASSUME NEW r \in Rack,
              \/ Signal(r) \/ LinkClosed(r) \/ LoseLink(r) \/ \E c \in Conn : TickOnce(r, c)
       PROVE  Kept'
  BY <1>5, <1>14 DEF Signal, LinkClosed, LoseLink, TickOnce
<1> QED BY <1>7, <1>8, <1>9, <1>10, <1>11, <1>12, <1>13, <1>14 DEF Next, Daemon

LEMMA BornInvInit == Init => BornInv
<1> SUFFICES ASSUME Init PROVE BornInv
  OBVIOUS
<1>1. Stood(None, born) /\ NoLink.token = None /\ NoLink.key = None
  BY DEF Stood, NoLink
<1>2. Minted
  BY <1>1, BoundAssumption DEF Init, Minted
<1>3. Sent
  BY DEF Init, Sent, OnItsWay
<1>4. Kept
  BY <1>1 DEF Init, Kept
<1> QED BY <1>2, <1>3, <1>4 DEF BornInv

LEMMA BornStep ==
  TypeOK /\ TypeOK' /\ SocketInv /\ BornInv /\ [Next]_vars => BornInv'
BY MintedStep, SentStep, KeptStep DEF BornInv

-----------------------------------------------------------------------------
(* What a rack is sent is of the row of its credential.                    *)

\* The first thing a rack says is its hello.
LEMMA HelloFirst ==
  ASSUME TypeOK, NEW r \in Rack
  PROVE  /\ <<Hello(r)>> \o Reack(r) # <<>>
         /\ Head(<<Hello(r)>> \o Reack(r)) = Hello(r)
<1>1. Hello(r) \in FromRack /\ Reack(r) \in Seq(FromRack)
  BY HelloType, ReackType
<1>2. Len(<<Hello(r)>> \o Reack(r)) > 0 /\ (<<Hello(r)>> \o Reack(r))[1] = Hello(r)
  BY <1>1
<1> QED BY <1>1, <1>2

\* A credential that is a row's own is one of that row.
LEMMA HoldsOfRow ==
  ASSUME TypeOK, Minted, NEW s \in Rack, NEW d \in Row,
         \/ token[d] # None /\ token[d] = Presented(settings[s])
         \/ key[d] # None /\ key[d] = Presented(settings[s])
  PROVE  HoldsOf(s, d)
BY DEF Minted, HoldsOf

LEMMA OwnStep ==
  TypeOK /\ TypeOK' /\ HelloKept /\ SocketInv /\ SocketInv' /\ BornInv /\ OwnInv
    /\ [Next]_vars
    => OwnInv'
<1> SUFFICES ASSUME TypeOK, TypeOK', HelloKept, SocketInv, SocketInv', BornInv, OwnInv,
                    [Next]_vars
             PROVE  OwnInv'
  OBVIOUS
<1> USE NoneAssumption DEF hub, sockets, database, disk, process
<1>0. Minted
  BY DEF BornInv
\* What a step leaves of a rack that takes no part in it.
<1>1. ASSUME NEW s \in Rack, dialled'[s] # None, dialled'[s] = dialled[s],
             settings'[s] = settings[s],
             socket'[dialled[s]] = socket[dialled[s]],
             session'[dialled[s]] = session[dialled[s]],
             down'[dialled[s]] = down[dialled[s]],
             socket[dialled[s]] = "accepted" =>
               version'[s] = version[s] /\ up'[dialled[s]] = up[dialled[s]]
      PROVE  RackOwn(s, dialled[s])'
  <2>1. RackOwn(s, dialled[s])
    BY <1>1 DEF OwnInv
  <2> QED BY <1>1, <2>1 DEF RackOwn, HoldsOf, OnItsWay
<1>2. ASSUME UNCHANGED <<dialled, settings, version, up, down, socket, session>>
      PROVE  OwnInv'
  BY <1>1, <1>2 DEF OwnInv
<1>3. ASSUME NEW c \in Conn, HangUp(c), UNCHANGED <<dialled, settings, version>>
      PROVE  OwnInv'
  <2>1. ASSUME NEW s \in Rack, dialled[s] = c PROVE RackOwn(s, dialled[s])'
    <3>1. socket'[c] = "closed" /\ down'[c] = down[c]
      BY <1>3, <2>1, HangUpEffect DEF SocketInv, Held
    <3>2. RackOwn(s, c)
      BY <2>1 DEF OwnInv
    <3> QED BY <1>3, <2>1, <3>1, <3>2 DEF RackOwn, HoldsOf, OnItsWay
  <2>2. ASSUME NEW s \in Rack, dialled[s] # None, dialled[s] # c
        PROVE  RackOwn(s, dialled[s])'
    <3>1. dialled[s] \in Conn
      BY <2>2 DEF TypeOK
    <3>2. /\ up'[dialled[s]] = up[dialled[s]] /\ down'[dialled[s]] = down[dialled[s]]
          /\ socket'[dialled[s]] = socket[dialled[s]]
          /\ session'[dialled[s]] = session[dialled[s]]
      BY <1>3, <2>2, <3>1, HangUpEffect DEF SocketInv
    <3> QED BY <1>1, <1>3, <2>2, <3>2
  <2> QED BY <1>3, <2>1, <2>2 DEF OwnInv
<1>4. ASSUME NEW c \in Conn, NEW d, NEW pairing, Greet(c, d, pairing), up[c] # <<>>,
             \/ /\ socket[c] = "accepted" /\ d \in Row
                /\ key[d] # None /\ key[d] = Head(up[c]).credential
             \/ socket[c] = "pairing" /\ d = session[c],
             UNCHANGED <<dialled, settings, version>>
      PROVE  OwnInv'
  <2>1. CASE HangUp(c)
    BY <1>3, <1>4, <2>1
  <2>2. CASE ~HangUp(c)
    <3> DEFINE m == ConfigPush(Current(d))
    <3>1. /\ d \in Row
          /\ socket' = [socket EXCEPT ![c] = "serving"]
          /\ session' = [session EXCEPT ![c] = d]
          /\ up' = [up EXCEPT ![c] = Tail(@)]
          /\ UNCHANGED down \/ (down' = [down EXCEPT ![c] = Append(@, m)] /\ m \in FromServer)
      BY <1>4, <2>2, GreetEffect
    <3>2. Subject(m).row = d
      BY DEF ConfigPush, Subject, Current
    <3> HIDE DEF m
    <3>3. OnItsWay(c)' \subseteq OnItsWay(c) \cup {m}
      BY <3>1, SendsOn DEF OnItsWay
    <3>4. ASSUME NEW s \in Rack, dialled[s] = c PROVE RackOwn(s, dialled[s])'
      <4>1. RackOwn(s, c)
        BY <3>4 DEF OwnInv
      <4>2. HoldsOf(s, d)
        BY <1>0, <1>4, <3>1, <4>1, HoldsOfRow DEF RackOwn
      <4>3. socket'[c] = "serving" /\ session'[c] = d
        BY <3>1 DEF TypeOK
      <4>4. \A x \in OnItsWay(c)' : HoldsOf(s, Subject(x).row)
        BY <3>2, <3>3, <4>1, <4>2 DEF RackOwn
      <4> QED BY <1>4, <3>4, <4>2, <4>3, <4>4 DEF RackOwn, HoldsOf, OnItsWay
    <3>5. ASSUME NEW s \in Rack, dialled[s] # None, dialled[s] # c
          PROVE  RackOwn(s, dialled[s])'
      <4>1. /\ socket'[dialled[s]] = socket[dialled[s]]
            /\ session'[dialled[s]] = session[dialled[s]]
            /\ up'[dialled[s]] = up[dialled[s]] /\ down'[dialled[s]] = down[dialled[s]]
        BY <3>1, <3>5 DEF TypeOK
      <4> QED BY <1>1, <1>4, <3>5, <4>1
    <3> QED BY <1>4, <3>4, <3>5 DEF OwnInv
  <2> QED BY <2>1, <2>2
\* A push is sent on the socket that is served for its row.
<1>5. ASSUME NEW e \in Editor, NEW todo \in SUBSET Snapshot, PushLoop(e, todo),
             UNCHANGED <<dialled, settings, version, up, socket, session>>
      PROVE  OwnInv'
  <2>1. CASE UNCHANGED down
    BY <1>2, <1>5, <2>1
  <2>2. ASSUME NEW next \in todo, connections[next.row] \in Conn, next.row \in Row,
               down' = [down EXCEPT ![connections[next.row]] = Append(@, ConfigPush(next))],
               ConfigPush(next) \in FromServer
        PROVE  OwnInv'
    <3> DEFINE m == ConfigPush(next)
    <3>0. PICK c \in Conn : c = connections[next.row]
      BY <2>2
    <3>1. Subject(m) = next
      BY DEF ConfigPush, Subject
    <3>2. /\ m \in FromServer /\ down' = [down EXCEPT ![c] = Append(@, m)]
          /\ socket[c] = "serving" /\ session[c] = next.row
      BY <2>2, <3>0 DEF SocketInv, Routed
    <3> HIDE DEF m
    <3>3. /\ OnItsWay(c)' = OnItsWay(c) \cup {m}
          /\ \A o \in Conn : o # c => down'[o] = down[o]
      BY <3>2, SendsOn
    <3>4. ASSUME NEW s \in Rack, dialled[s] = c PROVE RackOwn(s, dialled[s])'
      <4>1. RackOwn(s, c)
        BY <3>2, <3>4 DEF OwnInv
      <4>2. \A x \in OnItsWay(c) \cup {m} : HoldsOf(s, Subject(x).row)
        BY <3>1, <3>2, <4>1 DEF RackOwn
      <4> QED BY <1>5, <3>2, <3>3, <3>4, <4>1, <4>2 DEF RackOwn, HoldsOf, OnItsWay
    <3>5. ASSUME NEW s \in Rack, dialled[s] # None, dialled[s] # c
          PROVE  RackOwn(s, dialled[s])'
      <4>1. down'[dialled[s]] = down[dialled[s]]
        BY <3>3, <3>5 DEF TypeOK
      <4> QED BY <1>1, <1>5, <3>5, <4>1
    <3> QED BY <1>5, <3>4, <3>5 DEF OwnInv
  <2> QED BY <1>5, <2>1, <2>2, PushLoopEffect
<1>6. ASSUME NEW r \in Rack, LetGo(r), UNCHANGED <<session, up>>,
             \A s \in Rack : s # r => settings'[s] = settings[s] /\ version'[s] = version[s]
      PROVE  OwnInv'
  <2>1. ASSUME NEW s \in Rack, dialled'[s] # None PROVE RackOwn(s, dialled[s])'
    <3>1. s # r /\ dialled'[s] = dialled[s] /\ dialled[s] # None
      BY <1>6, <2>1, LetGoEffect DEF SocketInv
    <3>2. socket'[dialled[s]] = socket[dialled[s]] /\ down'[dialled[s]] = down[dialled[s]]
      BY <1>6, <3>1, LetGoEffect DEF SocketInv
    <3> QED BY <1>1, <1>6, <2>1, <3>1, <3>2
  <2> QED BY <2>1 DEF OwnInv
<1>7. CASE RestartServer
  <2>1. ASSUME NEW s \in Rack, dialled[s] # None PROVE RackOwn(s, dialled[s])'
    <3>1. /\ dialled[s] \in Conn /\ down'[dialled[s]] = down[dialled[s]]
          /\ socket'[dialled[s]] = "closed" /\ UNCHANGED <<settings, dialled>>
      BY <1>7, <2>1 DEF RestartServer, Held, TypeOK
    <3>2. RackOwn(s, dialled[s])
      BY <2>1 DEF OwnInv
    <3> QED BY <3>1, <3>2 DEF RackOwn, HoldsOf, OnItsWay
  <2> QED BY <1>7, <2>1 DEF OwnInv, RestartServer
<1>8. ASSUME NEW c \in Conn, NEW d \in Row, HelloWithToken(c, d) PROVE OwnInv'
  <2> DEFINE m == PairedWith(Fresh(d, born[d]))
  <2>1. m \in FromServer /\ Subject(m).row = d
    BY FreshType DEF PairedWith, FromServer, Subject, Fresh, TypeOK
  <2>2. /\ down' = [down EXCEPT ![c] = Append(@, m)] /\ socket[c] = "accepted"
        /\ socket' = [socket EXCEPT ![c] = "pairing"] /\ session' = [session EXCEPT ![c] = d]
        /\ token[d] # None /\ token[d] = Head(up[c]).credential
        /\ UNCHANGED <<up, settings, version, dialled>>
    BY <1>8 DEF HelloWithToken
  <2> HIDE DEF m
  <2>3. /\ OnItsWay(c)' = OnItsWay(c) \cup {m}
        /\ \A o \in Conn : o # c => down'[o] = down[o]
    BY <2>1, <2>2, SendsOn
  <2>4. ASSUME NEW s \in Rack, dialled[s] = c PROVE RackOwn(s, dialled[s])'
    <3>1. RackOwn(s, c)
      BY <2>4 DEF OwnInv
    <3>2. HoldsOf(s, d)
      BY <1>0, <2>2, <3>1, HoldsOfRow DEF RackOwn
    <3>3. socket'[c] = "pairing" /\ session'[c] = d
      BY <2>2 DEF TypeOK
    <3>4. \A x \in OnItsWay(c)' : HoldsOf(s, Subject(x).row)
      BY <2>1, <2>3, <3>1, <3>2 DEF RackOwn
    <3> QED BY <2>2, <2>4, <3>2, <3>3, <3>4 DEF RackOwn, HoldsOf, OnItsWay
  <2>5. ASSUME NEW s \in Rack, dialled[s] # None, dialled[s] # c
        PROVE  RackOwn(s, dialled[s])'
    <3>1. /\ down'[dialled[s]] = down[dialled[s]]
          /\ socket'[dialled[s]] = socket[dialled[s]]
          /\ session'[dialled[s]] = session[dialled[s]]
      BY <2>2, <2>5 DEF TypeOK
    <3> QED BY <1>1, <2>2, <2>5, <3>1
  <2> QED BY <2>2, <2>4, <2>5 DEF OwnInv
<1>9. ASSUME NEW c \in Conn, HandleMessage(c) PROVE OwnInv'
  <2>1. /\ socket[c] = "serving" /\ up' = [up EXCEPT ![c] = Tail(@)]
        /\ UNCHANGED <<socket, session, down, settings, version, dialled>>
    BY <1>9 DEF HandleMessage
  <2>2. ASSUME NEW s \in Rack, dialled[s] # None PROVE RackOwn(s, dialled[s])'
    <3>1. socket[dialled[s]] = "accepted" => up'[dialled[s]] = up[dialled[s]]
      BY <2>1, <2>2 DEF TypeOK
    <3> QED BY <1>1, <2>1, <2>2, <3>1
  <2> QED BY <2>1, <2>2 DEF OwnInv
<1>10. ASSUME NEW r \in Rack, NEW c \in Conn, TickOnce(r, c) PROVE OwnInv'
  <2>1. /\ socket[c] = "free" /\ socket' = [socket EXCEPT ![c] = "accepted"]
        /\ dialled[r] = None /\ dialled' = [dialled EXCEPT ![r] = c]
        /\ up' = [up EXCEPT ![c] = <<Hello(r)>> \o Reack(r)]
        /\ UNCHANGED <<session, down, settings, version>>
    BY <1>10 DEF TickOnce
  <2>2. down[c] = <<>> /\ \A s \in Rack : dialled[s] # c
    BY <2>1 DEF SocketInv, FreeIsClean, Held
  <2>3. RackOwn(r, c)'
    <3>1. up'[c] = <<Hello(r)>> \o Reack(r) /\ socket'[c] = "accepted" /\ down'[c] = <<>>
      BY <2>1, <2>2 DEF TypeOK
    <3>2. up'[c] # <<>> /\ Head(up'[c]) = Hello(r)
      BY <3>1, HelloFirst
    <3>3. Head(up'[c]).credential = Presented(settings[r]) /\ Head(up'[c]).version = version[r]
      BY <3>2 DEF Hello
    <3> QED BY <2>1, <3>1, <3>2, <3>3 DEF RackOwn, OnItsWay
  <2>4. ASSUME NEW s \in Rack, s # r, dialled[s] # None PROVE RackOwn(s, dialled[s])'
    <3>1. /\ dialled'[s] = dialled[s]
          /\ up'[dialled[s]] = up[dialled[s]] /\ socket'[dialled[s]] = socket[dialled[s]]
      BY <2>1, <2>2, <2>4 DEF TypeOK
    <3> QED BY <1>1, <2>1, <2>4, <3>1
  <2>5. dialled'[r] = c /\ \A s \in Rack : s # r => dialled'[s] = dialled[s]
    BY <2>1 DEF TypeOK
  <2> QED BY <2>3, <2>4, <2>5 DEF OwnInv
<1>11. ASSUME NEW r \in Rack, Boot(r) PROVE OwnInv'
  <2>1. dialled[r] = None /\ UNCHANGED <<dialled, up, down, socket, session>>
    BY <1>11 DEF Boot, SocketInv, Exclusive
  <2>2. \A s \in Rack : s # r => settings'[s] = settings[s] /\ version'[s] = version[s]
    BY <1>11 DEF Boot, TypeOK
  <2> QED BY <1>1, <2>1, <2>2 DEF OwnInv
\* The rack of a message reads it.  It holds a credential of the row it had one
\* of, so all that is still on its way is of that row too.
<1>12. ASSUME NEW r \in Rack, NEW type, Receives(r, type), Take(dialled[r]),
              UNCHANGED <<sockets, dialled>>,
              up' = up \/ \E m : up' = [up EXCEPT ![dialled[r]] = m],
              \A s \in Rack : s # r => settings'[s] = settings[s] /\ version'[s] = version[s],
              \A d : HoldsOf(r, d) => HoldsOf(r, d)'
       PROVE  OwnInv'
  <2>0. PICK c \in Conn : c = dialled[r]
    BY <1>12, ReceivesType
  <2>1. /\ c # None /\ down[c] # <<>>
        /\ \A o \in Conn : o # c => down'[o] = down[o]
        /\ OnItsWay(c)' \subseteq OnItsWay(c)
    BY <1>12, <2>0, ReadsFrom
  <2>2. RackOwn(r, c)
    BY <2>0, <2>1 DEF OwnInv
  <2>3. RackOwn(r, c)'
    BY <1>12, <2>1, <2>2 DEF RackOwn
  <2>4. ASSUME NEW s \in Rack, s # r, dialled[s] # None PROVE RackOwn(s, dialled[s])'
    <3>1. dialled[s] # c /\ dialled[s] \in Conn
      BY <2>0, <2>4 DEF SocketInv, Exclusive, TypeOK
    <3>2. up'[dialled[s]] = up[dialled[s]] /\ down'[dialled[s]] = down[dialled[s]]
      BY <1>12, <2>0, <2>1, <3>1 DEF TypeOK
    <3> QED BY <1>1, <1>12, <2>4, <3>2
  <2> QED BY <1>12, <2>0, <2>3, <2>4 DEF OwnInv
<1>13. ASSUME NEW r \in Rack, Paired(r) PROVE OwnInv'
  <2> DEFINE c == dialled[r]
             k == Head(down[c]).key
  <2>1. /\ Receives(r, "paired") /\ Take(c) /\ UNCHANGED <<sockets, up, dialled>>
        /\ c \in Conn /\ c # None /\ k \in Credential
    BY <1>13, ReceivesType DEF Paired
  <2>2. CASE settings[r].key # None
    <3>1. UNCHANGED <<settings, version>>
      BY <1>13, <2>2 DEF Paired
    <3> QED BY <1>12, <2>1, <3>1 DEF HoldsOf
  <2>3. CASE settings[r].key = None
    <3>1. /\ settings' = [settings EXCEPT ![r] = [token |-> None, key |-> k]]
          /\ version' = [version EXCEPT ![r] = None]
      BY <1>13, <2>3 DEF Paired
    <3>2. Subject(Head(down[c])) = k /\ Head(down[c]) \in OnItsWay(c)
      <4>1. down[c] \in Seq(FromServer) /\ down[c] # <<>> /\ Head(down[c]).type = "paired"
        BY <2>1 DEF TypeOK, Receives
      <4>2. Head(down[c]) \in OnItsWay(c)
        BY <4>1, ChannelSteps DEF OnItsWay
      <4>3. Subject(Head(down[c])) = k
        BY <4>1 DEF Subject
      <4> QED BY <4>2, <4>3
    <3>3. HoldsOf(r, k.row)
      BY <2>1, <3>2 DEF OwnInv, RackOwn
    <3>4. Presented(settings'[r]) = k /\ k # None
      BY <2>1, <3>1, CredentialAssumption DEF Presented, TypeOK
    <3>5. \A d : HoldsOf(r, d) => HoldsOf(r, d)'
      BY <3>3, <3>4 DEF HoldsOf
    <3>6. \A s \in Rack : s # r => settings'[s] = settings[s] /\ version'[s] = version[s]
      BY <3>1 DEF TypeOK
    <3> QED BY <1>12, <2>1, <3>5, <3>6
  <2> QED BY <2>2, <2>3
<1>14. ASSUME NEW r \in Rack, Config(r) PROVE OwnInv'
  <2>1. /\ Receives(r, "config") /\ Take(dialled[r])
        /\ UNCHANGED <<sockets, dialled, settings>>
    BY <1>14 DEF Config, SkipPush, IgnorePush, RefusePush, ReclockPush, ApplyPush,
                 Considers
  <2>2. \A s \in Rack : s # r => version'[s] = version[s]
    <3>1. version' = version \/ version' = [version EXCEPT ![r] = Pushed(r).version]
      BY <1>14, Zenon DEF Config, SkipPush, IgnorePush, RefusePush, ReclockPush, ApplyPush
    <3> QED BY <3>1 DEF TypeOK
  <2>3. up' = up \/ \E m : up' = [up EXCEPT ![dialled[r]] = m]
    <3>1. UNCHANGED up \/ \E m : Answer(dialled[r], m)
      BY <1>14, Zenon DEF Config, SkipPush, IgnorePush, RefusePush, ReclockPush, ApplyPush
    <3> QED BY <3>1 DEF Answer
  <2> QED BY <1>12, <2>1, <2>2, <2>3 DEF HoldsOf
<1>15. CASE Interface
  <2>1. ASSUME NEW e \in Editor, NEW affected \in SUBSET Row, SaveEdit(e, affected)
        PROVE  OwnInv'
    BY <2>1, <1>5, SaveEditTodo DEF SaveEdit
  <2>2. ASSUME NEW e \in Editor, ResumePushing(e) PROVE OwnInv'
    BY <2>2, <1>5 DEF ResumePushing, TypeOK
  <2>3. CASE \E d \in Row : CreateDaemon(d) \/ RotateKey(d) \/ DeleteDaemon(d)
    BY <2>3, <1>2 DEF CreateDaemon, RotateKey, DeleteDaemon
  <2> QED BY <1>15, <2>1, <2>2, <2>3 DEF Interface
<1>16. ASSUME NEW c \in Conn, Socket(c) PROVE OwnInv'
  <2>1. ASSUME NEW d \in Row, HelloWithKey(c, d) PROVE OwnInv'
    BY <2>1, <1>4 DEF HelloWithKey
  <2>2. CASE GreetPaired(c)
    <3>1. up[c] # <<>>
      BY <2>2 DEF GreetPaired, HelloKept
    <3> QED BY <2>2, <3>1, <1>4 DEF GreetPaired
  <2>3. CASE HelloRefused(c) \/ CloseSuperseded(c) \/ SeeDisconnect(c) \/ LoseSocket(c)
    BY <2>3, <1>3 DEF HelloRefused, CloseSuperseded, SeeDisconnect, LoseSocket
  <2>4. CASE SendFails(c)
    BY <2>4, <1>2 DEF SendFails
  <2> QED BY <1>16, <1>8, <1>9, <2>1, <2>2, <2>3, <2>4 DEF Socket
<1>17. ASSUME NEW r \in Rack, Daemon(r) PROVE OwnInv'
  <2>1. CASE Crash(r) \/ Exit(r) \/ LinkClosed(r) \/ LoseLink(r)
    <3>1. LetGo(r) /\ UNCHANGED <<session, up>>
      BY <2>1 DEF Crash, Exit, Halt, LinkClosed, LoseLink
    <3>2. \A s \in Rack : s # r => settings'[s] = settings[s] /\ version'[s] = version[s]
      BY <2>1 DEF Crash, Exit, Halt, LinkClosed, LoseLink, TypeOK
    <3> QED BY <1>6, <3>1, <3>2
  <2>2. CASE Signal(r) \/ \E d \in Row : Connect(r, d)
    BY <2>2, <1>2 DEF Signal, Connect
  <2> QED BY <1>17, <1>10, <1>11, <1>13, <1>14, <2>1, <2>2 DEF Daemon
<1>18. CASE UNCHANGED vars
  BY <1>2, <1>18 DEF vars
<1> QED BY <1>7, <1>15, <1>16, <1>17, <1>18 DEF Next

-----------------------------------------------------------------------------
(* A claimed version is of the row the rack's key is for.                  *)

LEMMA ClaimStep ==
  ASSUME "unlink" \notin DiskFaults
  PROVE  TypeOK /\ TypeOK' /\ SocketInv /\ OwnInv /\ ClaimInv /\ [Next]_vars => ClaimInv'
<1> SUFFICES ASSUME TypeOK, TypeOK', SocketInv, OwnInv, ClaimInv, [Next]_vars
             PROVE  ClaimInv'
  OBVIOUS
<1> USE NoneAssumption DEF hub, sockets, database, disk, process
<1> DEFINE Fits(r) == /\ running[r] /\ link[r].key # None => settings[r] = link[r]
                      /\ link[r].key # None /\ cache[r] # None
                           => cache[r].row = link[r].key.row
                      /\ Claims(r)
\* What a step leaves of a rack that takes no part in it.
<1>1. ASSUME NEW s \in Rack, running'[s] = running[s], settings'[s] = settings[s],
             link'[s] = link[s], cache'[s] = cache[s], version'[s] = version[s],
             shown'[s] = shown[s], stopping'[s] \in {stopping[s], TRUE}
      PROVE  Fits(s)'
  <2>1. Fits(s) /\ stopping[s] \in BOOLEAN
    BY DEF ClaimInv, TypeOK
  <2> QED BY <1>1, <2>1 DEF Claims
<1>2. ASSUME UNCHANGED <<disk, running, settings, version, shown, stopping>> PROVE ClaimInv'
  BY <1>1, <1>2 DEF ClaimInv
\* Only rack r is touched.
<1>3. ASSUME NEW r \in Rack, Fits(r)',
             \A s \in Rack : s # r =>
               /\ running'[s] = running[s] /\ settings'[s] = settings[s]
               /\ link'[s] = link[s] /\ cache'[s] = cache[s] /\ version'[s] = version[s]
               /\ shown'[s] = shown[s] /\ stopping'[s] = stopping[s]
      PROVE  ClaimInv'
  <2>1. \A s \in Rack : Fits(s)'
    BY <1>1, <1>3
  <2> QED BY <2>1 DEF ClaimInv
<1>4. ASSUME NEW r \in Rack, NEW d \in Row, Connect(r, d) PROVE ClaimInv'
  <2>1. /\ cache' = [cache EXCEPT ![r] = None]
        /\ link' = link \/ link' = [link EXCEPT ![r] = [token |-> token[d], key |-> None]]
        /\ UNCHANGED process
    BY <1>4 DEF Connect
  <2>2. cache'[r] = None /\ (link'[r] = link[r] \/ link'[r].key = None)
    BY <2>1 DEF TypeOK
  <2>3. Fits(r)'
    <3>1. Fits(r)
      BY DEF ClaimInv
    <3> QED BY <2>1, <2>2, <3>1 DEF Claims
  <2>4. \A s \in Rack : s # r => link'[s] = link[s] /\ cache'[s] = cache[s]
    BY <2>1 DEF TypeOK
  <2> QED BY <1>3, <2>1, <2>3, <2>4
<1>5. ASSUME NEW r \in Rack, Boot(r) PROVE ClaimInv'
  <2> DEFINE booted == IF cache[r] # None /\ cache[r].version \notin Unusable
                         THEN cache[r] ELSE None
  <2>1. /\ settings'[r] = link[r] /\ shown'[r] = booted
        /\ version'[r] = IF booted = None THEN None ELSE booted.version
        /\ UNCHANGED <<link, cache, stopping>>
    BY <1>5 DEF Boot, TypeOK
  <2>2. link[r].key # None /\ cache[r] # None => cache[r].row = link[r].key.row
    BY DEF ClaimInv
  <2>3. Fits(r)'
    BY <2>1, <2>2 DEF Claims
  <2>4. \A s \in Rack : s # r =>
          /\ running'[s] = running[s] /\ settings'[s] = settings[s]
          /\ version'[s] = version[s] /\ shown'[s] = shown[s]
    BY <1>5 DEF Boot, TypeOK
  <2> QED BY <1>3, <2>1, <2>3, <2>4
<1>6. ASSUME NEW r \in Rack, Crash(r) \/ Exit(r) PROVE ClaimInv'
  <2>1. Halt(r) /\ UNCHANGED disk
    BY <1>6 DEF Crash, Exit
  <2>2. running'[r] = FALSE /\ version'[r] = None /\ UNCHANGED <<link, cache>>
    BY <2>1 DEF Halt, TypeOK
  <2>3. Fits(r)'
    BY <2>2 DEF ClaimInv, Claims
  <2>4. \A s \in Rack : s # r =>
          /\ running'[s] = running[s] /\ settings'[s] = settings[s]
          /\ version'[s] = version[s] /\ shown'[s] = shown[s] /\ stopping'[s] = stopping[s]
    BY <2>1 DEF Halt, TypeOK
  <2> QED BY <1>3, <2>2, <2>3, <2>4
<1>7. ASSUME NEW r \in Rack, Signal(r) PROVE ClaimInv'
  <2>1. /\ \A s \in Rack : stopping'[s] \in {stopping[s], TRUE}
        /\ UNCHANGED <<disk, running, settings, version, shown>>
    BY <1>7 DEF Signal, TypeOK
  <2> QED BY <1>1, <2>1 DEF ClaimInv
\* A rack with a socket holds a credential of the row of all that it is sent.
<1>8. ASSUME NEW r \in Rack, NEW type, Receives(r, type)
      PROVE  /\ HoldsOf(r, Subject(Head(down[dialled[r]])).row) /\ running[r]
             /\ dialled[r] \in Conn
  <2>1. dialled[r] \in Conn /\ dialled[r] # None
    BY <1>8, ReceivesType
  <2>2. Head(down[dialled[r]]) \in OnItsWay(dialled[r])
    <3>1. down[dialled[r]] \in Seq(FromServer) /\ down[dialled[r]] # <<>>
      BY <1>8, <2>1 DEF Receives, TypeOK
    <3> QED BY <3>1, ChannelSteps DEF OnItsWay
  <2> QED BY <2>1, <2>2 DEF OwnInv, RackOwn, SocketInv, Exclusive, TypeOK
<1>9. ASSUME NEW r \in Rack, Config(r) PROVE ClaimInv'
  <2> DEFINE p == Pushed(r)
  <2>1. /\ Receives(r, "config")
        /\ UNCHANGED <<running, settings, link>>
    BY <1>9 DEF Config, SkipPush, IgnorePush, RefusePush, ReclockPush, ApplyPush, Considers
  <2>2. p \in Snapshot /\ p # None /\ HoldsOf(r, p.row) /\ running[r]
    <3>1. Subject(Head(down[dialled[r]])) = p
      BY <2>1 DEF Receives, Subject, Pushed
    <3> QED BY <1>8, <2>1, <3>1, ReceivesType, SnapshotAssumption
  <2>3. /\ cache' = cache \/ cache' = [cache EXCEPT ![r] = p]
        /\ \/ UNCHANGED <<version, shown, stopping>>
           \/ /\ stopping' = [stopping EXCEPT ![r] = TRUE] /\ UNCHANGED shown
              /\ version' = version \/ version' = [version EXCEPT ![r] = p.version]
           \/ /\ shown' = [shown EXCEPT ![r] = p]
              /\ \/ version' = [version EXCEPT ![r] = p.version]
                 \/ UNCHANGED version /\ stopping' = [stopping EXCEPT ![r] = TRUE]
              /\ \E b \in BOOLEAN : stopping' = [stopping EXCEPT ![r] = b]
    <3>1. SkipPush(r) \/ IgnorePush(r) \/ RefusePush(r)
            => UNCHANGED <<cache, version, shown, stopping>>
      BY DEF SkipPush, IgnorePush, RefusePush
    <3>2. ReclockPush(r)
            => /\ cache' = cache \/ cache' = [cache EXCEPT ![r] = p]
               /\ stopping' = [stopping EXCEPT ![r] = TRUE] /\ UNCHANGED shown
               /\ version' = version \/ version' = [version EXCEPT ![r] = p.version]
      BY Zenon DEF ReclockPush, WriteCache
    <3>3. ASSUME ApplyPush(r)
          PROVE  /\ cache' = cache \/ cache' = [cache EXCEPT ![r] = p]
                 /\ shown' = [shown EXCEPT ![r] = p]
                 /\ \/ version' = [version EXCEPT ![r] = p.version]
                    \/ UNCHANGED version /\ stopping' = [stopping EXCEPT ![r] = TRUE]
                 /\ \E b \in BOOLEAN : stopping' = [stopping EXCEPT ![r] = b]
      <4>1. PICK written \in BOOLEAN, signalled \in BOOLEAN :
              /\ WriteCache(r, written)
              /\ stopping' = [stopping EXCEPT ![r] = signalled]
              /\ IF written \/ ~signalled
                   THEN version' = [version EXCEPT ![r] = p.version]
                   ELSE UNCHANGED version
        BY <3>3, Zenon DEF ApplyPush
      <4>2. cache' = cache \/ cache' = [cache EXCEPT ![r] = p]
        BY <4>1 DEF WriteCache
      <4>3. \/ version' = [version EXCEPT ![r] = p.version]
            \/ UNCHANGED version /\ stopping' = [stopping EXCEPT ![r] = TRUE]
        BY <4>1
      <4> QED BY <3>3, <4>1, <4>2, <4>3 DEF ApplyPush
    <3> HIDE DEF p
    <3> QED BY <1>9, <3>1, <3>2, <3>3 DEF Config
  <2> HIDE DEF p
  <2>4. settings[r].key # None => settings[r].key.row = p.row
    BY <2>2 DEF HoldsOf, Presented
  <2>5. Fits(r)
    BY DEF ClaimInv
  <2>6. /\ cache'[r] \in {cache[r], p} /\ p.version # None
        /\ \/ version'[r] = version[r] /\ shown'[r] = shown[r] /\ stopping'[r] = stopping[r]
           \/ stopping'[r] = TRUE
           \/ shown'[r] = p /\ version'[r] = p.version
    BY <2>2, <2>3 DEF TypeOK, Snapshot
  <2>7. Fits(r)'
    <3>1. running'[r] /\ link'[r].key # None => settings'[r] = link'[r]
      BY <2>1, <2>5
    <3>2. link'[r].key # None /\ cache'[r] # None => cache'[r].row = link'[r].key.row
      BY <2>1, <2>2, <2>4, <2>5, <2>6
    <3>3. Claims(r)'
      BY <2>1, <2>2, <2>4, <2>5, <2>6 DEF Claims
    <3> QED BY <3>1, <3>2, <3>3
  <2>8. \A s \in Rack : s # r =>
          /\ cache'[s] = cache[s] /\ version'[s] = version[s]
          /\ shown'[s] = shown[s] /\ stopping'[s] = stopping[s]
    BY <2>3 DEF TypeOK
  <2> QED BY <1>3, <2>1, <2>7, <2>8
<1>10. ASSUME NEW r \in Rack, Paired(r) PROVE ClaimInv'
  <2> DEFINE k == Head(down[dialled[r]]).key
             l == [token |-> None, key |-> k]
  <2>1. /\ Receives(r, "paired") /\ UNCHANGED <<running, shown, stopping>>
        /\ k \in Credential /\ k # None
    BY <1>10, ReceivesType, CredentialAssumption DEF Paired
  <2>2. CASE settings[r].key # None
    BY <1>2, <1>10, <2>1, <2>2 DEF Paired
  <2>3. CASE settings[r].key = None
    <3>1. /\ settings' = [settings EXCEPT ![r] = l] /\ settings'[r] = l
          /\ version' = [version EXCEPT ![r] = None]
      BY <1>10, <2>3 DEF Paired, TypeOK
    <3>2. /\ link' = link \/ link' = [link EXCEPT ![r] = l]
          /\ cache' = [cache EXCEPT ![r] = None]
      <4>1. \E forgot, saved \in BOOLEAN :
              /\ forgot
              /\ cache' = IF forgot THEN [cache EXCEPT ![r] = None] ELSE cache
              /\ link' = IF saved THEN [link EXCEPT ![r] = settings'[r]] ELSE link
        BY <1>10, <2>3, Zenon DEF Paired
      <4> QED BY <4>1, <3>1
    <3>3. link[r].key = None
      BY <1>8, <2>1, <2>3 DEF ClaimInv
    <3> HIDE DEF l
    <3>4. /\ version'[r] = None /\ cache'[r] = None
          /\ link'[r] = l \/ (link'[r] = link[r] /\ link'[r].key = None)
      BY <3>1, <3>2, <3>3 DEF TypeOK
    <3>5. Fits(r)'
      BY <3>1, <3>4 DEF Claims
    <3>6. \A s \in Rack : s # r =>
            /\ link'[s] = link[s] /\ cache'[s] = cache[s]
            /\ settings'[s] = settings[s] /\ version'[s] = version[s]
      BY <3>1, <3>2 DEF TypeOK
    <3> QED BY <1>3, <2>1, <3>5, <3>6
  <2> QED BY <2>2, <2>3
<1>11. CASE Interface \/ RestartServer \/ UNCHANGED vars
  BY <1>2, <1>11 DEF Interface, RestartServer, vars, CreateDaemon, RotateKey, DeleteDaemon,
                     SaveEdit, ResumePushing
<1>12. ASSUME NEW c \in Conn, Socket(c) PROVE ClaimInv'
  <2>1. UNCHANGED <<disk, process>>
    BY <1>12 DEF Socket, SendFails, GreetPaired, HelloRefused, HandleMessage,
                 CloseSuperseded, SeeDisconnect, LoseSocket, HelloWithKey, HelloWithToken
  <2> QED BY <1>2, <2>1
<1>13. ASSUME NEW r \in Rack, LinkClosed(r) \/ LoseLink(r) \/ \E c \in Conn : TickOnce(r, c)
       PROVE  ClaimInv'
  BY <1>2, <1>13 DEF LinkClosed, LoseLink, TickOnce
<1> QED BY <1>4, <1>5, <1>6, <1>7, <1>9, <1>10, <1>11, <1>12, <1>13 DEF Next, Daemon

-----------------------------------------------------------------------------
(* No saved edit is lost.                                                  *)

LEMMA AppendConfig ==
  ASSUME NEW q \in Seq(FromServer), NEW s, ConfigPush(s) \in FromServer
  PROVE  /\ LastConfigIs(Append(q, ConfigPush(s)), s)
         /\ ~NoConfigIn(Append(q, ConfigPush(s)))
<1>1. /\ DOMAIN Append(q, ConfigPush(s)) = 1..(Len(q) + 1) /\ Len(q) \in Nat
      /\ Append(q, ConfigPush(s))[Len(q) + 1] = ConfigPush(s)
  OBVIOUS
<1>2. ConfigPush(s).type = "config" /\ ConfigPush(s).snapshot = s
  BY DEF ConfigPush
<1> QED BY <1>1, <1>2 DEF LastConfigIs, NoConfigIn

LEMMA TailConfig ==
  ASSUME NEW q \in Seq(FromServer), q # <<>>
  PROVE  /\ \A s : LastConfigIs(q, s) => LastConfigIs(Tail(q), s)
         /\ Head(q).type # "config" /\ NoConfigIn(Tail(q)) => NoConfigIn(q)
         /\ \A s : Head(q).type = "config" /\ NoConfigIn(Tail(q)) /\ LastConfigIs(q, s)
                     => Head(q).snapshot = s
<1> DEFINE t == Tail(q)
<1>1. /\ Len(q) \in Nat /\ Len(q) > 0
      /\ DOMAIN t = 1..(Len(q) - 1) /\ DOMAIN q = 1..Len(q)
      /\ Head(q) = q[1]
      /\ \A i \in 1..(Len(q) - 1) : t[i] = q[i + 1]
      /\ \A i \in 2..Len(q) : i - 1 \in DOMAIN t /\ q[i] = t[i - 1]
  OBVIOUS
<1> HIDE DEF t
<1>2. ASSUME NEW s, LastConfigIs(q, s) PROVE LastConfigIs(t, s)
  <2>1. ASSUME NEW i \in DOMAIN t, t[i].type = "config",
               \A j \in DOMAIN t : j > i => t[j].type # "config"
        PROVE  t[i].snapshot = s
    <3>1. i + 1 \in DOMAIN q /\ t[i] = q[i + 1] /\ i \in Nat
      BY <1>1
    <3>2. ASSUME NEW j \in DOMAIN q, j > i + 1 PROVE q[j].type # "config"
      <4>1. j - 1 \in DOMAIN t /\ q[j] = t[j - 1] /\ j - 1 > i
        BY <1>1, <3>1, <3>2
      <4> QED BY <2>1, <4>1
    <3> QED BY <1>2, <2>1, <3>1, <3>2 DEF LastConfigIs
  <2> QED BY <2>1 DEF LastConfigIs
<1>3. Head(q).type # "config" /\ NoConfigIn(t) => NoConfigIn(q)
  BY <1>1 DEF NoConfigIn
<1>4. ASSUME NEW s, Head(q).type = "config", NoConfigIn(t), LastConfigIs(q, s)
      PROVE  Head(q).snapshot = s
  <2>1. 1 \in DOMAIN q /\ q[1].type = "config"
    BY <1>1, <1>4
  <2>2. \A j \in DOMAIN q : j > 1 => q[j].type # "config"
    BY <1>1, <1>4 DEF NoConfigIn
  <2> QED BY <1>1, <1>4, <2>1, <2>2 DEF LastConfigIs
<1> QED BY <1>2, <1>3, <1>4 DEF t

\* Where an id is never used again, whatever is of a row is of the one row that
\* ever had its id.
LEMMA OneBorn ==
  ASSUME TypeOK, Minted, MaxBorn <= 1, NEW x \in Thing, x # None, Stood(x, born)
  PROVE  x.row \in Row /\ x.born = 1 /\ born[x.row] = 1
<1>1. x.row \in Row /\ x.born \in Nat
  BY DEF Thing, MaybeCredential, MaybeSnapshot, Credential, Snapshot
<1>2. born[x.row] \in Nat /\ born[x.row] <= MaxBorn /\ MaxBorn \in Nat
  BY <1>1, BoundAssumption DEF TypeOK, Minted
<1> QED BY <1>1, <1>2 DEF Stood

\* A rack that claims the version of the row it holds a key of shows the row's
\* configuration.
LEMMA ClaimShows ==
  ASSUME TypeOK, BornInv, ClaimInv, MaxBorn <= 1,
         NEW r \in Rack, NEW d \in Row, HoldsOf(r, d), settings[r].key # None,
         version[r] = config_version[d], ~stopping[r]
  PROVE  shown[r] = Current(d)
<1>1. settings[r].key.row = d /\ version[r] # None
  BY NoneAssumption DEF HoldsOf, Presented, TypeOK
<1>2. /\ shown[r] # None /\ shown[r] \in Snapshot
      /\ shown[r].row = d /\ shown[r].version = config_version[d]
  BY <1>1 DEF ClaimInv, Claims, TypeOK, MaybeSnapshot
<1>3. shown[r].born = born[d]
  BY <1>2, OneBorn DEF BornInv, Kept, Thing, MaybeSnapshot
<1> QED BY <1>2, <1>3 DEF Current, Snapshot

\* A row that is routed to a rack is the row of the rack's credential, and had
\* its id by then.
LEMMA RoutedHolds ==
  ASSUME TypeOK, SocketInv, BornInv, OwnInv, NEW r \in Rack, NEW d \in Row, OnLine(r, d)
  PROVE  /\ HoldsOf(r, d) /\ born[d] >= 1 /\ dialled[r] \in Conn
         /\ socket[dialled[r]] = "serving" /\ session[dialled[r]] = d
<1>1. /\ dialled[r] # None /\ dialled[r] \in Conn
      /\ socket[dialled[r]] = "serving" /\ session[dialled[r]] = d
  BY DEF OnLine, SocketInv, Routed, TypeOK
<1>2. HoldsOf(r, d)
  BY <1>1 DEF OwnInv, RackOwn
<1>3. \E x \in {settings[r].token, settings[r].key} :
        x # None /\ x.row = d /\ x \in Credential /\ Stood(x, born)
  BY <1>2 DEF HoldsOf, Presented, BornInv, Kept, TypeOK, LinkSettings, MaybeCredential
<1>4. born[d] >= 1
  BY <1>3 DEF Stood, Credential, TypeOK
<1> QED BY <1>1, <1>2, <1>4

\* Two rows are not routed to one socket.
LEMMA RoutedApart ==
  ASSUME TypeOK, SocketInv, NEW d \in Row, NEW e \in Row,
         connections[d] # None, connections[d] = connections[e]
  PROVE  d = e
BY DEF SocketInv, Routed

LEMMA DeliverStep ==
  ASSUME MaxBorn <= 1, "unlink" \notin DiskFaults, \A e, f \in Editor : e = f
  PROVE  TypeOK /\ TypeOK' /\ HelloKept /\ AckInv /\ BornInv /\ OwnInv /\ ClaimInv
           /\ DeliverInv /\ [Next]_vars
           => DeliverInv'
<1> SUFFICES ASSUME TypeOK, TypeOK', HelloKept, AckInv, BornInv, OwnInv, ClaimInv,
                    DeliverInv, [Next]_vars
             PROVE  DeliverInv'
  OBVIOUS
<1> USE NoneAssumption DEF hub, sockets, database, disk, process
<1>0. SocketInv /\ Minted
  BY DEF AckInv, BornInv
<1> DEFINE CurrentPushes == \A e \in Editor : \A s \in pushing[e] : s = Current(s.row)
\* What a step leaves of a row and of the rack it is routed to, if it takes
\* neither the row's configuration nor what is on its way there.
<1>1. ASSUME NEW s \in Rack, NEW d \in Row, OnLine(s, d), dialled'[s] = dialled[s],
             settings'[s] = settings[s] \/ settings'[s].key # None,
             shown'[s] = shown[s], stopping'[s] \in {stopping[s], TRUE},
             down'[dialled[s]] = down[dialled[s]],
             born'[d] = born[d], config_version'[d] = config_version[d],
             Pending(d) => Pending(d)'
      PROVE  Delivered(s, d)'
  <2>1. Delivered(s, d) /\ stopping[s] \in BOOLEAN
    BY <1>1 DEF DeliverInv, TypeOK
  <2>2. Current(d)' = Current(d)
    BY <1>1 DEF Current
  <2> QED BY <1>1, <2>1, <2>2 DEF Delivered
<1>2. ASSUME UNCHANGED <<born, config_version>>,
             \A e \in Editor : pushing'[e] \subseteq pushing[e]
      PROVE  CurrentPushes'
  BY <1>2 DEF DeliverInv, Current
<1>3. ASSUME UNCHANGED <<born, config_version, pushing>>,
             \A s \in Rack, d \in Row : OnLine(s, d)' =>
               /\ OnLine(s, d) /\ dialled'[s] = dialled[s]
               /\ down'[dialled[s]] = down[dialled[s]]
               /\ settings'[s] = settings[s] /\ shown'[s] = shown[s]
               /\ stopping'[s] \in {stopping[s], TRUE}
      PROVE  DeliverInv'
  <2>1. \A d : Pending(d) => Pending(d)'
    BY <1>3 DEF Pending
  <2> QED BY <1>1, <1>2, <1>3, <2>1 DEF DeliverInv
<1>4. ASSUME UNCHANGED <<born, config_version, pushing, connections, dialled, down,
                         settings, shown, stopping>>
      PROVE  DeliverInv'
  BY <1>3, <1>4 DEF OnLine
<1>5. ASSUME NEW c \in Conn, HangUp(c),
             UNCHANGED <<born, config_version, pushing, dialled, settings, shown, stopping>>
      PROVE  DeliverInv'
  <2>1. ASSUME NEW s \in Rack, NEW d \in Row, OnLine(s, d)'
        PROVE  OnLine(s, d) /\ down'[dialled[s]] = down[dialled[s]]
    <3>1. /\ connections'[d] = dialled[s] /\ dialled[s] # None
          /\ connections'[d] # c /\ connections'[d] = connections[d]
      BY <1>0, <1>5, <2>1, HangUpEffect DEF OnLine, SocketInv
    <3>2. dialled[s] \in Conn /\ dialled[s] # c
      BY <3>1 DEF TypeOK
    <3> QED BY <1>0, <1>5, <3>1, <3>2, HangUpEffect DEF OnLine, SocketInv
  <2> QED BY <1>3, <1>5, <2>1
\* The rack that is greeted is sent the row's configuration, unless it claims
\* the version: then it shows it.
<1>6. ASSUME NEW c \in Conn, NEW d, NEW pairing, Greet(c, d, pairing), up[c] # <<>>,
             \/ /\ socket[c] = "accepted" /\ d \in Row
                /\ key[d] # None /\ key[d] = Head(up[c]).credential
             \/ socket[c] = "pairing" /\ pairing,
             UNCHANGED <<born, config_version, pushing, dialled, settings, shown, stopping>>
      PROVE  DeliverInv'
  <2>1. CASE HangUp(c)
    BY <1>5, <1>6, <2>1
  <2>2. CASE ~HangUp(c)
    <3> DEFINE m == ConfigPush(Current(d))
    <3>1. /\ d \in Row
          /\ connections' = [connections EXCEPT ![d] = c]
          /\ \/ /\ UNCHANGED down
                /\ ~pairing /\ Head(up[c]).version = config_version[d]
             \/ down' = [down EXCEPT ![c] = Append(@, m)] /\ m \in FromServer
      BY <1>6, <2>2, GreetEffect
    <3>2. \A e \in Row : connections[e] # c
      BY <1>0, <1>6 DEF SocketInv, Routed
    <3>3. /\ connections'[d] = c
          /\ \A e \in Row : e # d => connections'[e] = connections[e]
          /\ \A o \in Conn : o # c => down'[o] = down[o]
      BY <3>1 DEF TypeOK
    <3>4. ASSUME NEW s \in Rack, dialled[s] = c PROVE Delivered(s, d)'
      <4>1. Current(d)' = Current(d)
        BY <1>6 DEF Current
      <4>2. CASE down' = [down EXCEPT ![c] = Append(@, m)] /\ m \in FromServer
        <5>1. down'[c] = Append(down[c], m) /\ down[c] \in Seq(FromServer)
          BY <4>2 DEF TypeOK
        <5>2. LastConfigIs(down'[c], Current(d)) /\ ~NoConfigIn(down'[c])
          BY <4>2, <5>1, AppendConfig
        <5> HIDE DEF m
        <5> QED BY <1>6, <3>4, <4>1, <5>2 DEF Delivered
      <4>3. CASE UNCHANGED down /\ ~pairing /\ Head(up[c]).version = config_version[d]
        <5>1. /\ socket[c] = "accepted" /\ key[d] # None
              /\ key[d] = Presented(settings[s]) /\ version[s] = config_version[d]
              /\ down[c] = <<>>
          BY <1>6, <3>4, <4>3 DEF OwnInv, RackOwn
        <5>2. settings[s].key # None
          BY <3>1, <5>1 DEF Presented, AckInv, TokensAreNoKeys, NoKey
        <5>3. HoldsOf(s, d)
          BY <1>0, <3>1, <5>1, HoldsOfRow
        <5>4. ~stopping[s] => shown[s] = Current(d)
          BY <3>1, <5>1, <5>2, <5>3, ClaimShows
        <5>5. LastConfigIs(<<>>, Current(d))
          BY DEF LastConfigIs
        <5> HIDE DEF m
        <5> QED BY <1>6, <3>4, <4>1, <4>3, <5>1, <5>2, <5>4, <5>5 DEF Delivered
      <4> QED BY <3>1, <4>2, <4>3
    <3>5. ASSUME NEW s \in Rack, NEW e \in Row, OnLine(s, e)' PROVE Delivered(s, e)'
      <4>1. CASE e = d
        <5>1. dialled[s] = c
          BY <1>6, <3>3, <3>5, <4>1 DEF OnLine
        <5> QED BY <3>4, <4>1, <5>1
      <4>2. CASE e # d
        <5>1. OnLine(s, e) /\ dialled[s] # c /\ dialled[s] \in Conn
          BY <1>6, <3>2, <3>3, <3>5, <4>2 DEF OnLine, TypeOK
        <5>2. Pending(e) => Pending(e)'
          BY <1>6 DEF Pending
        <5> QED BY <1>1, <1>6, <3>3, <5>1, <5>2
      <4> QED BY <4>1, <4>2
    <3> QED BY <1>2, <1>6, <3>5 DEF DeliverInv
  <2> QED BY <2>1, <2>2
\* An edit's handler goes on.  The rows it has still to push to are all that
\* are pending, and each gets the configuration it has by now.
<1>7. ASSUME NEW e \in Editor, NEW todo \in SUBSET Snapshot, PushLoop(e, todo),
             \A t \in todo : t = Current(t.row)',
             \A d \in Row : \/ \E t \in todo : t.row = d
                            \/ config_version'[d] \in Unservable
                            \/ config_version'[d] = config_version[d] /\ ~Pending(d),
             UNCHANGED <<born, connections, dialled, settings, shown, stopping>>
      PROVE  DeliverInv'
  <2>1. pushing'[e] \subseteq todo
    <3>1. CASE pushing' = [pushing EXCEPT ![e] = {}]
      BY <3>1 DEF TypeOK
    <3>2. ASSUME NEW next \in todo,
                 pushing' = [pushing EXCEPT ![e] = {s \in todo : s.row > next.row}]
          PROVE  pushing'[e] \subseteq todo
      BY <3>2 DEF TypeOK
    <3> QED BY <1>7, <3>1, <3>2, PushLoopEffect
  <2>2. CurrentPushes'
    BY <1>7, <2>1
  <2>3. ASSUME NEW s \in Rack, NEW d \in Row, OnLine(s, d) PROVE Delivered(s, d)'
    <3>1. dialled[s] \in Conn /\ dialled[s] = connections[d]
      BY <2>3 DEF OnLine, TypeOK
    <3>2. ~Pending(d) => (Pending(d) => Pending(d)')
      OBVIOUS
    \* The row is not pushed to now.
    <3>3. ASSUME down'[dialled[s]] = down[dialled[s]], ~\E t \in todo : t.row = d
          PROVE  Delivered(s, d)'
      <4>1. CASE config_version'[d] \in Unservable
        BY <1>7, <2>3, <3>3, <4>1 DEF Delivered, DeliverInv
      <4>2. CASE config_version'[d] = config_version[d] /\ ~Pending(d)
        BY <1>1, <1>7, <2>3, <3>3, <4>2
      <4> QED BY <1>7, <3>3, <4>1, <4>2
    <3>4. ASSUME down'[dialled[s]] = down[dialled[s]], Pending(d)' PROVE Delivered(s, d)'
      BY <1>7, <2>3, <3>4 DEF Delivered, DeliverInv
    <3>5. CASE (\A t \in todo : connections[t.row] = None) /\ UNCHANGED down
      <4>1. ~\E t \in todo : t.row = d
        BY <3>1, <3>5
      <4> QED BY <3>3, <3>5, <4>1
    <3>6. ASSUME NEW next \in todo,
                 connections[next.row] \in Conn, next.row \in Row,
                 \A t \in todo : t.row < next.row => connections[t.row] = None,
                 pushing' = [pushing EXCEPT ![e] = {t \in todo : t.row > next.row}],
                 down' = [down EXCEPT ![connections[next.row]] = Append(@, ConfigPush(next))],
                 ConfigPush(next) \in FromServer
          PROVE  Delivered(s, d)'
      <4>1. CASE next.row = d
        <5>1. next = Current(d)'
          BY <1>7, <4>1
        <5>2. /\ down'[dialled[s]] = Append(down[dialled[s]], ConfigPush(next))
              /\ down[dialled[s]] \in Seq(FromServer)
          BY <3>1, <3>6, <4>1 DEF TypeOK
        <5>3. LastConfigIs(down'[dialled[s]], next) /\ ~NoConfigIn(down'[dialled[s]])
          BY <3>6, <5>2, AppendConfig
        <5> QED BY <1>7, <5>1, <5>3 DEF Delivered
      <4>2. CASE next.row # d
        <5>1. down'[dialled[s]] = down[dialled[s]]
          <6>1. connections[next.row] # dialled[s]
            BY <1>0, <3>1, <3>6, <4>2, RoutedApart
          <6> QED BY <3>1, <3>6, <6>1 DEF TypeOK
        <5>2. ASSUME NEW t \in todo, t.row = d PROVE Pending(d)'
          <6>1. d \in Nat /\ next.row \in Nat /\ ~(d < next.row)
            BY <3>1, <3>6, <5>2, RowAssumption
          <6>2. t \in {u \in todo : u.row > next.row}
            BY <4>2, <5>2, <6>1
          <6>3. pushing'[e] = {u \in todo : u.row > next.row}
            BY <3>6 DEF TypeOK
          <6> QED BY <5>2, <6>2, <6>3 DEF Pending
        <5> QED BY <3>3, <3>4, <5>1, <5>2
      <4> QED BY <4>1, <4>2
    <3> QED BY <1>7, <3>5, <3>6, PushLoopEffect
  <2>4. \A s \in Rack, d \in Row : OnLine(s, d)' => OnLine(s, d)
    BY <1>7 DEF OnLine
  <2> QED BY <2>2, <2>3, <2>4 DEF DeliverInv
<1>8. ASSUME NEW e \in Editor, NEW affected \in SUBSET Row, SaveEdit(e, affected)
      PROVE  DeliverInv'
  <2> DEFINE todo == {[row |-> d, born |-> born[d], version |-> config_version[d] + 1] :
                        d \in {a \in affected : config_version[a] + 1 \notin Unservable}}
  <2>1. /\ pushing[e] = {} /\ PushLoop(e, todo)
        /\ config_version' = [d \in Row |-> IF d \in affected THEN config_version[d] + 1
                                                              ELSE config_version[d]]
        /\ UNCHANGED <<born, connections, dialled, settings, shown, stopping>>
    BY <1>8 DEF SaveEdit
  <2>2. todo \in SUBSET Snapshot
    BY SaveEditTodo
  <2>3. \A t \in todo : t = Current(t.row)'
    BY <2>1 DEF Current
  <2>4. \A d \in Row : ~Pending(d)
    BY <2>1 DEF Pending
  <2>5. ASSUME NEW d \in Row
        PROVE  \/ \E t \in todo : t.row = d
               \/ config_version'[d] \in Unservable
               \/ config_version'[d] = config_version[d] /\ ~Pending(d)
    <3>1. CASE d \in affected /\ config_version[d] + 1 \notin Unservable
      <4>1. [row |-> d, born |-> born[d], version |-> config_version[d] + 1] \in todo
        BY <3>1
      <4> QED BY <4>1
    <3> QED BY <2>1, <2>4, <3>1
  <2> HIDE DEF todo
  <2> QED BY <1>7, <2>1, <2>2, <2>3, <2>5
<1>9. ASSUME NEW e \in Editor, ResumePushing(e) PROVE DeliverInv'
  <2>1. /\ PushLoop(e, pushing[e]) /\ pushing[e] \in SUBSET Snapshot
        /\ UNCHANGED <<born, config_version, connections, dialled, settings, shown, stopping>>
    BY <1>9 DEF ResumePushing, TypeOK
  <2>2. \A t \in pushing[e] : t = Current(t.row)'
    BY <2>1 DEF DeliverInv, Current
  <2>3. \A d \in Row : (\E t \in pushing[e] : t.row = d) \/ ~Pending(d)
    BY DEF Pending
  <2> QED BY <1>7, <2>1, <2>2, <2>3
<1>10. ASSUME NEW d \in Row, CreateDaemon(d) PROVE DeliverInv'
  <2>1. born[d] = 0
    BY <1>10, BoundAssumption DEF CreateDaemon, TypeOK
  <2>2. /\ \A o \in Row : o # d => born'[o] = born[o] /\ config_version'[o] = config_version[o]
        /\ UNCHANGED <<pushing, connections, dialled, down, settings, shown, stopping>>
    BY <1>10 DEF CreateDaemon, TypeOK
  <2>3. ASSUME NEW e \in Editor, NEW s \in pushing[e] PROVE s.row \in Row /\ s.row # d
    <3>1. s \in Snapshot /\ Stood(s, born)
      BY DEF TypeOK, BornInv, Sent
    <3> QED BY <2>1, <3>1, SnapshotAssumption DEF Stood, Snapshot
  <2>4. CurrentPushes'
    BY <2>2, <2>3 DEF DeliverInv, Current
  <2>5. ASSUME NEW s \in Rack, NEW o \in Row, OnLine(s, o)' PROVE Delivered(s, o)'
    <3>1. OnLine(s, o) /\ o # d
      BY <1>0, <2>1, <2>2, <2>5, RoutedHolds DEF OnLine
    <3>2. Pending(o) => Pending(o)'
      BY <2>2 DEF Pending
    <3> QED BY <1>1, <2>2, <3>1, <3>2
  <2> QED BY <2>4, <2>5 DEF DeliverInv
<1>11. CASE RestartServer
  <2>1. \A s \in Rack, d \in Row : ~OnLine(s, d)'
    BY <1>11 DEF RestartServer, OnLine
  <2>2. UNCHANGED <<born, config_version>> /\ \A e \in Editor : pushing'[e] \subseteq pushing[e]
    BY <1>11 DEF RestartServer
  <2> QED BY <1>2, <2>1, <2>2 DEF DeliverInv
<1>12. ASSUME NEW c \in Conn, NEW d \in Row, HelloWithToken(c, d) PROVE DeliverInv'
  <2>1. /\ socket[c] = "accepted"
        /\ \A o \in Conn : o # c => down'[o] = down[o]
        /\ UNCHANGED <<born, config_version, pushing, connections, dialled, settings, shown,
                       stopping>>
    BY <1>12 DEF HelloWithToken, TypeOK
  <2>2. ASSUME NEW s \in Rack, NEW o \in Row, OnLine(s, o)'
        PROVE  OnLine(s, o) /\ down'[dialled[s]] = down[dialled[s]]
    <3>1. OnLine(s, o)
      BY <2>1, <2>2 DEF OnLine
    <3> QED BY <1>0, <2>1, <3>1, RoutedHolds
  <2> QED BY <1>3, <2>1, <2>2
<1>13. ASSUME NEW c \in Conn, SendFails(c) PROVE DeliverInv'
  <2>1. \A d \in Row : connections'[d] # None => connections'[d] = connections[d]
    BY <1>0, <1>13, UnregisterEffect DEF SendFails, SocketInv
  <2>2. UNCHANGED <<born, config_version, pushing, dialled, down, settings, shown, stopping>>
    BY <1>13 DEF SendFails
  <2> QED BY <1>3, <2>1, <2>2 DEF OnLine
<1>14. ASSUME NEW r \in Rack, NEW c \in Conn, TickOnce(r, c) PROVE DeliverInv'
  <2>1. /\ socket[c] = "free" /\ dialled' = [dialled EXCEPT ![r] = c]
        /\ UNCHANGED <<born, config_version, pushing, connections, down, settings, shown,
                       stopping>>
    BY <1>14 DEF TickOnce
  <2>2. ASSUME NEW s \in Rack, NEW o \in Row, OnLine(s, o)'
        PROVE  OnLine(s, o) /\ dialled'[s] = dialled[s]
    <3>1. connections[o] # c
      BY <1>0, <2>1 DEF SocketInv, Routed
    <3> QED BY <2>1, <2>2, <3>1 DEF OnLine, TypeOK
  <2> QED BY <1>3, <2>1, <2>2
\* Rack r is on no socket from now on.
<1>15. ASSUME NEW r \in Rack, dialled'[r] = None,
              UNCHANGED <<born, config_version, pushing, connections>>,
              \A s \in Rack : s # r =>
                /\ dialled'[s] = dialled[s] /\ settings'[s] = settings[s]
                /\ shown'[s] = shown[s] /\ stopping'[s] = stopping[s]
                /\ dialled[s] # None => down'[dialled[s]] = down[dialled[s]]
       PROVE  DeliverInv'
  BY <1>3, <1>15 DEF OnLine
<1>16. ASSUME NEW r \in Rack, Crash(r) \/ Exit(r) \/ LinkClosed(r) \/ LoseLink(r)
       PROVE  DeliverInv'
  <2>1. LetGo(r) /\ UNCHANGED <<born, config_version, pushing, connections>>
    BY <1>16 DEF Crash, Exit, Halt, LinkClosed, LoseLink
  <2>2. \A s \in Rack : s # r =>
          settings'[s] = settings[s] /\ shown'[s] = shown[s] /\ stopping'[s] = stopping[s]
    BY <1>16 DEF Crash, Exit, Halt, LinkClosed, LoseLink, TypeOK
  <2> QED BY <1>0, <1>15, <2>1, <2>2, LetGoEffect DEF SocketInv
<1>17. ASSUME NEW r \in Rack, Boot(r) PROVE DeliverInv'
  <2>1. /\ dialled[r] = None
        /\ UNCHANGED <<dialled, down, stopping, born, config_version, pushing, connections>>
    BY <1>0, <1>17 DEF Boot, SocketInv, Exclusive
  <2>2. \A s \in Rack : s # r => settings'[s] = settings[s] /\ shown'[s] = shown[s]
    BY <1>17 DEF Boot, TypeOK
  <2> QED BY <1>15, <2>1, <2>2
<1>18. ASSUME NEW r \in Rack, Signal(r) PROVE DeliverInv'
  <2>1. /\ \A s \in Rack : stopping'[s] \in {stopping[s], TRUE}
        /\ UNCHANGED <<born, config_version, pushing, connections, dialled, down, settings,
                       shown>>
    BY <1>18 DEF Signal, TypeOK
  <2> QED BY <1>3, <2>1 DEF OnLine
\* The rack of a message reads it, and no other does.
<1>19. ASSUME NEW r \in Rack, NEW type, Receives(r, type), Take(dialled[r]),
              UNCHANGED <<born, config_version, pushing, connections, dialled>>,
              \A s \in Rack : s # r =>
                /\ settings'[s] = settings[s] /\ shown'[s] = shown[s]
                /\ stopping'[s] = stopping[s],
              \A d \in Row : OnLine(r, d) => Delivered(r, d)'
       PROVE  DeliverInv'
  <2>1. ASSUME NEW s \in Rack, NEW d \in Row, OnLine(s, d)' PROVE Delivered(s, d)'
    <3>1. OnLine(s, d)
      BY <1>19, <2>1 DEF OnLine
    <3>2. CASE s # r
      <4>1. dialled[s] \in Conn /\ dialled[s] # dialled[r]
        BY <1>0, <3>1, <3>2 DEF OnLine, SocketInv, Exclusive, TypeOK
      <4>2. down'[dialled[s]] = down[dialled[s]]
        BY <1>19, <4>1 DEF Take, TypeOK
      <4>3. Pending(d) => Pending(d)'
        BY <1>19 DEF Pending
      <4> QED BY <1>1, <1>19, <3>1, <3>2, <4>2, <4>3
    <3> QED BY <1>19, <3>1, <3>2
  <2> QED BY <1>2, <1>19, <2>1 DEF DeliverInv
\* What is left on its way when a message was read.
<1>20. ASSUME NEW r \in Rack, NEW type, Receives(r, type), Take(dialled[r])
       PROVE  /\ dialled[r] \in Conn /\ down'[dialled[r]] = Tail(down[dialled[r]])
              /\ down[dialled[r]] \in Seq(FromServer) /\ down[dialled[r]] # <<>>
              /\ Head(down[dialled[r]]).type = type
  <2>1. dialled[r] \in Conn /\ down[dialled[r]] # <<>>
    BY <1>20, ReceivesType
  <2> QED BY <1>20, <2>1 DEF Take, TypeOK, Receives
<1>21. ASSUME NEW r \in Rack, Paired(r) PROVE DeliverInv'
  <2>1. /\ Receives(r, "paired") /\ Take(dialled[r])
        /\ UNCHANGED <<born, config_version, pushing, connections, dialled, shown, stopping>>
    BY <1>21 DEF Paired
  <2>2. settings'[r].key # None /\ \A s \in Rack : s # r => settings'[s] = settings[s]
    <3>1. Head(down[dialled[r]]).key \in Credential
      BY <2>1, ReceivesType
    <3> QED BY <1>21, <3>1, CredentialAssumption DEF Paired, TypeOK
  <2>3. ASSUME NEW d \in Row, OnLine(r, d) PROVE Delivered(r, d)'
    <3>1. Delivered(r, d) /\ Current(d)' = Current(d) /\ (Pending(d)' <=> Pending(d))
      BY <2>1, <2>3 DEF DeliverInv, Current, Pending
    <3>2. /\ \A s : LastConfigIs(down[dialled[r]], s) => LastConfigIs(down'[dialled[r]], s)
          /\ NoConfigIn(down'[dialled[r]]) => NoConfigIn(down[dialled[r]])
      BY <1>20, <2>1, TailConfig
    <3> QED BY <2>1, <2>2, <3>1, <3>2 DEF Delivered
  <2> QED BY <1>19, <2>1, <2>2, <2>3
<1>22. ASSUME NEW r \in Rack, Config(r) PROVE DeliverInv'
  <2> DEFINE p == Pushed(r)
  <2>1. /\ Receives(r, "config") /\ Take(dialled[r])
        /\ UNCHANGED <<born, config_version, pushing, connections, dialled, settings>>
    BY <1>22 DEF Config, SkipPush, IgnorePush, RefusePush, ReclockPush, ApplyPush, Considers
  <2>2. /\ down'[dialled[r]] = Tail(down[dialled[r]])
        /\ down[dialled[r]] \in Seq(FromServer) /\ down[dialled[r]] # <<>>
        /\ Head(down[dialled[r]]).type = "config" /\ dialled[r] # None
    BY <1>20, <2>1
  <2>3. settings[r].key # None
    BY <2>2 DEF AckInv, RackInv, RackOn, UnpairedRack
  \* A push that is usable leaves a rack that shows it, or that is stopping.
  <2>4. ASSUME NEW d \in Row, OnLine(r, d), p = Current(d), Usable(config_version[d]),
               ~stopping'[r]
        PROVE  shown'[r] = Current(d)
    <3>1. p.version = config_version[d]
      BY <2>4 DEF Current
    <3>2. CASE SkipPush(r)
      <4>1. version[r] = config_version[d] /\ shown'[r] = shown[r] /\ ~stopping[r]
        BY <2>4, <3>1, <3>2 DEF SkipPush
      <4>2. HoldsOf(r, d)
        BY <1>0, <2>4, RoutedHolds
      <4> QED BY <2>3, <4>1, <4>2, ClaimShows
    <3>3. CASE IgnorePush(r)
      BY <2>4, <3>3 DEF IgnorePush
    <3>4. CASE RefusePush(r)
      <4>1. Refuses(r)
        BY <3>4 DEF RefusePush
      <4>2. p.version \in Unclocked \/ p.version \in Unusable
        BY <4>1 DEF Refuses, Rezones, ZoneOf
      <4> QED BY <2>4, <3>1, <4>2 DEF Usable
    <3>5. CASE ReclockPush(r)
      BY <2>4, <3>5 DEF ReclockPush, TypeOK
    <3>6. CASE ApplyPush(r)
      BY <2>4, <3>6 DEF ApplyPush, TypeOK
    <3> HIDE DEF p
    <3> QED BY <1>22, <3>2, <3>3, <3>4, <3>5, <3>6 DEF Config
  <2>5. ASSUME NEW d \in Row, OnLine(r, d) PROVE Delivered(r, d)'
    <3>1. /\ Delivered(r, d) /\ Current(d)' = Current(d) /\ (Pending(d)' <=> Pending(d))
          /\ config_version'[d] = config_version[d] /\ settings'[r] = settings[r]
          /\ dialled'[r] = dialled[r]
      BY <2>1, <2>5 DEF DeliverInv, Current, Pending
    <3>2. ASSUME LastConfigIs(down[dialled[r]], Current(d))
          PROVE  /\ LastConfigIs(down'[dialled[r]], Current(d))
                 /\ NoConfigIn(down'[dialled[r]]) => p = Current(d)
      BY <2>2, <3>2, TailConfig DEF Pushed
    <3> HIDE DEF p
    <3> QED BY <2>3, <2>4, <2>5, <3>1, <3>2 DEF Delivered
  <2>6. \A s \in Rack : s # r => shown'[s] = shown[s] /\ stopping'[s] = stopping[s]
    <3>1. shown' = shown \/ shown' = [shown EXCEPT ![r] = p]
      BY <1>22, Zenon DEF Config, SkipPush, IgnorePush, RefusePush, ReclockPush, ApplyPush
    <3>2. stopping' = stopping \/ \E b : stopping' = [stopping EXCEPT ![r] = b]
      BY <1>22, Zenon DEF Config, SkipPush, IgnorePush, RefusePush, ReclockPush, ApplyPush
    <3> HIDE DEF p
    <3> QED BY <3>1, <3>2 DEF TypeOK
  <2> QED BY <1>19, <2>1, <2>5, <2>6
<1>23. CASE Interface
  <2>1. CASE \E d \in Row : RotateKey(d) \/ DeleteDaemon(d)
    BY <1>4, <2>1 DEF RotateKey, DeleteDaemon
  <2> QED BY <1>8, <1>9, <1>10, <1>23, <2>1 DEF Interface
<1>24. ASSUME NEW c \in Conn, Socket(c) PROVE DeliverInv'
  <2>1. ASSUME NEW d \in Row, HelloWithKey(c, d) PROVE DeliverInv'
    BY <2>1, <1>6 DEF HelloWithKey
  <2>2. CASE GreetPaired(c)
    <3>1. up[c] # <<>>
      BY <2>2 DEF GreetPaired, HelloKept
    <3> QED BY <2>2, <3>1, <1>6 DEF GreetPaired
  <2>3. CASE HelloRefused(c) \/ CloseSuperseded(c) \/ SeeDisconnect(c) \/ LoseSocket(c)
    BY <2>3, <1>5 DEF HelloRefused, CloseSuperseded, SeeDisconnect, LoseSocket
  <2>4. CASE HandleMessage(c)
    <3>1. UNCHANGED connections
      BY <2>4 DEF HandleMessage, RecordAck
    <3> QED BY <1>4, <2>4, <3>1 DEF HandleMessage
  <2> QED BY <1>12, <1>13, <1>24, <2>1, <2>2, <2>3, <2>4 DEF Socket
<1>25. ASSUME NEW r \in Rack, NEW d \in Row, Connect(r, d) PROVE DeliverInv'
  BY <1>4, <1>25 DEF Connect
<1>26. CASE UNCHANGED vars
  BY <1>4, <1>26 DEF vars
<1> QED
  BY <1>11, <1>14, <1>16, <1>17, <1>18, <1>21, <1>22, <1>23, <1>24, <1>25, <1>26
  DEF Next, Daemon

-----------------------------------------------------------------------------
(* The theorems.                                                           *)

LEMMA ClaimInvInit == Init => OwnInv /\ ClaimInv /\ DeliverInv
<1> SUFFICES ASSUME Init PROVE OwnInv /\ ClaimInv /\ DeliverInv
  OBVIOUS
<1>1. OwnInv /\ ClaimInv
  BY DEF Init, OwnInv, ClaimInv, Claims, NoLink
<1>2. DeliverInv
  BY DEF Init, DeliverInv, OnLine
<1> QED BY <1>1, <1>2

\* Every credential, snapshot and push anywhere was made for a row while the row
\* was there, a row's own credentials bear its id, and what is sent to a rack is
\* of the row of the credential it presented (_hello, edits' pushes by
\* Hub.connections).  This holds however often ids are used again.
THEOREM OwnRowInvariant == Spec => [](BornInv /\ OwnInv)
<1>1. Spec => [](TypeOK /\ HelloKept /\ SocketInv)
  BY AckInvariant, TypeInvariant, PTL DEF AckInv
<1>2. BornInv /\ OwnInv /\ (TypeOK /\ HelloKept /\ SocketInv)
        /\ (TypeOK /\ HelloKept /\ SocketInv)' /\ [Next]_vars
        => (BornInv /\ OwnInv)'
  BY BornStep, OwnStep
<1> QED BY <1>1, <1>2, BornInvInit, ClaimInvInit, PTL DEF Spec

\* A rack's process runs with the key that its link file holds, a cached
\* snapshot beside a key is of that key's row, and a version a rack with a key
\* claims is of a configuration of that row: what _paired's deletion of the cache
\* is for.  A deletion that fails is the hypothesis: the code then keeps the
\* snapshot of the row before.
THEOREM ClaimInvariant ==
  ASSUME "unlink" \notin DiskFaults
  PROVE  Spec => []ClaimInv
<1>1. Spec => [](TypeOK /\ SocketInv /\ OwnInv)
  BY AckInvariant, OwnRowInvariant, TypeInvariant, PTL DEF AckInv
<1>2. ClaimInv /\ (TypeOK /\ SocketInv /\ OwnInv) /\ (TypeOK /\ SocketInv /\ OwnInv)'
        /\ [Next]_vars
        => ClaimInv'
  BY ClaimStep
<1> QED BY <1>1, <1>2, ClaimInvInit, PTL DEF Spec

\* Where ids are not used again, a rack that holds a key and claims a version
\* shows that version of the row its key is for, unless it is stopping to boot
\* from it: the number in a hello is about the row it is compared with (_paired,
\* _push_for).
THEOREM ClaimOwn ==
  ASSUME MaxBorn <= 1, "unlink" \notin DiskFaults
  PROVE  Spec => []ClaimIsOwn
<1>1. ASSUME TypeOK, BornInv, ClaimInv PROVE ClaimIsOwn
  <2> SUFFICES ASSUME NEW r \in Rack, settings[r].key # None, version[r] # None, ~stopping[r]
               PROVE  shown[r] = [row |-> settings[r].key.row,
                                  born |-> settings[r].key.born, version |-> version[r]]
    BY DEF ClaimIsOwn
  <2>1. /\ shown[r] # None /\ shown[r] \in Snapshot
        /\ shown[r].row = settings[r].key.row /\ shown[r].version = version[r]
    BY <1>1 DEF ClaimInv, Claims, TypeOK, MaybeSnapshot
  <2>2. settings[r].key \in Thing /\ shown[r] \in Thing
    BY <1>1 DEF TypeOK, LinkSettings, Thing
  <2>3. shown[r].born = settings[r].key.born
    BY <1>1, <2>1, <2>2, OneBorn DEF BornInv, Kept
  <2> QED BY <2>1, <2>3 DEF Snapshot
<1> QED BY <1>1, TypeInvariant, OwnRowInvariant, ClaimInvariant, PTL

\* A row the interface shows in step, its version being the one its rack has
\* confirmed, has a rack that shows the row's configuration (Hub.record_ack,
\* applied_version in the daemons' API).
THEOREM InStepShown ==
  ASSUME MaxBorn <= 1, "unlink" \notin DiskFaults
  PROVE  Spec => []InStep
<1>1. ASSUME TypeOK, AckInv, BornInv, OwnInv, ClaimInv PROVE InStep
  <2> SUFFICES ASSUME NEW r \in Rack, NEW d \in Row, OnLine(r, d),
                      acked[d] = config_version[d], NoAckInFlight(dialled[r]), ~stopping[r]
               PROVE  shown[r] = Current(d)
    BY DEF InStep
  <2>1. /\ HoldsOf(r, d) /\ dialled[r] # None /\ connections[d] = dialled[r]
        /\ acked[d] # None
    BY <1>1, RoutedHolds, NoneAssumption DEF AckInv, OnLine, TypeOK
  <2>2. RackOn(r, dialled[r]) /\ NoAckIn(up[dialled[r]])
    BY <1>1, <2>1 DEF AckInv, RackInv, NoAckInFlight, NoAckIn
  <2>3. settings[r].key # None /\ version[r] = config_version[d]
    BY <2>1, <2>2 DEF RackOn, UnpairedRack
  <2> QED BY <1>1, <2>1, <2>3, ClaimShows
<1> QED BY <1>1, TypeInvariant, AckInvariant, OwnRowInvariant, ClaimInvariant, PTL

\* No saved edit is lost without the link ending too: an online rack with nothing
\* on its way shows its row's configuration (publish_changes, Hub.push_config,
\* the push at hello).  The hypotheses beside those of ClaimOwn: no two edits'
\* handlers overlap, for two that do may push in the other order.
THEOREM NoEditLost ==
  ASSUME MaxBorn <= 1, "unlink" \notin DiskFaults, \A e, f \in Editor : e = f
  PROVE  Spec => []NothingLost
<1> DEFINE Known == TypeOK /\ HelloKept /\ AckInv /\ BornInv /\ OwnInv /\ ClaimInv
<1>1. Spec => []Known
  BY TypeInvariant, AckInvariant, OwnRowInvariant, ClaimInvariant, PTL
<1>2. Known /\ Known' /\ DeliverInv /\ [Next]_vars => DeliverInv'
  BY DeliverStep
<1>3. ASSUME TypeOK, DeliverInv PROVE NothingLost
  <2> SUFFICES ASSUME NEW r \in Rack, NEW d \in Row, OnLine(r, d), down[dialled[r]] = <<>>,
                      ~stopping[r], \A e \in Editor : \A s \in pushing[e] : s.row # d,
                      Usable(config_version[d])
               PROVE  shown[r] = Current(d)
    BY DEF NothingLost
  <2>1. Delivered(r, d) /\ ~Pending(d) /\ config_version[d] \notin Unservable
    BY <1>3 DEF DeliverInv, Pending, Usable
  <2>2. NoConfigIn(<<>>)
    BY DEF NoConfigIn
  <2> QED BY <2>1, <2>2 DEF Delivered
<1>4. DeliverInv /\ Known => NothingLost
  BY <1>3
<1> HIDE DEF Known
<1> QED BY <1>1, <1>2, <1>4, ClaimInvInit, PTL DEF Spec

=============================================================================
