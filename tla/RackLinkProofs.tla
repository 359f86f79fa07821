--------------------------- MODULE RackLinkProofs ---------------------------
(***************************************************************************)
(* Proofs about RackLink: its types, that a row has one live socket, and   *)
(* that the version shown as applied is the version its rack runs.         *)
(*                                                                         *)
(* TypeOK alone is not inductive: greeting a rack that was just paired     *)
(* reads the hello its handler kept (HelloKept).  OneSocketPerRow needs    *)
(* only that the hub and the sockets agree (SocketInv).  AckTruth needs to *)
(* know what is on its way: the last ack going up a rack's socket is of    *)
(* the version the rack runs, so that once all of them are read the hub    *)
(* knows that version.  The one step that changes what a rack runs without *)
(* an ack is its pairing, which is why RackInv also says that a rack       *)
(* without a key has confirmed nothing; and that holds because no token is *)
(* ever the key of a row (TokensAreNoKeys).                                *)
(***************************************************************************)
EXTENDS RackLink, TLAPS

-----------------------------------------------------------------------------
(* What the operators the actions are built from return.                   *)

LEMMA FreshType ==
  ASSUME TypeOK, NEW d \in Row, NEW b \in Nat
  PROVE  Fresh(d, b) \in Credential
BY DEF TypeOK, Fresh, Credential

LEMMA CurrentType ==
  ASSUME TypeOK, NEW d \in Row
  PROVE  Current(d) \in Snapshot
BY DEF TypeOK, Current, Snapshot

LEMMA ConfigPushType ==
  ASSUME NEW s \in Snapshot
  PROVE  ConfigPush(s) \in FromServer
BY DEF ConfigPush, FromServer

LEMMA AckType ==
  ASSUME NEW v \in Nat
  PROVE  Ack(v) \in FromRack /\ Nack(v) \in FromRack
BY DEF Ack, Nack, FromRack

LEMMA HelloType ==
  ASSUME TypeOK, NEW r \in Rack
  PROVE  Hello(r) \in FromRack
BY DEF TypeOK, Hello, Presented, LinkSettings, FromRack

LEMMA ReackType ==
  ASSUME TypeOK, NEW r \in Rack
  PROVE  Reack(r) \in Seq(FromRack)
<1>1. CASE version[r] = None \/ settings[r].key = None
  BY <1>1 DEF Reack
<1>2. CASE version[r] # None /\ settings[r].key # None
  <2>1. version[r] \in Nat
    BY <1>2 DEF TypeOK, MaybeVersion
  <2> QED BY <1>2, <2>1, AckType DEF Reack
<1> QED BY <1>1, <1>2

\* A queue typed, and one of its channels replaced.
LEMMA ChannelType ==
  ASSUME NEW Message, NEW q \in [Conn -> Seq(Message)], NEW c \in Conn
  PROVE  /\ [q EXCEPT ![c] = <<>>] \in [Conn -> Seq(Message)]
         /\ q[c] # <<>> => /\ Head(q[c]) \in Message
                           /\ Tail(q[c]) \in Seq(Message)
                           /\ [q EXCEPT ![c] = Tail(@)] \in [Conn -> Seq(Message)]
         /\ \A m \in Message :
              [q EXCEPT ![c] = Append(@, m)] \in [Conn -> Seq(Message)]
OBVIOUS

LEMMA ReceivesType ==
  ASSUME TypeOK, NEW r \in Rack, NEW type, Receives(r, type)
  PROVE  /\ dialled[r] \in Conn
         /\ down[dialled[r]] # <<>>
         /\ Head(down[dialled[r]]) \in FromServer
         /\ type = "config" => Pushed(r) \in Snapshot
         /\ type = "paired" => Head(down[dialled[r]]).key \in Credential
<1>1. dialled[r] \in Conn /\ down[dialled[r]] # <<>>
  BY DEF TypeOK, Receives
<1>2. Head(down[dialled[r]]) \in FromServer
  BY <1>1, ChannelType DEF TypeOK
<1>3. Head(down[dialled[r]]).type = type
  BY DEF Receives
<1> QED BY <1>1, <1>2, <1>3 DEF FromServer, Pushed

LEMMA TakeType ==
  ASSUME TypeOK, NEW c \in Conn, down[c] # <<>>, Take(c)
  PROVE  down' \in [Conn -> Seq(FromServer)]
BY ChannelType DEF TypeOK, Take

LEMMA AnswerType ==
  ASSUME TypeOK, NEW c \in Conn, NEW m \in FromRack, Answer(c, m)
  PROVE  up' \in [Conn -> Seq(FromRack)]
BY ChannelType DEF TypeOK, Answer

LEMMA UnregisterType ==
  ASSUME TypeOK, NEW c \in Conn, Unregister(c)
  PROVE  /\ connections' \in [Row -> Conn \cup {None}]
         /\ acked' \in [Row -> MaybeVersion]
BY DEF TypeOK, Unregister, hub, MaybeVersion

LEMMA HangUpType ==
  ASSUME TypeOK, NEW c \in Conn, HangUp(c)
  PROVE  /\ connections' \in [Row -> Conn \cup {None}]
         /\ acked' \in [Row -> MaybeVersion]
         /\ socket' \in [Conn -> {"free", "accepted", "pairing", "serving", "closed"}]
         /\ session' \in [Conn -> Row \cup {None}]
         /\ closed' \in [Conn -> BOOLEAN]
         /\ up' \in [Conn -> Seq(FromRack)]
         /\ down' \in [Conn -> Seq(FromServer)]
<1>1. Unregister(c)
  BY DEF HangUp
<1>2. /\ socket' \in [Conn -> {"free", "accepted", "pairing", "serving", "closed"}]
      /\ session' \in [Conn -> Row \cup {None}]
      /\ closed' \in [Conn -> BOOLEAN]
  BY DEF HangUp, TypeOK
<1>3. up' \in [Conn -> Seq(FromRack)] /\ down' \in [Conn -> Seq(FromServer)]
  BY DEF HangUp, TypeOK
<1> QED BY <1>1, <1>2, <1>3, UnregisterType

LEMMA RegisterType ==
  ASSUME TypeOK, NEW c \in Conn, NEW d \in Row, Register(c, d)
  PROVE  /\ connections' \in [Row -> Conn \cup {None}]
         /\ acked' \in [Row -> MaybeVersion]
         /\ closed' \in [Conn -> BOOLEAN]
<1>1. connections' \in [Row -> Conn \cup {None}] /\ acked' \in [Row -> MaybeVersion]
  BY DEF Register, TypeOK, MaybeVersion
<1>2. \A o \in Conn : (closed[o] \/ o = connections[d]) \in BOOLEAN
  OBVIOUS
<1>3. closed' \in [Conn -> BOOLEAN]
  BY <1>2, Zenon DEF Register
<1> QED BY <1>1, <1>3

LEMMA GreetType ==
  ASSUME TypeOK, NEW c \in Conn, NEW d \in Row \cup {None}, NEW pairing,
         up[c] # <<>>, Greet(c, d, pairing)
  PROVE  /\ connections' \in [Row -> Conn \cup {None}]
         /\ acked' \in [Row -> MaybeVersion]
         /\ socket' \in [Conn -> {"free", "accepted", "pairing", "serving", "closed"}]
         /\ session' \in [Conn -> Row \cup {None}]
         /\ closed' \in [Conn -> BOOLEAN]
         /\ up' \in [Conn -> Seq(FromRack)]
         /\ down' \in [Conn -> Seq(FromServer)]
<1> DEFINE push == PushFor(d, Head(up[c]).version, pairing)
<1>1. CASE d \notin rows \/ (push # None /\ config_version[d] \in Unservable)
  BY <1>1, HangUpType DEF Greet
<1>2. CASE ~(d \notin rows \/ (push # None /\ config_version[d] \in Unservable))
  <2>1. d \in Row
    BY <1>2 DEF TypeOK
  <2>2. push # None => ConfigPush(push) \in FromServer
    BY <2>1, CurrentType, ConfigPushType DEF PushFor
  <2>3. Register(c, d) /\ up' = [up EXCEPT ![c] = Tail(@)]
    BY <1>2 DEF Greet
  <2>4. /\ socket' \in [Conn -> {"free", "accepted", "pairing", "serving", "closed"}]
        /\ session' \in [Conn -> Row \cup {None}]
    BY <1>2, <2>1 DEF Greet, TypeOK
  <2>5. up' \in [Conn -> Seq(FromRack)]
    BY <2>3, ChannelType DEF TypeOK
  <2>6. down' \in [Conn -> Seq(FromServer)]
    <3>1. down' = IF push = None THEN down
                    ELSE [down EXCEPT ![c] = Append(@, ConfigPush(push))]
      BY <1>2 DEF Greet
    <3> HIDE DEF push
    <3> QED BY <3>1, <2>2, ChannelType DEF TypeOK
  <2> QED BY <2>1, <2>3, <2>4, <2>5, <2>6, RegisterType
<1> QED BY <1>1, <1>2

LEMMA PushLoopType ==
  ASSUME TypeOK, NEW e \in Editor, NEW todo \in SUBSET Snapshot,
         PushLoop(e, todo)
  PROVE  /\ pushing' \in [Editor -> SUBSET Snapshot]
         /\ down' \in [Conn -> Seq(FromServer)]
<1> DEFINE online == {s \in todo : connections[s.row] # None}
<1>1. CASE online = {} /\ pushing' = [pushing EXCEPT ![e] = {}] /\ UNCHANGED down
  BY <1>1 DEF TypeOK
<1>2. ASSUME NEW next \in online,
             down' = [down EXCEPT ![connections[next.row]] =
                         Append(@, ConfigPush(next))],
             pushing' = [pushing EXCEPT ![e] = {s \in todo : s.row > next.row}]
      PROVE  /\ pushing' \in [Editor -> SUBSET Snapshot]
             /\ down' \in [Conn -> Seq(FromServer)]
  <2>1. next \in Snapshot /\ next.row \in Row
    BY DEF Snapshot
  <2>2. connections[next.row] \in Conn
    BY <2>1 DEF TypeOK
  <2>3. down' \in [Conn -> Seq(FromServer)]
    BY <1>2, <2>1, <2>2, ConfigPushType, ChannelType DEF TypeOK
  <2>4. pushing' \in [Editor -> SUBSET Snapshot]
    BY <1>2 DEF TypeOK
  <2> QED BY <2>3, <2>4
<1> QED BY <1>1, <1>2 DEF PushLoop

LEMMA LetGoType ==
  ASSUME TypeOK, NEW r \in Rack, LetGo(r)
  PROVE  /\ dialled' \in [Rack -> Conn \cup {None}]
         /\ socket' \in [Conn -> {"free", "accepted", "pairing", "serving", "closed"}]
         /\ down' \in [Conn -> Seq(FromServer)]
<1>1. dialled' \in [Rack -> Conn \cup {None}]
  BY DEF LetGo, TypeOK
<1>2. socket' \in [Conn -> {"free", "accepted", "pairing", "serving", "closed"}]
  BY DEF LetGo, TypeOK
<1>3. down \in [Conn -> Seq(FromServer)] /\ dialled[r] \in Conn \cup {None}
  BY DEF TypeOK
<1>4. down' = down \/ (dialled[r] \in Conn /\ down' = [down EXCEPT ![dialled[r]] = <<>>])
  BY <1>3 DEF LetGo
<1>5. CASE down' = down
  BY <1>1, <1>2, <1>3, <1>5
<1>6. CASE dialled[r] \in Conn /\ down' = [down EXCEPT ![dialled[r]] = <<>>]
  <2>1. down' \in [Conn -> Seq(FromServer)]
    BY <1>3, <1>6
  <2> QED BY <1>1, <1>2, <2>1
<1> QED BY <1>4, <1>5, <1>6

LEMMA HaltType ==
  ASSUME TypeOK, NEW r \in Rack, Halt(r)
  PROVE  /\ dialled' \in [Rack -> Conn \cup {None}]
         /\ socket' \in [Conn -> {"free", "accepted", "pairing", "serving", "closed"}]
         /\ down' \in [Conn -> Seq(FromServer)]
         /\ running' \in [Rack -> BOOLEAN]
         /\ settings' \in [Rack -> LinkSettings]
         /\ version' \in [Rack -> MaybeVersion]
         /\ shown' \in [Rack -> MaybeSnapshot]
         /\ zone' \in [Rack -> Zone]
         /\ stopping' \in [Rack -> BOOLEAN]
<1>1. LetGo(r)
  BY DEF Halt
<1>2. NoLink \in LinkSettings /\ None \in MaybeVersion /\ None \in MaybeSnapshot
  BY DEF NoLink, LinkSettings, MaybeCredential, MaybeVersion, MaybeSnapshot
<1>3. /\ running' \in [Rack -> BOOLEAN]
      /\ settings' \in [Rack -> LinkSettings]
      /\ version' \in [Rack -> MaybeVersion]
      /\ shown' \in [Rack -> MaybeSnapshot]
      /\ zone' \in [Rack -> Zone]
      /\ stopping' \in [Rack -> BOOLEAN]
  BY <1>2 DEF Halt, TypeOK, Zone
<1> QED BY <1>1, <1>3, LetGoType

-----------------------------------------------------------------------------
(* Type correctness.                                                       *)

\* A handler that awaits the send of a key still holds the hello it answers.
HelloKept == \A c \in Conn : socket[c] = "pairing" => up[c] # <<>>

LEMMA TypeInvariant == Spec => [](TypeOK /\ HelloKept)
<1>1. Init => TypeOK
  <2> SUFFICES ASSUME Init PROVE TypeOK
    OBVIOUS
  <2>1. /\ None \in MaybeCredential /\ NoLink \in LinkSettings
        /\ None \in MaybeVersion /\ None \in MaybeSnapshot
    BY DEF NoLink, LinkSettings, MaybeCredential, MaybeVersion, MaybeSnapshot
  <2>2. /\ rows \subseteq Row
        /\ born \in [Row -> Nat]
        /\ token \in [Row -> MaybeCredential]
        /\ key \in [Row -> MaybeCredential]
        /\ config_version \in [Row -> Nat]
        /\ minted \in Nat
        /\ faults \in 0..MaxFaults
    BY <2>1, BoundAssumption DEF Init
  <2>3. /\ pushing \in [Editor -> SUBSET Snapshot]
        /\ connections \in [Row -> Conn \cup {None}]
        /\ acked \in [Row -> MaybeVersion]
        /\ socket \in [Conn -> {"free", "accepted", "pairing", "serving", "closed"}]
        /\ session \in [Conn -> Row \cup {None}]
        /\ closed \in [Conn -> BOOLEAN]
    BY <2>1 DEF Init
  <2>4. up \in [Conn -> Seq(FromRack)] /\ down \in [Conn -> Seq(FromServer)]
    BY DEF Init
  <2>5. /\ link \in [Rack -> LinkSettings]
        /\ cache \in [Rack -> MaybeSnapshot]
        /\ running \in [Rack -> BOOLEAN]
        /\ settings \in [Rack -> LinkSettings]
        /\ version \in [Rack -> MaybeVersion]
        /\ shown \in [Rack -> MaybeSnapshot]
        /\ zone \in [Rack -> Zone]
        /\ stopping \in [Rack -> BOOLEAN]
        /\ dialled \in [Rack -> Conn \cup {None}]
    BY <2>1 DEF Init, Zone
  <2> QED BY <2>2, <2>3, <2>4, <2>5 DEF TypeOK
<1>2. TypeOK /\ HelloKept /\ [Next]_vars => TypeOK'
  <2> SUFFICES ASSUME TypeOK, HelloKept, [Next]_vars PROVE TypeOK'
    OBVIOUS
  <2> USE DEF database, hub, sockets, disk, process
  <2>1. ASSUME NEW d \in Row, CreateDaemon(d) PROVE TypeOK'
    <3>1. Fresh(d, born[d] + 1) \in Credential
      BY FreshType DEF TypeOK
    <3> QED BY <2>1, <3>1 DEF CreateDaemon, TypeOK, MaybeCredential
  <2>2. ASSUME NEW d \in Row, RotateKey(d) PROVE TypeOK'
    <3>1. Fresh(d, born[d]) \in Credential
      BY FreshType DEF TypeOK
    <3> QED BY <2>2, <3>1 DEF RotateKey, TypeOK, MaybeCredential
  <2>3. ASSUME NEW d \in Row, DeleteDaemon(d) PROVE TypeOK'
    BY <2>3 DEF DeleteDaemon, TypeOK, MaybeCredential
  <2>4. ASSUME NEW e \in Editor, NEW affected \in SUBSET Row, SaveEdit(e, affected)
        PROVE TypeOK'
    <3> DEFINE todo == {[row |-> d, born |-> born[d], version |-> config_version[d] + 1] :
                          d \in {a \in affected : config_version[a] + 1 \notin Unservable}}
    <3>1. todo \in SUBSET Snapshot
      BY DEF Snapshot, TypeOK
    <3>2. PushLoop(e, todo)
      BY <2>4 DEF SaveEdit
    <3>3. /\ pushing' \in [Editor -> SUBSET Snapshot]
          /\ down' \in [Conn -> Seq(FromServer)]
      BY <3>1, <3>2, PushLoopType
    <3>4. config_version' \in [Row -> Nat]
      BY <2>4 DEF SaveEdit, TypeOK
    <3> QED BY <2>4, <3>3, <3>4 DEF SaveEdit, TypeOK
  <2>5. ASSUME NEW e \in Editor, ResumePushing(e) PROVE TypeOK'
    <3>1. pushing[e] \in SUBSET Snapshot /\ PushLoop(e, pushing[e])
      BY <2>5 DEF ResumePushing, TypeOK
    <3>2. /\ pushing' \in [Editor -> SUBSET Snapshot]
          /\ down' \in [Conn -> Seq(FromServer)]
      BY <3>1, PushLoopType
    <3> QED BY <2>5, <3>2 DEF ResumePushing, TypeOK
  <2>6. ASSUME RestartServer PROVE TypeOK'
    <3>1. /\ pushing' \in [Editor -> SUBSET Snapshot]
          /\ connections' \in [Row -> Conn \cup {None}]
          /\ acked' \in [Row -> MaybeVersion]
          /\ socket' \in [Conn -> {"free", "accepted", "pairing", "serving", "closed"}]
          /\ session' \in [Conn -> Row \cup {None}]
          /\ closed' \in [Conn -> BOOLEAN]
      BY <2>6 DEF RestartServer, MaybeVersion
    <3>2. up' \in [Conn -> Seq(FromRack)] /\ down' \in [Conn -> Seq(FromServer)]
      BY <2>6 DEF RestartServer, TypeOK
    <3>3. faults' \in 0..MaxFaults
      BY <2>6, BoundAssumption DEF RestartServer, Spend, TypeOK
    <3> QED BY <2>6, <3>1, <3>2, <3>3 DEF RestartServer, TypeOK
  <2>7. ASSUME NEW c \in Conn, SendFails(c) PROVE TypeOK'
    <3>1. /\ connections' \in [Row -> Conn \cup {None}]
          /\ acked' \in [Row -> MaybeVersion]
      BY <2>7, UnregisterType DEF SendFails
    <3> QED BY <2>7, <3>1, BoundAssumption DEF SendFails, Spend, TypeOK
  <2>8. ASSUME NEW c \in Conn, NEW d \in Row, HelloWithKey(c, d) PROVE TypeOK'
    BY <2>8, GreetType DEF HelloWithKey, TypeOK
  <2>9. ASSUME NEW c \in Conn, NEW d \in Row, HelloWithToken(c, d) PROVE TypeOK'
    <3>1. Fresh(d, born[d]) \in Credential
      BY FreshType DEF TypeOK
    <3>2. /\ token' \in [Row -> MaybeCredential]
          /\ key' \in [Row -> MaybeCredential]
          /\ minted' \in Nat
          /\ socket' \in [Conn -> {"free", "accepted", "pairing", "serving", "closed"}]
          /\ session' \in [Conn -> Row \cup {None}]
      BY <2>9, <3>1 DEF HelloWithToken, TypeOK, MaybeCredential
    <3>3. PairedWith(Fresh(d, born[d])) \in FromServer
      BY <3>1 DEF PairedWith, FromServer
    <3>4. down' \in [Conn -> Seq(FromServer)]
      BY <2>9, <3>3 DEF HelloWithToken, TypeOK
    <3> QED BY <2>9, <3>2, <3>4 DEF HelloWithToken, TypeOK
  <2>10. ASSUME NEW c \in Conn, GreetPaired(c) PROVE TypeOK'
    <3>1. session[c] \in Row \cup {None} /\ Greet(c, session[c], TRUE)
      BY <2>10 DEF GreetPaired, TypeOK
    <3>2. CASE session[c] \notin rows
      <4>1. HangUp(c)
        BY <3>1, <3>2 DEF Greet
      <4> QED BY <2>10, <4>1, HangUpType DEF GreetPaired, TypeOK
    <3>3. CASE session[c] \in rows
      <4>1. up[c] # <<>>
        BY <2>10 DEF GreetPaired, HelloKept
      <4> QED BY <2>10, <3>1, <4>1, GreetType DEF GreetPaired, TypeOK
    <3> QED BY <3>2, <3>3
  <2>11. ASSUME NEW c \in Conn, HelloRefused(c) PROVE TypeOK'
    BY <2>11, HangUpType DEF HelloRefused, TypeOK
  <2>12. ASSUME NEW c \in Conn, HandleMessage(c) PROVE TypeOK'
    <3>1. up' \in [Conn -> Seq(FromRack)] /\ Head(up[c]) \in FromRack
      BY <2>12, ChannelType DEF HandleMessage, TypeOK
    <3>2. Head(up[c]).type = "ack" => Head(up[c]).version \in MaybeVersion
      BY <3>1 DEF FromRack, MaybeVersion
    <3>3. /\ connections' \in [Row -> Conn \cup {None}]
          /\ acked' \in [Row -> MaybeVersion]
      BY <2>12, <3>2 DEF HandleMessage, RecordAck, TypeOK
    <3> QED BY <2>12, <3>1, <3>3 DEF HandleMessage, TypeOK
  <2>13. ASSUME NEW c \in Conn, CloseSuperseded(c) PROVE TypeOK'
    BY <2>13, HangUpType DEF CloseSuperseded, TypeOK
  <2>14. ASSUME NEW c \in Conn, SeeDisconnect(c) PROVE TypeOK'
    BY <2>14, HangUpType DEF SeeDisconnect, TypeOK
  <2>15. ASSUME NEW c \in Conn, LoseSocket(c) PROVE TypeOK'
    <3>1. faults' \in 0..MaxFaults
      BY <2>15, BoundAssumption DEF LoseSocket, Spend, TypeOK
    <3>2. HangUp(c) /\ UNCHANGED <<database, pushing, disk, process>>
      BY <2>15 DEF LoseSocket
    <3> QED BY <3>1, <3>2, HangUpType DEF TypeOK
  <2>16. ASSUME NEW r \in Rack, NEW d \in Row, Connect(r, d) PROVE TypeOK'
    <3>1. [token |-> token[d], key |-> None] \in LinkSettings
      BY DEF TypeOK, LinkSettings, MaybeCredential
    <3>2. link' \in [Rack -> LinkSettings] /\ cache' \in [Rack -> MaybeSnapshot]
      BY <2>16, <3>1 DEF Connect, TypeOK, MaybeSnapshot
    <3>3. faults' \in 0..MaxFaults
      BY <2>16, BoundAssumption DEF Connect, Spend, Failed, TypeOK
    <3> QED BY <2>16, <3>2, <3>3 DEF Connect, TypeOK
  <2>17. ASSUME NEW r \in Rack, Boot(r) PROVE TypeOK'
    <3> DEFINE booted == IF cache[r] # None /\ cache[r].version \notin Unusable
                           THEN cache[r] ELSE None
    <3>1. booted \in MaybeSnapshot
      BY DEF TypeOK, MaybeSnapshot
    <3>2. (IF booted = None THEN None ELSE booted.version) \in MaybeVersion
      BY <3>1 DEF MaybeSnapshot, Snapshot, MaybeVersion
    <3>3. ZoneOf(booted) \in Zone
      BY DEF ZoneOf, Zone
    <3> HIDE DEF booted
    <3>4. /\ running' \in [Rack -> BOOLEAN]
          /\ settings' \in [Rack -> LinkSettings]
          /\ version' \in [Rack -> MaybeVersion]
          /\ shown' \in [Rack -> MaybeSnapshot]
          /\ zone' \in [Rack -> Zone]
      BY <2>17, <3>1, <3>2, <3>3 DEF Boot, booted, TypeOK
    <3> QED BY <2>17, <3>4 DEF Boot, TypeOK
  <2>18. ASSUME NEW r \in Rack, Crash(r) PROVE TypeOK'
    BY <2>18, HaltType, BoundAssumption DEF Crash, Spend, TypeOK
  <2>19. ASSUME NEW r \in Rack, Signal(r) PROVE TypeOK'
    BY <2>19, BoundAssumption DEF Signal, Spend, TypeOK
  <2>20. ASSUME NEW r \in Rack, Exit(r) PROVE TypeOK'
    BY <2>20, HaltType DEF Exit, TypeOK
  <2>21. ASSUME NEW r \in Rack, NEW c \in Conn, TickOnce(r, c) PROVE TypeOK'
    <3>1. <<Hello(r)>> \o Reack(r) \in Seq(FromRack)
      BY HelloType, ReackType
    <3>2. up' \in [Conn -> Seq(FromRack)]
      BY <2>21, <3>1 DEF TickOnce, TypeOK
    <3> QED BY <2>21, <3>2 DEF TickOnce, TypeOK
  <2>22. ASSUME NEW r \in Rack, LinkClosed(r) PROVE TypeOK'
    BY <2>22, LetGoType DEF LinkClosed, TypeOK
  <2>23. ASSUME NEW r \in Rack, LoseLink(r) PROVE TypeOK'
    BY <2>23, LetGoType, BoundAssumption DEF LoseLink, Spend, TypeOK
  <2>24. ASSUME NEW r \in Rack, SkipPush(r) PROVE TypeOK'
    <3>1. up' \in [Conn -> Seq(FromRack)] /\ down' \in [Conn -> Seq(FromServer)]
      BY <2>24, ReceivesType, TakeType, AnswerType, AckType DEF SkipPush, Snapshot
    <3> QED BY <2>24, <3>1 DEF SkipPush, TypeOK
  <2>25. ASSUME NEW r \in Rack, IgnorePush(r) PROVE TypeOK'
    <3>1. down' \in [Conn -> Seq(FromServer)]
      BY <2>25, ReceivesType, TakeType DEF IgnorePush
    <3> QED BY <2>25, <3>1 DEF IgnorePush, TypeOK
  <2>26. ASSUME NEW r \in Rack, RefusePush(r) PROVE TypeOK'
    <3>1. up' \in [Conn -> Seq(FromRack)] /\ down' \in [Conn -> Seq(FromServer)]
      BY <2>26, ReceivesType, TakeType, AnswerType, AckType
      DEF RefusePush, Considers, Snapshot
    <3> QED BY <2>26, <3>1 DEF RefusePush, TypeOK
  <2>27. ASSUME NEW r \in Rack, ReclockPush(r) \/ ApplyPush(r) PROVE TypeOK'
    <3>1. /\ Receives(r, "config") /\ Take(dialled[r])
          /\ \/ Answer(dialled[r], Ack(Pushed(r).version))
             \/ Answer(dialled[r], Nack(Pushed(r).version))
      BY <2>27 DEF ReclockPush, ApplyPush, Considers
    <3>2. Pushed(r) \in Snapshot /\ Pushed(r).version \in Nat /\ dialled[r] \in Conn
      BY <3>1, ReceivesType DEF Snapshot
    <3>3. up' \in [Conn -> Seq(FromRack)] /\ down' \in [Conn -> Seq(FromServer)]
      BY <3>1, <3>2, ReceivesType, TakeType, AnswerType, AckType
    <3>4. /\ cache' \in [Rack -> MaybeSnapshot]
          /\ version' \in [Rack -> MaybeVersion]
      <4>1. cache' = cache \/ cache' = [cache EXCEPT ![r] = Pushed(r)]
        BY <2>27, Zenon DEF ReclockPush, ApplyPush, WriteCache
      <4>2. version' = version \/ version' = [version EXCEPT ![r] = Pushed(r).version]
        BY <2>27, Zenon DEF ReclockPush, ApplyPush
      <4>3. Pushed(r) \in MaybeSnapshot /\ Pushed(r).version \in MaybeVersion
        BY <3>2 DEF MaybeSnapshot, MaybeVersion
      <4>4. cache \in [Rack -> MaybeSnapshot] /\ version \in [Rack -> MaybeVersion]
        BY DEF TypeOK
      <4> QED BY <4>1, <4>2, <4>3, <4>4
    <3>5. shown' \in [Rack -> MaybeSnapshot] /\ stopping' \in [Rack -> BOOLEAN]
      <4>1. shown' = shown \/ shown' = [shown EXCEPT ![r] = Pushed(r)]
        BY <2>27 DEF ReclockPush, ApplyPush
      <4>2. \E b \in BOOLEAN : stopping' = [stopping EXCEPT ![r] = b]
        BY <2>27 DEF ReclockPush, ApplyPush
      <4>3. Pushed(r) \in MaybeSnapshot
        BY <3>2 DEF MaybeSnapshot
      <4>4. shown \in [Rack -> MaybeSnapshot] /\ stopping \in [Rack -> BOOLEAN]
        BY DEF TypeOK
      <4> QED BY <4>1, <4>2, <4>3, <4>4
    <3>6. faults' \in 0..MaxFaults
      BY <2>27, BoundAssumption DEF ReclockPush, ApplyPush, Spend, Failed, TypeOK
    <3> QED BY <2>27, <3>3, <3>4, <3>5, <3>6 DEF ReclockPush, ApplyPush, TypeOK
  <2>28. ASSUME NEW r \in Rack, Paired(r) PROVE TypeOK'
    <3> DEFINE k == Head(down[dialled[r]]).key
    <3>1. Receives(r, "paired") /\ Take(dialled[r])
      BY <2>28 DEF Paired
    <3>2. k \in Credential /\ dialled[r] \in Conn
      BY <3>1, ReceivesType
    <3>3. down' \in [Conn -> Seq(FromServer)]
      BY <3>1, ReceivesType, TakeType
    <3>4. [token |-> None, key |-> k] \in LinkSettings
      BY <3>2 DEF LinkSettings, MaybeCredential
    <3> HIDE DEF k
    <3>5. CASE settings[r].key # None
      BY <2>28, <3>3, <3>5 DEF Paired, TypeOK
    <3>6. CASE settings[r].key = None
      <4>1. /\ settings' \in [Rack -> LinkSettings]
            /\ version' \in [Rack -> MaybeVersion]
            /\ settings'[r] = [token |-> None, key |-> k]
        BY <2>28, <3>4, <3>6 DEF Paired, k, TypeOK, MaybeVersion
      <4>2. link' \in [Rack -> LinkSettings] /\ cache' \in [Rack -> MaybeSnapshot]
        <5>1. link' = link \/ link' = [link EXCEPT ![r] = settings'[r]]
          BY <2>28, <3>6, Zenon DEF Paired
        <5>2. cache' = cache \/ cache' = [cache EXCEPT ![r] = None]
          BY <2>28, <3>6, Zenon DEF Paired
        <5>3. /\ link \in [Rack -> LinkSettings] /\ cache \in [Rack -> MaybeSnapshot]
              /\ settings'[r] \in LinkSettings /\ None \in MaybeSnapshot
          BY <3>4, <4>1 DEF TypeOK, MaybeSnapshot
        <5> QED BY <5>1, <5>2, <5>3
      <4>3. faults' \in 0..MaxFaults
        BY <2>28, <3>6, BoundAssumption DEF Paired, Spend, Failed, TypeOK
      <4> QED BY <2>28, <3>3, <4>1, <4>2, <4>3 DEF Paired, TypeOK
    <3> QED BY <3>5, <3>6
  <2>29. CASE UNCHANGED vars
    BY <2>29 DEF vars, TypeOK
  <2> QED
    BY <2>1, <2>2, <2>3, <2>4, <2>5, <2>6, <2>7, <2>8, <2>9, <2>10, <2>11, <2>12,
       <2>13, <2>14, <2>15, <2>16, <2>17, <2>18, <2>19, <2>20, <2>21, <2>22, <2>23,
       <2>24, <2>25, <2>26, <2>27, <2>28, <2>29
    DEF Next, Interface, Socket, Daemon, Config
<1>3. TypeOK /\ HelloKept /\ [Next]_vars => HelloKept'
  <2> SUFFICES ASSUME TypeOK, HelloKept, [Next]_vars PROVE HelloKept'
    OBVIOUS
  <2> USE DEF HelloKept, sockets
  <2>1. ASSUME NEW c \in Conn, HangUp(c) PROVE HelloKept'
    BY <2>1 DEF HangUp, TypeOK
  <2>2. ASSUME NEW c \in Conn, NEW d, NEW pairing, Greet(c, d, pairing)
        PROVE  HelloKept'
    BY <2>1, <2>2 DEF Greet, TypeOK
  <2>3. ASSUME NEW r \in Rack, NEW m, dialled[r] # None, Answer(dialled[r], m),
               UNCHANGED socket
        PROVE  HelloKept'
    <3>1. up[dialled[r]] \in Seq(FromRack)
      BY <2>3 DEF TypeOK
    <3>2. Append(up[dialled[r]], m) # <<>>
      <4>1. up[dialled[r]] \in Seq(FromRack \cup {m})
        BY <3>1
      <4> QED BY <4>1
    <3> QED BY <2>3, <3>2 DEF Answer, TypeOK
  <2>4. ASSUME NEW r \in Rack, LetGo(r), UNCHANGED up PROVE HelloKept'
    BY <2>4 DEF LetGo, TypeOK
  <2>5. ASSUME UNCHANGED <<socket, up>> PROVE HelloKept'
    BY <2>5
  <2>6. CASE Interface
    BY <2>5, <2>6 DEF Interface, CreateDaemon, RotateKey, DeleteDaemon, SaveEdit,
                      ResumePushing
  <2>7. CASE RestartServer
    BY <2>7 DEF RestartServer
  <2>8. ASSUME NEW c \in Conn, Socket(c) PROVE HelloKept'
    <3>1. ASSUME NEW d \in Row, HelloWithToken(c, d) PROVE HelloKept'
      BY <3>1 DEF HelloWithToken, TypeOK
    <3>2. CASE HandleMessage(c)
      BY <3>2 DEF HandleMessage, TypeOK
    <3>3. CASE SendFails(c)
      BY <2>5, <3>3 DEF SendFails
    <3>4. CASE GreetPaired(c) \/ \E d \in Row : HelloWithKey(c, d)
      BY <2>2, <3>4 DEF GreetPaired, HelloWithKey
    <3>5. CASE HelloRefused(c) \/ CloseSuperseded(c) \/ SeeDisconnect(c) \/ LoseSocket(c)
      BY <2>1, <3>5 DEF HelloRefused, CloseSuperseded, SeeDisconnect, LoseSocket
    <3> QED BY <2>8, <3>1, <3>2, <3>3, <3>4, <3>5 DEF Socket
  <2>9. ASSUME NEW r \in Rack, Daemon(r) PROVE HelloKept'
    <3>1. ASSUME NEW c \in Conn, TickOnce(r, c) PROVE HelloKept'
      BY <3>1 DEF TickOnce, TypeOK
    <3>2. CASE Boot(r) \/ Signal(r) \/ IgnorePush(r) \/ Paired(r) \/ \E d \in Row : Connect(r, d)
      BY <2>5, <3>2 DEF Boot, Signal, IgnorePush, Paired, Connect
    <3>3. CASE Crash(r) \/ Exit(r) \/ LinkClosed(r) \/ LoseLink(r)
      BY <2>4, <3>3 DEF Crash, Exit, Halt, LinkClosed, LoseLink
    <3>4. CASE SkipPush(r) \/ RefusePush(r) \/ ReclockPush(r) \/ ApplyPush(r)
      BY <2>3, <3>4 DEF SkipPush, RefusePush, ReclockPush, ApplyPush, Considers, Receives
    <3> QED BY <2>9, <3>1, <3>2, <3>3, <3>4 DEF Daemon, Config
  <2>10. CASE UNCHANGED vars
    BY <2>5, <2>10 DEF vars
  <2> QED BY <2>6, <2>7, <2>8, <2>9, <2>10 DEF Next
<1>4. Init => HelloKept
  BY DEF Init, HelloKept
<1> QED BY <1>1, <1>2, <1>3, <1>4, PTL DEF Spec

\* Every variable keeps the shape the code gives it, in every behaviour.
THEOREM TypeCorrect == Spec => []TypeOK
BY TypeInvariant, PTL

-----------------------------------------------------------------------------
(* The inductive invariant behind AckTruth and OneSocketPerRow.            *)

\* The hub routes a row to a socket that is served for that row.
Routed ==
  \A d \in Row : connections[d] # None =>
    socket[connections[d]] = "serving" /\ session[connections[d]] = d

\* Nothing goes up a socket the server has left, and one both ends have left
\* carries nothing and is nobody's.
FreeIsClean ==
  \A c \in Conn :
    /\ socket[c] \in {"free", "closed"} => up[c] = <<>>
    /\ socket[c] = "free" => ~Held(c) /\ down[c] = <<>>

\* A socket has one rack at its other end, and only a running rack has sockets.
Exclusive ==
  /\ \A r, s \in Rack : dialled[r] # None /\ dialled[r] = dialled[s] => r = s
  /\ \A r \in Rack : ~running[r] => dialled[r] = None

SocketInv == Routed /\ FreeIsClean /\ Exclusive

\* A credential from before the next one is minted, and not the key of a row.
NoKey(t) ==
  t # None => t.serial <= minted /\ \A e \in Row : key[e] # None => t # key[e]

\* What is held as a token is never the key of a row: no rack is greeted with
\* its token, so none is pushed a configuration before it holds a key.
TokensAreNoKeys ==
  /\ \A e \in Row : key[e] # None => key[e].serial <= minted
  /\ \A d \in Row : NoKey(token[d])
  /\ \A r \in Rack : NoKey(link[r].token) /\ NoKey(settings[r].token)

NoAckIn(s) == \A i \in DOMAIN s : s[i].type # "ack"

\* The last ack of a queue, if there is one, is of version v.
LastAckIs(s, v) ==
  \A i \in DOMAIN s :
    s[i].type = "ack" /\ (\A j \in DOMAIN s : j > i => s[j].type # "ack")
      => s[i].version = v

\* A rack without a key, on socket c: the message that pairs it is the first it
\* receives, and it has confirmed nothing before.
UnpairedRack(r, c) ==
  /\ NoAckIn(up[c])
  /\ \A d \in Row : connections[d] = c => acked[d] = None
  /\ IF down[c] = <<>>
       THEN /\ socket[c] \in {"accepted", "closed"}
            /\ socket[c] = "accepted" =>
                 up[c] # <<>> /\ Head(up[c]).credential = settings[r].token
       ELSE Head(down[c]).type = "paired"

\* A rack on socket c.  What the server knows it confirmed is what it runs, or
\* an ack of what it runs is on its way.
RackOn(r, c) ==
  /\ settings[r].key = None => UnpairedRack(r, c)
  /\ LastAckIs(up[c], version[r])
  /\ \A d \in Row :
       connections[d] = c /\ acked[d] # None /\ NoAckIn(up[c]) => acked[d] = version[r]

RackInv == \A r \in Rack : dialled[r] # None => RackOn(r, dialled[r])

AckInv == SocketInv /\ TokensAreNoKeys /\ RackInv

-----------------------------------------------------------------------------
(* Sockets.                                                                *)

LEMMA SaveEditTodo ==
  ASSUME TypeOK, NEW affected \in SUBSET Row
  PROVE  {[row |-> d, born |-> born[d], version |-> config_version[d] + 1] :
            d \in {a \in affected : config_version[a] + 1 \notin Unservable}}
           \in SUBSET Snapshot
BY DEF Snapshot, TypeOK

\* Unregistering a socket empties the hub's entry for it and touches no other.
LEMMA UnregisterEffect ==
  ASSUME TypeOK, Routed, NEW c \in Conn, Unregister(c)
  PROVE  \A d \in Row :
           /\ connections'[d] # c
           /\ \/ connections'[d] = None /\ acked'[d] = None
              \/ connections'[d] = connections[d] /\ acked'[d] = acked[d]
<1>1. CASE IsCurrent(c)
  <2>1. session[c] \in Row
    BY <1>1 DEF IsCurrent, TypeOK
  <2>2. \A d \in Row : connections[d] = c => d = session[c]
    BY NoneAssumption DEF Routed
  <2> QED BY <1>1, <2>1, <2>2, NoneAssumption DEF Unregister, TypeOK
<1>2. CASE ~IsCurrent(c)
  <2>1. \A d \in Row : connections[d] # c
    BY <1>2, NoneAssumption DEF IsCurrent, Routed
  <2> QED BY <1>2, <2>1 DEF Unregister, hub
<1> QED BY <1>1, <1>2

LEMMA SocketStep == TypeOK /\ SocketInv /\ [Next]_vars => SocketInv'
<1> SUFFICES ASSUME TypeOK, SocketInv, [Next]_vars PROVE SocketInv'
  OBVIOUS
<1> USE NoneAssumption DEF SocketInv, Routed, FreeIsClean, Exclusive, Held, hub, sockets,
        disk, process, database
<1>1. ASSUME NEW c \in Conn, HangUp(c), UNCHANGED <<dialled, running>>
      PROVE  SocketInv'
  <2>1. Routed'
    <3>1. \A d \in Row : connections'[d] # c /\ connections'[d] \in {None, connections[d]}
      BY <1>1, UnregisterEffect DEF HangUp
    <3> QED BY <1>1, <3>1 DEF HangUp, TypeOK
  <2>2. FreeIsClean'
    BY <1>1 DEF HangUp, TypeOK
  <2> QED BY <1>1, <2>1, <2>2
<1>2. ASSUME NEW c \in Conn, NEW d, NEW pairing, Greet(c, d, pairing),
             socket[c] \in {"accepted", "pairing"}, UNCHANGED <<dialled, running>>
      PROVE  SocketInv'
  <2>1. CASE HangUp(c)
    BY <1>1, <1>2, <2>1
  <2>2. CASE ~HangUp(c)
    <3>1. /\ d \in rows
          /\ socket' = [socket EXCEPT ![c] = "serving"]
          /\ session' = [session EXCEPT ![c] = d]
          /\ Register(c, d)
          /\ up' = [up EXCEPT ![c] = Tail(@)]
          /\ \A o \in Conn : o # c => down'[o] = down[o]
      BY <1>2, <2>2 DEF Greet, TypeOK
    <3>2. Routed'
      BY <1>2, <3>1 DEF Register, TypeOK
    <3>3. FreeIsClean'
      BY <1>2, <3>1 DEF TypeOK
    <3> QED BY <1>2, <3>2, <3>3
  <2> QED BY <2>1, <2>2
<1>3. ASSUME NEW e \in Editor, NEW todo \in SUBSET Snapshot, PushLoop(e, todo),
             UNCHANGED <<hub, sockets, up, dialled, running>>
      PROVE  SocketInv'
  <2>1. FreeIsClean'
    BY <1>3 DEF PushLoop, TypeOK, Snapshot
  <2> QED BY <1>3, <2>1
<1>4. ASSUME NEW r \in Rack, LetGo(r), UNCHANGED <<hub, session, up>>,
             \A s \in Rack : running'[s] = running[s] \/ s = r
      PROVE  SocketInv'
  <2>1. Routed'
    BY <1>4 DEF LetGo, TypeOK
  <2>2. FreeIsClean'
    BY <1>4 DEF LetGo, TypeOK
  <2>3. Exclusive'
    BY <1>4 DEF LetGo, TypeOK
  <2> QED BY <2>1, <2>2, <2>3
<1>5. ASSUME NEW r \in Rack, NEW type, Receives(r, type), Take(dialled[r]),
             \/ UNCHANGED up
             \/ \E m : Answer(dialled[r], m),
             UNCHANGED <<hub, sockets, dialled, running>>
      PROVE  SocketInv'
  <2>1. FreeIsClean'
    BY <1>5 DEF Receives, Take, Answer, TypeOK
  <2> QED BY <1>5, <2>1
<1>6. ASSUME UNCHANGED <<connections, socket, session, up, down, dialled, running>>
      PROVE  SocketInv'
  BY <1>6
<1>7. CASE Interface
  <2>1. ASSUME NEW e \in Editor, NEW affected \in SUBSET Row, SaveEdit(e, affected)
        PROVE  SocketInv'
    BY <2>1, <1>3, SaveEditTodo DEF SaveEdit
  <2>2. ASSUME NEW e \in Editor, ResumePushing(e) PROVE SocketInv'
    BY <2>2, <1>3 DEF ResumePushing, TypeOK
  <2>3. CASE \E d \in Row : CreateDaemon(d) \/ RotateKey(d) \/ DeleteDaemon(d)
    BY <2>3, <1>6 DEF CreateDaemon, RotateKey, DeleteDaemon
  <2> QED BY <1>7, <2>1, <2>2, <2>3 DEF Interface
<1>8. CASE RestartServer
  <2>1. Routed' /\ FreeIsClean' /\ Exclusive'
    BY <1>8 DEF RestartServer, TypeOK
  <2> QED BY <2>1
<1>9. ASSUME NEW c \in Conn, Socket(c) PROVE SocketInv'
  <2>1. ASSUME NEW d \in Row, HelloWithToken(c, d) PROVE SocketInv'
    BY <2>1 DEF HelloWithToken, TypeOK
  <2>2. CASE HandleMessage(c)
    BY <2>2 DEF HandleMessage, RecordAck, TypeOK
  <2>3. CASE SendFails(c)
    BY <2>3, UnregisterEffect DEF SendFails, TypeOK
  <2>4. CASE GreetPaired(c) \/ \E d \in Row : HelloWithKey(c, d)
    BY <2>4, <1>2 DEF GreetPaired, HelloWithKey
  <2>5. CASE HelloRefused(c) \/ CloseSuperseded(c) \/ SeeDisconnect(c) \/ LoseSocket(c)
    BY <2>5, <1>1 DEF HelloRefused, CloseSuperseded, SeeDisconnect, LoseSocket
  <2> QED BY <1>9, <2>1, <2>2, <2>3, <2>4, <2>5 DEF Socket
<1>10. ASSUME NEW r \in Rack, Daemon(r) PROVE SocketInv'
  <2>1. ASSUME NEW c \in Conn, TickOnce(r, c) PROVE SocketInv'
    BY <2>1 DEF TickOnce, TypeOK
  <2>2. CASE Boot(r)
    BY <2>2 DEF Boot, TypeOK
  <2>3. CASE Crash(r) \/ Exit(r) \/ LinkClosed(r) \/ LoseLink(r)
    BY <2>3, <1>4 DEF Crash, Exit, Halt, LinkClosed, LoseLink, TypeOK
  <2>4. CASE Paired(r) \/ Config(r)
    BY <2>4, <1>5 DEF Paired, Config, SkipPush, IgnorePush, RefusePush, ReclockPush,
                      ApplyPush, Considers
  <2>5. CASE Signal(r) \/ \E d \in Row : Connect(r, d)
    BY <2>5, <1>6 DEF Signal, Connect
  <2> QED BY <1>10, <2>1, <2>2, <2>3, <2>4, <2>5 DEF Daemon
<1>11. CASE UNCHANGED vars
  BY <1>6, <1>11 DEF vars
<1> QED BY <1>7, <1>8, <1>9, <1>10, <1>11 DEF Next

LEMMA OneSocketStep ==
  TypeOK /\ SocketInv /\ OneSocketPerRow /\ [Next]_vars => OneSocketPerRow'
<1> SUFFICES ASSUME TypeOK, SocketInv, OneSocketPerRow, [Next]_vars
             PROVE  OneSocketPerRow'
  OBVIOUS
<1> USE NoneAssumption DEF SocketInv, Routed, OneSocketPerRow, IsCurrent, hub, sockets
<1>1. ASSUME NEW c \in Conn, HangUp(c) PROVE OneSocketPerRow'
  <2>1. \A d \in Row : connections[d] # c => connections'[d] = connections[d]
    BY <1>1 DEF HangUp, Unregister, TypeOK
  <2>2. ASSUME NEW o \in Conn, socket'[o] = "serving", ~closed'[o]
        PROVE  session'[o] # None /\ connections'[session'[o]] = o
    <3>1. /\ o # c /\ socket[o] = "serving" /\ ~closed[o]
          /\ session'[o] = session[o]
      BY <1>1, <2>2 DEF HangUp, TypeOK
    <3>2. session[o] \in Row /\ connections[session[o]] = o
      BY <3>1 DEF TypeOK
    <3> QED BY <2>1, <3>1, <3>2
  <2> QED BY <2>2
<1>2. ASSUME NEW c \in Conn, NEW d, NEW pairing, Greet(c, d, pairing)
      PROVE  OneSocketPerRow'
  <2>1. CASE HangUp(c)
    BY <1>1, <2>1
  <2>2. CASE ~HangUp(c)
    <3>1. /\ d \in rows
          /\ socket' = [socket EXCEPT ![c] = "serving"]
          /\ session' = [session EXCEPT ![c] = d]
          /\ Register(c, d)
      BY <1>2, <2>2 DEF Greet, TypeOK
    <3>2. ASSUME NEW o \in Conn, socket'[o] = "serving", ~closed'[o]
          PROVE  session'[o] # None /\ connections'[session'[o]] = o
      <4>1. CASE o = c
        BY <3>1, <4>1 DEF Register, TypeOK
      <4>2. CASE o # c
        <5>1. /\ socket[o] = "serving" /\ session'[o] = session[o]
              /\ ~closed[o] /\ o # connections[d]
          BY <3>1, <3>2, <4>2 DEF Register, TypeOK
        <5>2. session[o] \in Row /\ session[o] # d /\ connections[session[o]] = o
          BY <5>1 DEF TypeOK
        <5> QED BY <3>1, <5>1, <5>2 DEF Register, TypeOK
      <4> QED BY <4>1, <4>2
    <3> QED BY <3>2
  <2> QED BY <2>1, <2>2
<1>3. ASSUME NEW r \in Rack, LetGo(r), UNCHANGED <<connections, session, closed>>
      PROVE  OneSocketPerRow'
  BY <1>3 DEF LetGo, TypeOK
<1>4. ASSUME UNCHANGED <<connections, socket, session, closed>> PROVE OneSocketPerRow'
  BY <1>4
<1>5. CASE Interface
  BY <1>4, <1>5 DEF Interface, CreateDaemon, RotateKey, DeleteDaemon, SaveEdit,
                    ResumePushing
<1>6. CASE RestartServer
  BY <1>6 DEF RestartServer
<1>7. ASSUME NEW c \in Conn, Socket(c) PROVE OneSocketPerRow'
  <2>1. ASSUME NEW d \in Row, HelloWithToken(c, d) PROVE OneSocketPerRow'
    BY <2>1 DEF HelloWithToken, TypeOK
  <2>2. CASE HandleMessage(c)
    BY <1>4, <2>2 DEF HandleMessage, RecordAck
  <2>3. CASE SendFails(c)
    <3>1. \A d \in Row : connections[d] # c => connections'[d] = connections[d]
      BY <2>3 DEF SendFails, Unregister, TypeOK
    <3> QED BY <2>3, <3>1 DEF SendFails, TypeOK
  <2>4. CASE GreetPaired(c) \/ \E d \in Row : HelloWithKey(c, d)
    BY <2>4, <1>2 DEF GreetPaired, HelloWithKey
  <2>5. CASE HelloRefused(c) \/ CloseSuperseded(c) \/ SeeDisconnect(c) \/ LoseSocket(c)
    BY <2>5, <1>1 DEF HelloRefused, CloseSuperseded, SeeDisconnect, LoseSocket
  <2> QED BY <1>7, <2>1, <2>2, <2>3, <2>4, <2>5 DEF Socket
<1>8. ASSUME NEW r \in Rack, Daemon(r) PROVE OneSocketPerRow'
  <2>1. ASSUME NEW c \in Conn, TickOnce(r, c) PROVE OneSocketPerRow'
    BY <2>1 DEF TickOnce, TypeOK
  <2>2. CASE Crash(r) \/ Exit(r) \/ LinkClosed(r) \/ LoseLink(r)
    BY <2>2, <1>3 DEF Crash, Exit, Halt, LinkClosed, LoseLink
  <2>3. CASE Boot(r) \/ Signal(r) \/ Paired(r) \/ Config(r) \/ \E d \in Row : Connect(r, d)
    BY <2>3, <1>4 DEF Boot, Signal, Connect, Paired, Config, SkipPush, IgnorePush,
                      RefusePush, ReclockPush, ApplyPush
  <2> QED BY <1>8, <2>1, <2>2, <2>3 DEF Daemon
<1>9. CASE UNCHANGED vars
  BY <1>4, <1>9 DEF vars
<1> QED BY <1>5, <1>6, <1>7, <1>8, <1>9 DEF Next

LEMMA SocketInit == Init => SocketInv
BY NoneAssumption DEF Init, SocketInv, Routed, FreeIsClean, Exclusive, Held

\* At most one socket of a row is served and not told to close, and it is the
\* one the hub routes to: what Hub.register and Hub.drop are for.
THEOREM OneSocket == Spec => []OneSocketPerRow
<1>1. Init => OneSocketPerRow
  BY DEF Init, OneSocketPerRow
<1> QED BY <1>1, SocketInit, SocketStep, OneSocketStep, TypeInvariant, PTL DEF Spec

-----------------------------------------------------------------------------
(* Credentials.                                                            *)

\* What is minted next is not yet anybody's token, nor a key.
LEMMA FreshIsNew ==
  ASSUME TypeOK, TokensAreNoKeys, NEW d \in Row, NEW b \in Nat
  PROVE  /\ Fresh(d, b).serial = minted + 1
         /\ \A e \in Row : key[e] # None => key[e] # Fresh(d, b)
         /\ \A e \in Row : token[e] # None => token[e] # Fresh(d, b)
         /\ \A r \in Rack : /\ link[r].token # None => link[r].token # Fresh(d, b)
                            /\ settings[r].token # None => settings[r].token # Fresh(d, b)
<1>1. minted \in Nat /\ Fresh(d, b).serial = minted + 1
  BY DEF TypeOK, Fresh
<1>2. \A t : t.serial <= minted => t # Fresh(d, b)
  <2> SUFFICES ASSUME NEW t, t.serial <= minted, t = Fresh(d, b) PROVE FALSE
    OBVIOUS
  <2> QED BY <1>1
<1> QED BY <1>1, <1>2 DEF TokensAreNoKeys, NoKey

\* Serials are numbers, and a number no greater than minted stays so.
LEMMA SerialsStay ==
  ASSUME TypeOK, NEW t \in MaybeCredential, t # None, t.serial <= minted
  PROVE  t.serial <= minted + 1
BY DEF TypeOK, MaybeCredential, Credential

\* Minting a token for a row, whose key goes with it, keeps the two apart.
LEMMA MintedToken ==
  ASSUME TypeOK, TokensAreNoKeys, NEW d \in Row, NEW b \in Nat,
         minted' = minted + 1, UNCHANGED <<link, settings>>,
         token' = [token EXCEPT ![d] = Fresh(d, b)], key' = [key EXCEPT ![d] = None]
  PROVE  TokensAreNoKeys'
<1> DEFINE NoLaterKey(t) ==
      t # None => t.serial <= minted' /\ \A e \in Row : key'[e] # None => t # key'[e]
<1>1. \A e \in Row : key'[e] # None => key'[e] = key[e]
  BY DEF TypeOK
<1>2. \A e \in Row : key'[e] # None => key'[e].serial <= minted'
  BY <1>1, SerialsStay DEF TokensAreNoKeys, TypeOK
<1>3. ASSUME NEW t \in MaybeCredential, NoKey(t) PROVE NoLaterKey(t)
  BY <1>1, <1>3, SerialsStay DEF NoKey
<1>4. NoLaterKey(Fresh(d, b))
  BY <1>1, FreshIsNew DEF TypeOK
<1>5. \A e \in Row : NoLaterKey(token[e])
  BY <1>3 DEF TokensAreNoKeys, TypeOK
<1>6. \A e \in Row : token'[e] = Fresh(d, b) \/ token'[e] = token[e]
  BY DEF TypeOK
<1>7. \A e \in Row : NoLaterKey(token'[e])
  BY <1>4, <1>5, <1>6
<1>8. \A r \in Rack : NoLaterKey(link'[r].token) /\ NoLaterKey(settings'[r].token)
  BY <1>3 DEF TokensAreNoKeys, TypeOK, LinkSettings
<1> QED BY <1>2, <1>7, <1>8 DEF TokensAreNoKeys, NoKey

\* Nor does minting a key, which no token can already be.
LEMMA MintedKey ==
  ASSUME TypeOK, TokensAreNoKeys, NEW d \in Row, NEW b \in Nat,
         minted' = minted + 1, UNCHANGED <<link, settings>>,
         token' = [token EXCEPT ![d] = None], key' = [key EXCEPT ![d] = Fresh(d, b)]
  PROVE  TokensAreNoKeys'
<1> DEFINE NoLaterKey(t) ==
      t # None => t.serial <= minted' /\ \A e \in Row : key'[e] # None => t # key'[e]
<1>1. \A e \in Row : key'[e] = Fresh(d, b) \/ key'[e] = key[e]
  BY DEF TypeOK
<1>2. \A e \in Row : key'[e] # None => key'[e].serial <= minted'
  <2>1. Fresh(d, b).serial = minted' /\ minted' \in Nat
    BY FreshIsNew DEF TypeOK
  <2>2. \A e \in Row : key[e] # None => key[e].serial <= minted'
    BY SerialsStay DEF TokensAreNoKeys, TypeOK
  <2> QED BY <1>1, <2>1, <2>2
<1>3. ASSUME NEW t \in MaybeCredential, NoKey(t), t # None => t # Fresh(d, b)
      PROVE  NoLaterKey(t)
  BY <1>1, <1>3, SerialsStay DEF NoKey
<1>4. \A e \in Row : NoLaterKey(token[e])
  BY <1>3, FreshIsNew DEF TokensAreNoKeys, TypeOK
<1>5. \A e \in Row : token'[e] = None \/ token'[e] = token[e]
  BY DEF TypeOK
<1>6. \A e \in Row : NoLaterKey(token'[e])
  BY <1>4, <1>5
<1>7. \A r \in Rack : NoLaterKey(link'[r].token) /\ NoLaterKey(settings'[r].token)
  BY <1>3, FreshIsNew DEF TokensAreNoKeys, TypeOK, LinkSettings
<1> QED BY <1>2, <1>6, <1>7 DEF TokensAreNoKeys, NoKey

LEMMA TokensStep == TypeOK /\ TokensAreNoKeys /\ [Next]_vars => TokensAreNoKeys'
<1> SUFFICES ASSUME TypeOK, TokensAreNoKeys, [Next]_vars PROVE TokensAreNoKeys'
  OBVIOUS
<1> USE DEF TokensAreNoKeys, NoKey, disk, process, database
<1>1. ASSUME UNCHANGED <<token, key, minted, link, settings>> PROVE TokensAreNoKeys'
  BY <1>1
<1>2. ASSUME NEW d \in Row, CreateDaemon(d) PROVE TokensAreNoKeys'
  <2> DEFINE f == Fresh(d, born[d] + 1)
  <2>1. minted' = minted + 1 /\ born[d] + 1 \in Nat /\ minted \in Nat
    BY <1>2 DEF CreateDaemon, TypeOK
  <2>2. token' = [token EXCEPT ![d] = f] /\ key' = [key EXCEPT ![d] = None]
    BY <1>2 DEF CreateDaemon
  <2>3. UNCHANGED <<link, settings>>
    BY <1>2 DEF CreateDaemon
  <2> QED BY <2>1, <2>2, <2>3, MintedToken
<1>3. ASSUME NEW d \in Row, RotateKey(d) PROVE TokensAreNoKeys'
  <2> DEFINE f == Fresh(d, born[d])
  <2>1. minted' = minted + 1 /\ born[d] \in Nat
    BY <1>3 DEF RotateKey, TypeOK
  <2>2. token' = [token EXCEPT ![d] = f] /\ key' = [key EXCEPT ![d] = None]
    BY <1>3 DEF RotateKey
  <2>3. UNCHANGED <<link, settings>>
    BY <1>3 DEF RotateKey
  <2> QED BY <2>1, <2>2, <2>3, MintedToken
<1>4. ASSUME NEW d \in Row, DeleteDaemon(d) PROVE TokensAreNoKeys'
  BY <1>4 DEF DeleteDaemon, TypeOK
<1>5. ASSUME NEW c \in Conn, NEW d \in Row, HelloWithToken(c, d) PROVE TokensAreNoKeys'
  <2> DEFINE f == Fresh(d, born[d])
  <2>1. minted' = minted + 1 /\ born[d] \in Nat
    BY <1>5 DEF HelloWithToken, TypeOK
  <2>2. token' = [token EXCEPT ![d] = None] /\ key' = [key EXCEPT ![d] = f]
    BY <1>5 DEF HelloWithToken
  <2>3. UNCHANGED <<link, settings>>
    BY <1>5 DEF HelloWithToken
  <2> QED BY <2>1, <2>2, <2>3, MintedKey
<1>6. ASSUME NEW r \in Rack, NEW d \in Row, Connect(r, d) PROVE TokensAreNoKeys'
  BY <1>6 DEF Connect, TypeOK
<1>7. ASSUME NEW r \in Rack, Boot(r) PROVE TokensAreNoKeys'
  BY <1>7 DEF Boot, TypeOK
<1>8. ASSUME NEW r \in Rack, Paired(r) PROVE TokensAreNoKeys'
  <2>1. UNCHANGED <<token, key, minted>>
    BY <1>8 DEF Paired
  <2>2. CASE settings[r].key # None
    BY <1>1, <1>8, <2>1, <2>2 DEF Paired
  <2>3. CASE settings[r].key = None
    <3> DEFINE l == [token |-> None, key |-> Head(down[dialled[r]]).key]
    <3>1. settings' = [settings EXCEPT ![r] = l] /\ settings'[r] = l
      BY <1>8, <2>3 DEF Paired, TypeOK
    <3>2. link' = link \/ link' = [link EXCEPT ![r] = l]
      BY <1>8, <2>3, <3>1, Zenon DEF Paired
    <3>3. l.token = None
      OBVIOUS
    <3> HIDE DEF l
    <3>4. \A s \in Rack : settings'[s].token \in {None, settings[s].token}
      BY <3>1, <3>3 DEF TypeOK
    <3>5. \A s \in Rack : link'[s].token \in {None, link[s].token}
      BY <3>2, <3>3 DEF TypeOK
    <3> QED BY <2>1, <3>4, <3>5
  <2> QED BY <2>2, <2>3
<1>9. ASSUME NEW r \in Rack, Crash(r) \/ Exit(r) PROVE TokensAreNoKeys'
  <2>1. UNCHANGED <<token, key, minted, link>>
    BY <1>9 DEF Crash, Exit
  <2>2. settings' = [settings EXCEPT ![r] = NoLink]
    BY <1>9 DEF Crash, Exit, Halt
  <2>3. \A s \in Rack : settings'[s].token \in {None, settings[s].token}
    BY <2>2 DEF NoLink, TypeOK
  <2> QED BY <2>1, <2>3
<1>10. CASE \E e \in Editor :
              (\E affected \in SUBSET Row : SaveEdit(e, affected)) \/ ResumePushing(e)
  BY <1>1, <1>10 DEF SaveEdit, ResumePushing
<1>11. CASE RestartServer
  BY <1>1, <1>11 DEF RestartServer
<1>12. ASSUME NEW c \in Conn,
              \/ SendFails(c) \/ GreetPaired(c) \/ HelloRefused(c) \/ HandleMessage(c)
              \/ CloseSuperseded(c) \/ SeeDisconnect(c) \/ LoseSocket(c)
              \/ \E d \in Row : HelloWithKey(c, d)
       PROVE  TokensAreNoKeys'
  BY <1>1, <1>12 DEF SendFails, GreetPaired, HelloRefused, HandleMessage,
                     CloseSuperseded, SeeDisconnect, LoseSocket, HelloWithKey
<1>13. ASSUME NEW r \in Rack,
              \/ Signal(r) \/ LinkClosed(r) \/ LoseLink(r) \/ Config(r)
              \/ \E c \in Conn : TickOnce(r, c)
       PROVE  TokensAreNoKeys'
  BY <1>1, <1>13 DEF Signal, LinkClosed, LoseLink, TickOnce, Config, SkipPush,
                     IgnorePush, RefusePush, ReclockPush, ApplyPush
<1>14. CASE UNCHANGED vars
  BY <1>1, <1>14 DEF vars
<1> QED
  BY <1>2, <1>3, <1>4, <1>5, <1>6, <1>7, <1>8, <1>9, <1>10, <1>11, <1>12, <1>13, <1>14
  DEF Next, Interface, Socket, Daemon

-----------------------------------------------------------------------------
(* Acks.                                                                   *)

LEMMA AppendAck ==
  ASSUME NEW s \in Seq(FromRack), NEW v \in Nat
  PROVE  LastAckIs(Append(s, Ack(v)), v) /\ ~NoAckIn(Append(s, Ack(v)))
<1>1. Append(s, Ack(v)) \in Seq(FromRack)
  BY AckType
<1>2. /\ DOMAIN Append(s, Ack(v)) = 1..(Len(s) + 1)
      /\ Append(s, Ack(v))[Len(s) + 1] = Ack(v)
  BY AckType
<1>3. Ack(v).type = "ack" /\ Ack(v).version = v
  BY DEF Ack
<1> QED BY <1>1, <1>2, <1>3 DEF LastAckIs, NoAckIn

LEMMA AppendNack ==
  ASSUME NEW s \in Seq(FromRack), NEW w \in Nat
  PROVE  /\ \A v : LastAckIs(s, v) => LastAckIs(Append(s, Nack(w)), v)
         /\ NoAckIn(s) <=> NoAckIn(Append(s, Nack(w)))
         /\ s # <<>> => Head(Append(s, Nack(w))) = Head(s)
<1> DEFINE t == Append(s, Nack(w))
<1>1. /\ DOMAIN t = 1..(Len(s) + 1) /\ DOMAIN s = 1..Len(s)
      /\ t[Len(s) + 1] = Nack(w)
      /\ \A i \in 1..Len(s) : t[i] = s[i]
  BY AckType
<1>2. Nack(w).type # "ack"
  BY DEF Nack
<1>3. s # <<>> => Head(t) = Head(s)
  BY AckType
<1> HIDE DEF t
<1>4. \A v : LastAckIs(s, v) => LastAckIs(t, v)
  BY <1>1, <1>2 DEF LastAckIs
<1>5. NoAckIn(s) <=> NoAckIn(t)
  BY <1>1, <1>2 DEF NoAckIn
<1> QED BY <1>3, <1>4, <1>5 DEF t

LEMMA TailAck ==
  ASSUME NEW s \in Seq(FromRack), s # <<>>
  PROVE  /\ \A v : LastAckIs(s, v) => LastAckIs(Tail(s), v)
         /\ NoAckIn(s) => NoAckIn(Tail(s))
         /\ Head(s).type # "ack" /\ NoAckIn(Tail(s)) => NoAckIn(s)
         /\ \A v : Head(s).type = "ack" /\ NoAckIn(Tail(s)) /\ LastAckIs(s, v)
                     => Head(s).version = v
<1> DEFINE t == Tail(s)
<1>1. /\ Len(s) \in Nat /\ Len(s) > 0
      /\ DOMAIN t = 1..(Len(s) - 1) /\ DOMAIN s = 1..Len(s)
      /\ Head(s) = s[1]
      /\ \A i \in 1..(Len(s) - 1) : t[i] = s[i + 1]
      /\ \A i \in 2..Len(s) : i - 1 \in DOMAIN t /\ s[i] = t[i - 1]
  OBVIOUS
<1> HIDE DEF t
<1>2. ASSUME NEW v, LastAckIs(s, v) PROVE LastAckIs(t, v)
  <2>1. ASSUME NEW i \in DOMAIN t, t[i].type = "ack",
               \A j \in DOMAIN t : j > i => t[j].type # "ack"
        PROVE  t[i].version = v
    <3>1. i + 1 \in DOMAIN s /\ t[i] = s[i + 1] /\ i \in Nat
      BY <1>1
    <3>2. ASSUME NEW j \in DOMAIN s, j > i + 1 PROVE s[j].type # "ack"
      <4>1. j - 1 \in DOMAIN t /\ s[j] = t[j - 1] /\ j - 1 > i
        BY <1>1, <3>1, <3>2
      <4> QED BY <2>1, <4>1
    <3> QED BY <1>2, <2>1, <3>1, <3>2 DEF LastAckIs
  <2> QED BY <2>1 DEF LastAckIs
<1>3. NoAckIn(s) => NoAckIn(t)
  BY <1>1 DEF NoAckIn
<1>4. Head(s).type # "ack" /\ NoAckIn(t) => NoAckIn(s)
  BY <1>1 DEF NoAckIn
<1>5. ASSUME NEW v, Head(s).type = "ack", NoAckIn(t), LastAckIs(s, v)
      PROVE  Head(s).version = v
  <2>1. 1 \in DOMAIN s /\ s[1].type = "ack"
    BY <1>1, <1>5
  <2>2. \A j \in DOMAIN s : j > 1 => s[j].type # "ack"
    BY <1>1, <1>5 DEF NoAckIn
  <2> QED BY <1>1, <1>5, <2>1, <2>2 DEF LastAckIs
<1> QED BY <1>2, <1>3, <1>4, <1>5 DEF t

\* A rack's hello, and the re-ack after it, claim what the rack runs.
LEMMA HelloAck ==
  ASSUME TypeOK, NEW r \in Rack
  PROVE  /\ LastAckIs(<<Hello(r)>> \o Reack(r), version[r])
         /\ settings[r].key = None =>
              /\ NoAckIn(<<Hello(r)>> \o Reack(r))
              /\ <<Hello(r)>> \o Reack(r) # <<>>
              /\ Head(<<Hello(r)>> \o Reack(r)).credential = settings[r].token
<1>1. Hello(r).type = "hello" /\ Hello(r) \in FromRack
  BY HelloType DEF Hello
<1>2. CASE Reack(r) = <<>>
  <2>1. <<Hello(r)>> \o Reack(r) = <<Hello(r)>>
    BY <1>2
  <2>2. settings[r].key = None => Hello(r).credential = settings[r].token
    BY DEF Hello, Presented
  <2> QED BY <1>1, <2>1, <2>2 DEF LastAckIs, NoAckIn
<1>3. CASE Reack(r) # <<>>
  <2>1. Reack(r) = <<Ack(version[r])>> /\ version[r] # None /\ settings[r].key # None
    BY <1>3 DEF Reack
  <2>2. version[r] \in Nat
    BY <2>1 DEF TypeOK, MaybeVersion
  <2>3. <<Hello(r)>> \o Reack(r) = Append(<<Hello(r)>>, Ack(version[r]))
    BY <2>1
  <2>4. <<Hello(r)>> \in Seq(FromRack)
    BY <1>1
  <2> QED BY <2>1, <2>2, <2>3, <2>4, AppendAck
<1> QED BY <1>2, <1>3

\* A channel that is sent to keeps its head.
LEMMA HeadStays ==
  ASSUME TypeOK, NEW c \in Conn, NEW m \in FromServer,
         down' = [down EXCEPT ![c] = Append(@, m)]
  PROVE  /\ down'[c] # <<>>
         /\ down[c] = <<>> => Head(down'[c]) = m
         /\ down[c] # <<>> => Head(down'[c]) = Head(down[c])
         /\ \A o \in Conn : o # c => down'[o] = down[o]
<1>1. down[c] \in Seq(FromServer) /\ down'[c] = Append(down[c], m)
  BY DEF TypeOK
<1>2. \A o \in Conn : o # c => down'[o] = down[o]
  BY DEF TypeOK
<1> QED BY <1>1, <1>2

\* A rack with a socket keeps what holds of it as long as no step touches the
\* rack, what it sends, the next message it receives and its place in the hub.
LEMMA RackStep ==
  TypeOK /\ TypeOK' /\ HelloKept /\ SocketInv /\ SocketInv' /\ TokensAreNoKeys /\ RackInv
    /\ [Next]_vars
    => RackInv'
<1> SUFFICES ASSUME TypeOK, TypeOK', HelloKept, SocketInv, SocketInv', TokensAreNoKeys,
                    RackInv, [Next]_vars
             PROVE  RackInv'
  OBVIOUS
<1> USE NoneAssumption DEF hub, sockets, database, disk, process
\* What a step leaves of a rack that takes no part in it.
<1>1. ASSUME NEW s \in Rack, dialled'[s] # None, dialled'[s] = dialled[s],
             settings'[s] = settings[s], version'[s] = version[s],
             up'[dialled[s]] = up[dialled[s]],
             \/ down'[dialled[s]] = down[dialled[s]]
             \/ /\ down[dialled[s]] # <<>> /\ down'[dialled[s]] # <<>>
                /\ Head(down'[dialled[s]]) = Head(down[dialled[s]])
             \/ settings[s].key # None,
             socket'[dialled[s]] = socket[dialled[s]],
             \A d \in Row : connections'[d] = dialled[s]
                              => connections[d] = dialled[s] /\ acked'[d] = acked[d]
      PROVE  RackOn(s, dialled[s])'
  <2>1. RackOn(s, dialled[s])
    BY <1>1 DEF RackInv
  <2> QED BY <1>1, <2>1 DEF RackOn, UnpairedRack
<1>2. ASSUME UNCHANGED <<dialled, settings, version, up, down, socket, connections, acked>>
      PROVE  RackInv'
  BY <1>1, <1>2 DEF RackInv
<1>3. ASSUME NEW c \in Conn, HangUp(c), UNCHANGED <<dialled, settings, version>>
      PROVE  RackInv'
  <2>1. \A d \in Row :
          /\ connections'[d] # c
          /\ connections'[d] # None => connections'[d] = connections[d] /\ acked'[d] = acked[d]
    BY <1>3, UnregisterEffect DEF HangUp, SocketInv
  <2>2. ASSUME NEW s \in Rack, dialled[s] = c PROVE RackOn(s, c)'
    <3>1. up'[c] = <<>> /\ socket'[c] = "closed" /\ down'[c] = down[c]
      BY <1>3, <2>2 DEF HangUp, Held, TypeOK
    <3>2. RackOn(s, c)
      BY <2>2 DEF RackInv
    <3>3. NoAckIn(<<>>) /\ LastAckIs(<<>>, version[s])
      BY DEF NoAckIn, LastAckIs
    <3> QED BY <1>3, <2>1, <3>1, <3>2, <3>3 DEF RackOn, UnpairedRack
  <2>3. ASSUME NEW s \in Rack, dialled[s] # None, dialled[s] # c
        PROVE  RackOn(s, dialled[s])'
    <3>1. /\ up'[dialled[s]] = up[dialled[s]] /\ down'[dialled[s]] = down[dialled[s]]
          /\ socket'[dialled[s]] = socket[dialled[s]]
      BY <1>3, <2>3 DEF HangUp, TypeOK
    <3> QED BY <1>1, <1>3, <2>1, <2>3, <3>1
  <2> QED BY <1>3, <2>2, <2>3 DEF RackInv
<1>4. ASSUME NEW c \in Conn, NEW d, NEW pairing, Greet(c, d, pairing), up[c] # <<>>,
             socket[c] \in {"accepted", "pairing"},
             socket[c] = "accepted" => d \in Row /\ key[d] # None
                                         /\ key[d] = Head(up[c]).credential,
             UNCHANGED <<dialled, settings, version>>
      PROVE  RackInv'
  <2>1. CASE HangUp(c)
    BY <1>3, <1>4, <2>1
  <2>2. CASE ~HangUp(c)
    <3>1. /\ d \in rows /\ d \in Row
          /\ socket' = [socket EXCEPT ![c] = "serving"]
          /\ Register(c, d)
          /\ up' = [up EXCEPT ![c] = Tail(@)]
          /\ \/ down' = down
             \/ \E p \in Snapshot : down' = [down EXCEPT ![c] = Append(@, ConfigPush(p))]
      <4>1. d \in Row
        BY <1>4, <2>2 DEF Greet, TypeOK
      <4>2. PushFor(d, Head(up[c]).version, pairing) \in Snapshot \cup {None}
        BY <4>1, CurrentType DEF PushFor
      <4> QED BY <1>4, <2>2, <4>1, <4>2 DEF Greet
    <3>2. \A e \in Row : /\ connections[e] # c
                         /\ connections'[e] = c => acked'[e] = None
                         /\ connections'[e] # c => connections'[e] = connections[e]
                                                     /\ acked'[e] = acked[e]
      <4>1. \A e \in Row : connections[e] # c
        BY <1>4 DEF SocketInv, Routed
      <4>2. /\ connections' = [connections EXCEPT ![d] = c]
            /\ acked' = [acked EXCEPT ![d] = None]
        BY <3>1 DEF Register
      <4> QED BY <3>1, <4>1, <4>2 DEF TypeOK
    <3>3. ASSUME NEW s \in Rack, dialled[s] = c PROVE RackOn(s, c)'
      <4>1. RackOn(s, c) /\ up'[c] = Tail(up[c]) /\ up[c] \in Seq(FromRack)
        BY <3>1, <3>3 DEF RackInv, TypeOK
      <4>2. LastAckIs(up'[c], version'[s])
        BY <1>4, <4>1, TailAck DEF RackOn
      <4>3. ASSUME settings[s].key = None PROVE UnpairedRack(s, c)'
        <5>1. UnpairedRack(s, c)
          BY <4>1, <4>3 DEF RackOn
        <5>2. NoAckIn(up'[c])
          BY <1>4, <4>1, <5>1, TailAck DEF UnpairedRack
        <5>3. down[c] # <<>>
          BY <1>4, <5>1 DEF UnpairedRack, TokensAreNoKeys, NoKey
        <5>4. down'[c] # <<>> /\ Head(down'[c]) = Head(down[c])
          BY <3>1, <5>3, HeadStays, ConfigPushType
        <5> QED BY <3>2, <5>1, <5>2, <5>3, <5>4 DEF UnpairedRack
      <4> QED BY <1>4, <3>2, <4>2, <4>3 DEF RackOn
    <3>4. ASSUME NEW s \in Rack, dialled[s] # None, dialled[s] # c
          PROVE  RackOn(s, dialled[s])'
      <4>1. /\ up'[dialled[s]] = up[dialled[s]] /\ down'[dialled[s]] = down[dialled[s]]
            /\ socket'[dialled[s]] = socket[dialled[s]]
        BY <3>1, <3>4 DEF TypeOK
      <4> QED BY <1>1, <1>4, <3>2, <3>4, <4>1
    <3> QED BY <1>4, <3>3, <3>4 DEF RackInv
  <2> QED BY <2>1, <2>2
<1>5. ASSUME NEW e \in Editor, NEW todo \in SUBSET Snapshot, PushLoop(e, todo),
             UNCHANGED <<hub, sockets, up, dialled, settings, version>>
      PROVE  RackInv'
  <2>1. CASE UNCHANGED down
    BY <1>2, <1>5, <2>1
  <2>2. ASSUME NEW p \in Snapshot, connections[p.row] # None,
               down' = [down EXCEPT ![connections[p.row]] = Append(@, ConfigPush(p))]
        PROVE  RackInv'
    <3> DEFINE c == connections[p.row]
    <3>1. p.row \in Row /\ c \in Conn /\ socket[c] = "serving"
      BY <2>2 DEF Snapshot, TypeOK, SocketInv, Routed
    <3>2. /\ down[c] # <<>> => down'[c] # <<>> /\ Head(down'[c]) = Head(down[c])
          /\ \A o \in Conn : o # c => down'[o] = down[o]
      BY <2>2, <3>1, HeadStays, ConfigPushType
    <3>3. ASSUME NEW s \in Rack, dialled[s] # None PROVE RackOn(s, dialled[s])'
      <4>1. dialled[s] \in Conn
        BY <3>3 DEF TypeOK
      <4>2. dialled[s] = c /\ settings[s].key = None => down[c] # <<>>
        BY <3>1, <3>3 DEF RackInv, RackOn, UnpairedRack
      <4> HIDE DEF c
      <4> QED BY <1>1, <1>5, <3>2, <3>3, <4>1, <4>2
    <3> QED BY <1>5, <3>3 DEF RackInv
  <2> QED BY <1>5, <2>1, <2>2 DEF PushLoop
<1>6. ASSUME NEW r \in Rack, LetGo(r), UNCHANGED <<hub, up>>,
             \A s \in Rack : s # r => settings'[s] = settings[s] /\ version'[s] = version[s]
      PROVE  RackInv'
  <2>1. \A s \in Rack : dialled'[s] # None => s # r /\ dialled'[s] = dialled[s]
    BY <1>6 DEF LetGo, TypeOK
  <2>2. ASSUME NEW s \in Rack, s # r, dialled[s] # None
        PROVE  /\ socket'[dialled[s]] = socket[dialled[s]]
               /\ down'[dialled[s]] = down[dialled[s]]
    BY <1>6, <2>2 DEF LetGo, TypeOK, SocketInv, Exclusive
  <2>3. ASSUME NEW s \in Rack, dialled'[s] # None PROVE RackOn(s, dialled[s])'
    BY <1>1, <1>6, <2>1, <2>2, <2>3
  <2> QED BY <2>1, <2>3 DEF RackInv
<1>7. CASE RestartServer
  <2>1. ASSUME NEW s \in Rack, dialled[s] # None PROVE RackOn(s, dialled[s])'
    <3> DEFINE c == dialled[s]
    <3>1. /\ c \in Conn /\ up'[c] = <<>> /\ down'[c] = down[c] /\ socket'[c] = "closed"
          /\ \A d \in Row : connections'[d] = None
          /\ UNCHANGED <<settings, version, dialled>>
      BY <1>7, <2>1 DEF RestartServer, Held, TypeOK
    <3>2. NoAckIn(<<>>) /\ LastAckIs(<<>>, version[s])
      BY DEF NoAckIn, LastAckIs
    <3>3. RackOn(s, c)
      BY <2>1 DEF RackInv
    <3> HIDE DEF c
    <3> QED BY <3>1, <3>2, <3>3 DEF RackOn, UnpairedRack, c
  <2> QED BY <1>7, <2>1 DEF RackInv, RestartServer
<1>8. ASSUME NEW c \in Conn, NEW d \in Row, HelloWithToken(c, d) PROVE RackInv'
  <2> DEFINE m == PairedWith(Fresh(d, born[d]))
  <2>1. m \in FromServer /\ m.type = "paired"
    BY FreshType DEF PairedWith, FromServer, TypeOK
  <2>2. /\ down' = [down EXCEPT ![c] = Append(@, m)]
        /\ socket' = [socket EXCEPT ![c] = "pairing"] /\ socket[c] = "accepted"
        /\ UNCHANGED <<connections, acked, up, settings, version, dialled>>
    BY <1>8 DEF HelloWithToken
  <2> HIDE DEF m
  <2>3. ASSUME NEW s \in Rack, dialled[s] = c PROVE RackOn(s, c)'
    <3>1. RackOn(s, c)
      BY <2>3 DEF RackInv
    <3>2. down'[c] # <<>> /\ Head(down'[c]) = IF down[c] = <<>> THEN m ELSE Head(down[c])
      BY <2>1, <2>2, HeadStays
    <3> QED BY <2>1, <2>2, <3>1, <3>2 DEF RackOn, UnpairedRack
  <2>4. ASSUME NEW s \in Rack, dialled[s] # None, dialled[s] # c
        PROVE  RackOn(s, dialled[s])'
    <3>1. /\ down'[dialled[s]] = down[dialled[s]]
          /\ socket'[dialled[s]] = socket[dialled[s]]
      BY <2>2, <2>4 DEF TypeOK
    <3> QED BY <1>1, <2>2, <2>4, <3>1
  <2> QED BY <2>2, <2>3, <2>4 DEF RackInv
<1>9. ASSUME NEW c \in Conn, HandleMessage(c) PROVE RackInv'
  <2>1. /\ socket[c] = "serving" /\ up[c] # <<>> /\ up' = [up EXCEPT ![c] = Tail(@)]
        /\ UNCHANGED <<connections, socket, down, settings, version, dialled>>
        /\ Head(up[c]).type = "ack" => RecordAck(c, Head(up[c]).version)
        /\ Head(up[c]).type # "ack" => UNCHANGED acked
    BY <1>9 DEF HandleMessage, RecordAck
  <2>2. \A e \in Row :
          /\ connections[e] # c => acked'[e] = acked[e]
          /\ connections[e] = c /\ Head(up[c]).type = "ack"
               => acked'[e] = Head(up[c]).version
          /\ Head(up[c]).type # "ack" => acked'[e] = acked[e]
    <3>1. ASSUME NEW e \in Row, connections[e] = c PROVE session[c] = e /\ IsCurrent(c)
      BY <3>1 DEF IsCurrent, SocketInv, Routed
    <3>2. CASE Head(up[c]).type # "ack"
      BY <2>1, <3>2
    <3>3. CASE Head(up[c]).type = "ack" /\ ~IsCurrent(c)
      BY <2>1, <3>1, <3>3 DEF RecordAck
    <3>4. CASE Head(up[c]).type = "ack" /\ IsCurrent(c)
      <4>1. session[c] \in Row /\ connections[session[c]] = c
        BY <3>4 DEF IsCurrent, TypeOK
      <4>2. acked' = [acked EXCEPT ![session[c]] = Head(up[c]).version]
        BY <2>1, <3>4 DEF RecordAck
      <4> QED BY <3>1, <3>4, <4>1, <4>2 DEF TypeOK
    <3> QED BY <3>2, <3>3, <3>4
  <2>3. ASSUME NEW s \in Rack, dialled[s] = c PROVE RackOn(s, c)'
    <3>1. RackOn(s, c) /\ up'[c] = Tail(up[c]) /\ up[c] \in Seq(FromRack)
      BY <2>1, <2>3 DEF RackInv, TypeOK
    <3>2. LastAckIs(up'[c], version'[s])
      BY <2>1, <3>1, TailAck DEF RackOn
    <3>3. ASSUME settings[s].key = None PROVE UnpairedRack(s, c)'
      <4>1. UnpairedRack(s, c)
        BY <3>1, <3>3 DEF RackOn
      <4>2. Head(up[c]).type # "ack" /\ NoAckIn(up'[c])
        BY <2>1, <3>1, <4>1, TailAck DEF UnpairedRack, NoAckIn
      <4> QED BY <2>1, <2>2, <4>1, <4>2 DEF UnpairedRack
    <3>4. ASSUME NEW e \in Row, connections[e] = c, acked'[e] # None, NoAckIn(up'[c])
          PROVE  acked'[e] = version[s]
      BY <2>1, <2>2, <3>1, <3>4, TailAck DEF RackOn
    <3> QED BY <2>1, <3>2, <3>3, <3>4 DEF RackOn
  <2>4. ASSUME NEW s \in Rack, dialled[s] # None, dialled[s] # c
        PROVE  RackOn(s, dialled[s])'
    <3>1. up'[dialled[s]] = up[dialled[s]]
      BY <2>1, <2>4 DEF TypeOK
    <3> QED BY <1>1, <2>1, <2>2, <2>4, <3>1
  <2> QED BY <2>1, <2>3, <2>4 DEF RackInv
<1>10. ASSUME NEW c \in Conn, SendFails(c) PROVE RackInv'
  <2>1. \A d \in Row :
          connections'[d] # None => connections'[d] = connections[d] /\ acked'[d] = acked[d]
    BY <1>10, UnregisterEffect DEF SendFails, SocketInv
  <2>2. UNCHANGED <<dialled, settings, version, up, down, socket>>
    BY <1>10 DEF SendFails
  <2> QED BY <1>1, <2>1, <2>2 DEF RackInv
<1>11. ASSUME NEW r \in Rack, NEW c \in Conn, TickOnce(r, c) PROVE RackInv'
  <2>1. /\ socket[c] = "free" /\ socket' = [socket EXCEPT ![c] = "accepted"]
        /\ dialled[r] = None /\ dialled' = [dialled EXCEPT ![r] = c]
        /\ up' = [up EXCEPT ![c] = <<Hello(r)>> \o Reack(r)]
        /\ UNCHANGED <<connections, acked, down, settings, version>>
    BY <1>11 DEF TickOnce
  <2>2. /\ down[c] = <<>> /\ \A d \in Row : connections[d] # c
        /\ \A s \in Rack : dialled[s] # c
    BY <2>1 DEF SocketInv, FreeIsClean, Routed, Held
  <2>3. RackOn(r, c)'
    <3>1. up'[c] = <<Hello(r)>> \o Reack(r) /\ socket'[c] = "accepted"
      BY <2>1 DEF TypeOK
    <3>2. LastAckIs(up'[c], version'[r])
      BY <2>1, <3>1, HelloAck
    <3>3. settings'[r].key = None => UnpairedRack(r, c)'
      BY <2>1, <2>2, <3>1, HelloAck DEF UnpairedRack
    <3> QED BY <2>1, <2>2, <3>2, <3>3 DEF RackOn
  <2>4. ASSUME NEW s \in Rack, s # r, dialled[s] # None PROVE RackOn(s, dialled[s])'
    <3>1. /\ dialled'[s] = dialled[s]
          /\ up'[dialled[s]] = up[dialled[s]] /\ socket'[dialled[s]] = socket[dialled[s]]
      BY <2>1, <2>2, <2>4 DEF TypeOK
    <3> QED BY <1>1, <2>1, <2>4, <3>1
  <2>5. dialled'[r] = c /\ \A s \in Rack : s # r => dialled'[s] = dialled[s]
    BY <2>1 DEF TypeOK
  <2> QED BY <2>3, <2>4, <2>5 DEF RackInv
<1>12. ASSUME NEW r \in Rack, Boot(r) PROVE RackInv'
  <2>1. /\ dialled[r] = None
        /\ UNCHANGED <<dialled, up, down, socket, connections, acked>>
    BY <1>12 DEF Boot, SocketInv, Exclusive
  <2>2. \A s \in Rack : s # r => settings'[s] = settings[s] /\ version'[s] = version[s]
    BY <1>12 DEF Boot, TypeOK
  <2> QED BY <1>1, <2>1, <2>2 DEF RackInv
\* The rack of a message reads it, and no other does.
<1>13. ASSUME NEW r \in Rack, NEW type, Receives(r, type), Take(dialled[r]),
              UNCHANGED <<hub, sockets, dialled>>,
              up' = up \/ \E m : up' = [up EXCEPT ![dialled[r]] = m],
              \A s \in Rack : s # r => settings'[s] = settings[s] /\ version'[s] = version[s],
              RackOn(r, dialled[r])'
       PROVE  RackInv'
  <2>1. ASSUME NEW s \in Rack, s # r, dialled[s] # None PROVE RackOn(s, dialled[s])'
    <3>1. dialled[s] # dialled[r] /\ dialled[s] \in Conn
      BY <2>1 DEF SocketInv, Exclusive, TypeOK
    <3>2. up'[dialled[s]] = up[dialled[s]] /\ down'[dialled[s]] = down[dialled[s]]
      BY <1>13, <3>1 DEF Take, TypeOK
    <3> QED BY <1>1, <1>13, <2>1, <3>2
  <2> QED BY <1>13, <2>1 DEF RackInv
<1>14. ASSUME NEW r \in Rack, Paired(r) PROVE RackInv'
  <2> DEFINE c == dialled[r]
  <2>1. /\ Receives(r, "paired") /\ Take(c)
        /\ UNCHANGED <<hub, sockets, up, dialled>>
        /\ c \in Conn /\ c # None
    BY <1>14, ReceivesType DEF Paired
  <2>2. RackOn(r, c)
    BY <2>1 DEF RackInv
  <2>3. CASE settings[r].key # None
    <3>1. UNCHANGED <<settings, version>>
      BY <1>14, <2>3 DEF Paired
    <3>2. RackOn(r, c)'
      BY <2>1, <2>2, <2>3, <3>1 DEF RackOn
    <3> QED BY <1>13, <2>1, <3>1, <3>2
  <2>4. CASE settings[r].key = None
    <3>1. /\ settings' = [settings EXCEPT ![r] =
                            [token |-> None, key |-> Head(down[c]).key]]
          /\ version' = [version EXCEPT ![r] = None]
      BY <1>14, <2>4 DEF Paired
    <3>2. version'[r] = None
      BY <3>1 DEF TypeOK
    <3>3. NoAckIn(up[c]) /\ \A d \in Row : connections[d] = c => acked[d] = None
      BY <2>2, <2>4 DEF RackOn, UnpairedRack
    <3>4. settings'[r].key # None
      BY <3>1, <2>1, ReceivesType, CredentialAssumption DEF TypeOK
    <3>5. RackOn(r, c)'
      BY <2>1, <3>2, <3>3, <3>4 DEF RackOn, LastAckIs, NoAckIn
    <3>6. \A s \in Rack : s # r => settings'[s] = settings[s] /\ version'[s] = version[s]
      BY <3>1 DEF TypeOK
    <3> QED BY <1>13, <2>1, <3>5, <3>6
  <2> QED BY <2>3, <2>4
<1>15. ASSUME NEW r \in Rack, Config(r) PROVE RackInv'
  <2> DEFINE c == dialled[r]
             v == Pushed(r).version
  <2>1. /\ Receives(r, "config") /\ Take(c)
        /\ UNCHANGED <<hub, sockets, dialled, settings>>
    BY <1>15 DEF Config, SkipPush, IgnorePush, RefusePush, ReclockPush, ApplyPush,
                 Considers
  <2>2. \/ Answer(c, Ack(v)) /\ version' = [version EXCEPT ![r] = v]
        \/ Answer(c, Nack(v)) /\ UNCHANGED version
        \/ UNCHANGED <<up, version>>
    <3>1. SkipPush(r) => Answer(c, Ack(v)) /\ version' = [version EXCEPT ![r] = v]
      BY DEF SkipPush, TypeOK
    <3>2. IgnorePush(r) => UNCHANGED <<up, version>>
      BY DEF IgnorePush
    <3>3. RefusePush(r) => Answer(c, Nack(v)) /\ UNCHANGED version
      BY DEF RefusePush
    <3>4. ReclockPush(r) \/ ApplyPush(r) =>
            \/ Answer(c, Ack(v)) /\ version' = [version EXCEPT ![r] = v]
            \/ Answer(c, Nack(v)) /\ UNCHANGED version
      BY Zenon DEF ReclockPush, ApplyPush
    <3> QED BY <1>15, <3>1, <3>2, <3>3, <3>4 DEF Config
  <2>3. c \in Conn /\ c # None /\ v \in Nat /\ up[c] \in Seq(FromRack)
    <3>1. c \in Conn /\ Pushed(r) \in Snapshot
      BY <2>1, ReceivesType
    <3>2. v \in Nat
      BY <3>1 DEF Snapshot
    <3>3. up[c] \in Seq(FromRack)
      BY <3>1 DEF TypeOK
    <3> QED BY <3>1, <3>2, <3>3, NoneAssumption
  <2>4. RackOn(r, c)
    BY <2>3 DEF RackInv
  <2>5. settings[r].key # None
    <3>1. Head(down[c]).type = "config" /\ down[c] # <<>>
      BY <2>1 DEF Receives
    <3> QED BY <2>4, <3>1 DEF RackOn, UnpairedRack
  <2>6. \A s \in Rack : s # r => version'[s] = version[s]
    BY <2>2 DEF TypeOK
  <2>7. up' = up \/ \E m : up' = [up EXCEPT ![c] = m]
    BY <2>2 DEF Answer
  <2>8. c' = c
    BY <2>1
  <2> HIDE DEF c, v
  <2>9. RackOn(r, c)'
    <3>1. CASE socket[c] = "closed"
      <4>1. up[c] = <<>> /\ \A d \in Row : connections[d] # c
        BY <3>1, <2>3 DEF SocketInv, FreeIsClean, Routed
      <4>2. up'[c] = <<>>
        BY <2>2, <3>1, <4>1 DEF Answer
      <4>3. LastAckIs(<<>>, version'[r])
        BY DEF LastAckIs
      <4> QED BY <2>1, <2>5, <2>8, <4>1, <4>2, <4>3 DEF RackOn
    <3>2. CASE UNCHANGED <<up, version>>
      BY <2>1, <2>4, <2>5, <2>8, <3>2 DEF RackOn
    <3>3. CASE socket[c] # "closed" /\ Answer(c, Ack(v)) /\ version' = [version EXCEPT ![r] = v]
      <4>1. up'[c] = Append(up[c], Ack(v)) /\ version'[r] = v
        BY <2>3, <3>3 DEF Answer, TypeOK
      <4> QED BY <2>1, <2>3, <2>5, <2>8, <4>1, AppendAck DEF RackOn
    <3>4. CASE socket[c] # "closed" /\ Answer(c, Nack(v)) /\ UNCHANGED version
      <4>1. up'[c] = Append(up[c], Nack(v)) /\ version'[r] = version[r]
        BY <2>3, <3>4 DEF Answer, TypeOK
      <4> QED BY <2>1, <2>3, <2>4, <2>5, <2>8, <4>1, AppendNack DEF RackOn
    <3> QED BY <2>2, <3>1, <3>2, <3>3, <3>4
  <2> QED BY <1>13, <2>1, <2>6, <2>7, <2>9 DEF c
<1>16. CASE Interface
  <2>1. ASSUME NEW e \in Editor, NEW affected \in SUBSET Row, SaveEdit(e, affected)
        PROVE  RackInv'
    BY <2>1, <1>5, SaveEditTodo DEF SaveEdit
  <2>2. ASSUME NEW e \in Editor, ResumePushing(e) PROVE RackInv'
    BY <2>2, <1>5 DEF ResumePushing, TypeOK
  <2>3. CASE \E d \in Row : CreateDaemon(d) \/ RotateKey(d) \/ DeleteDaemon(d)
    BY <2>3, <1>2 DEF CreateDaemon, RotateKey, DeleteDaemon
  <2> QED BY <1>16, <2>1, <2>2, <2>3 DEF Interface
<1>17. ASSUME NEW c \in Conn, Socket(c) PROVE RackInv'
  <2>1. ASSUME NEW d \in Row, HelloWithKey(c, d) PROVE RackInv'
    BY <2>1, <1>4 DEF HelloWithKey
  <2>2. CASE GreetPaired(c)
    <3>1. up[c] # <<>>
      BY <2>2 DEF GreetPaired, HelloKept
    <3> QED BY <2>2, <3>1, <1>4 DEF GreetPaired
  <2>3. CASE HelloRefused(c) \/ CloseSuperseded(c) \/ SeeDisconnect(c) \/ LoseSocket(c)
    BY <2>3, <1>3 DEF HelloRefused, CloseSuperseded, SeeDisconnect, LoseSocket
  <2> QED BY <1>17, <1>8, <1>9, <1>10, <2>1, <2>2, <2>3 DEF Socket
<1>18. ASSUME NEW r \in Rack, Daemon(r) PROVE RackInv'
  <2>1. CASE Crash(r) \/ Exit(r) \/ LinkClosed(r) \/ LoseLink(r)
    <3>1. LetGo(r) /\ UNCHANGED <<hub, up>>
      BY <2>1 DEF Crash, Exit, Halt, LinkClosed, LoseLink
    <3>2. \A s \in Rack : s # r => settings'[s] = settings[s] /\ version'[s] = version[s]
      BY <2>1 DEF Crash, Exit, Halt, LinkClosed, LoseLink, TypeOK
    <3> QED BY <1>6, <3>1, <3>2
  <2>2. CASE Signal(r) \/ \E d \in Row : Connect(r, d)
    BY <2>2, <1>2 DEF Signal, Connect
  <2> QED BY <1>18, <1>11, <1>12, <1>14, <1>15, <2>1, <2>2 DEF Daemon
<1>19. CASE UNCHANGED vars
  BY <1>2, <1>19 DEF vars
<1> QED BY <1>7, <1>16, <1>17, <1>18, <1>19 DEF Next

LEMMA AckInvInit == Init => TokensAreNoKeys /\ RackInv
BY DEF Init, TokensAreNoKeys, NoKey, NoLink, RackInv

\* The hub routes a row only to a socket served for it, no rack is greeted by a
\* key before it was given one, and a rack's last ack under way, or the version
\* the hub has confirmed, is of what it runs (Hub.record_ack, LinkClient._config).
THEOREM AckInvariant == Spec => []AckInv
BY AckInvInit, SocketInit, SocketStep, TokensStep, RackStep, TypeInvariant, PTL
DEF Spec, AckInv

\* What the interface shows as applied is what the rack at the other end of the
\* row's connection runs, once its acks are read: Hub.record_ack believes only
\* the current connection, and a rack acks only what it runs.
THEOREM AckTruthful == Spec => []AckTruth
<1>1. AckInv => AckTruth
  BY DEF AckInv, RackInv, RackOn, AckTruth, OnLine, NoAckInFlight, NoAckIn
<1> QED BY <1>1, AckInvariant, PTL
=============================================================================
