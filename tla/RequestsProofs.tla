--------------------------- MODULE RequestsProofs ---------------------------
(***************************************************************************)
(* Type correctness of Requests and its safety invariants.  TypeOK alone   *)
(* is not inductive: the hub reads a reply's fields off whatever comes     *)
(* after a hello, and the link thread answers whatever it has in hand.     *)
(***************************************************************************)
EXTENDS Requests, FiniteSetTheorems, TLAPS

-----------------------------------------------------------------------------
\* A rack's thread that is not down has a connection, which it dialled.
Wired ==
  /\ \A r \in Rack : at[r] # NoConn => dialled[at[r]] = r
  /\ \A r \in Rack : link[r] # "down" => at[r] # NoConn
  /\ \A c \in Conn : socket[c] = "unused" <=> dialled[c] = None

\* What the link thread holds is what its step is about.
Held ==
  \A r \in Rack :
    /\ link[r] = "handling" => hand[r] \in Question
    /\ link[r] \in {"ready", "sending"} => hand[r] \in Reply \cup {Hello, Beat}

\* A hello is the first message of its connection, and is read by whoever
\* registers it.
HelloFirst ==
  /\ \A c \in Conn : \A i \in 1..Len(up[c]) : up[c][i] = Hello => i = 1 /\ c \notin handlers
  /\ \A c \in Conn : socket[c] = "unused" => up[c] = <<>> /\ c \notin handlers
  /\ \A r \in Rack : link[r] \in {"ready", "sending"} /\ hand[r] = Hello =>
                       up[at[r]] = <<>> /\ at[r] \notin handlers

Tabled == pending = InFlight

TypeInv == TypeOK /\ Tabled /\ Wired /\ Held /\ HelloFirst

-----------------------------------------------------------------------------
(* What the operators the actions are built from return.                   *)

\* The messages are told apart by their type, and none is None.
LEMMA Distinct ==
  /\ None \notin Rack /\ None \notin Reply /\ None # Gone /\ None # Hello /\ None # Beat
  /\ Hello \notin Reply /\ Beat \notin Reply /\ Gone \notin Reply
  /\ Hello # Beat /\ Idle \notin Wait /\ NoConn \notin Conn
<1>1. Hello.type = "hello" /\ Beat.type = "beat" /\ Gone.type = "gone"
  BY DEF Hello, Beat, Gone
<1>2. \A m \in Reply : m.type = "reply"
  BY DEF Reply
<1>3. \A w \in Wait : w.phase # "idle"
  BY DEF Wait
<1>4. Idle.phase = "idle"
  BY DEF Idle
<1> QED BY <1>1, <1>2, <1>3, <1>4, NoneAssumption DEF NoConn, Conn

\* A handler waits exactly while its record is a wait.
LEMMA WaitType ==
  ASSUME TypeOK, NEW a \in Asker
  PROVE  /\ ask[a] \in Wait \cup {Idle}
         /\ a \in InFlight <=> ask[a] \in Wait
         /\ a \in InFlight <=> ask[a] # Idle
<1>1. ask[a] \in Wait \cup {Idle}
  BY DEF TypeOK
<1>2. Idle.phase = "idle" /\ \A w \in Wait : w.phase # "idle"
  BY DEF Idle, Wait
<1> QED BY <1>1, <1>2, Distinct DEF InFlight

\* Every record of `now` is that of `ask`, but for what its future holds.
SameWaits(now) ==
  /\ now \in [Asker -> Wait \cup {Idle}]
  /\ \A a \in Asker :
       IF ask[a] = Idle THEN now[a] = Idle
       ELSE /\ now[a] \in Wait /\ now[a].id = ask[a].id
            /\ now[a].rack = ask[a].rack /\ now[a].kind = ask[a].kind
            /\ now[a].via = ask[a].via

LEMMA SetGot ==
  ASSUME NEW w \in Wait, NEW g \in {None, Gone} \cup Reply
  PROVE  /\ [w EXCEPT !.got = g] \in Wait
         /\ [w EXCEPT !.got = g].rack = w.rack /\ [w EXCEPT !.got = g].kind = w.kind
         /\ [w EXCEPT !.got = g].via = w.via /\ [w EXCEPT !.got = g].id = w.id
         /\ [w EXCEPT !.got = g].got = g
BY DEF Wait

LEMMA AskSame == ASSUME TypeOK PROVE SameWaits(ask)
BY WaitType DEF TypeOK, SameWaits

LEMMA DeliveredSame ==
  ASSUME TypeOK, NEW r, NEW reply \in Reply, Tabled
  PROVE  SameWaits(Delivered(r, reply))
<1>1. ASSUME NEW a \in Asker, ask[a] # Idle
      PROVE  /\ Delivered(r, reply)[a] \in Wait
             /\ Delivered(r, reply)[a].rack = ask[a].rack
             /\ Delivered(r, reply)[a].kind = ask[a].kind
             /\ Delivered(r, reply)[a].via = ask[a].via
             /\ Delivered(r, reply)[a].id = ask[a].id
  BY <1>1, WaitType, SetGot DEF Delivered, Tabled
<1>2. ASSUME NEW a \in Asker, ask[a] = Idle
      PROVE  Delivered(r, reply)[a] = Idle
  BY <1>2, WaitType DEF Delivered, Tabled
<1>3. Delivered(r, reply) \in [Asker -> Wait \cup {Idle}]
  <2>1. \A a \in Asker : Delivered(r, reply)[a] \in Wait \cup {Idle}
    BY <1>1, <1>2
  <2>2. Delivered(r, reply) = [a \in Asker |-> Delivered(r, reply)[a]]
    BY DEF Delivered
  <2> QED BY <2>1, <2>2
<1> QED BY <1>1, <1>2, <1>3 DEF SameWaits

LEMMA AbandonedSame ==
  ASSUME TypeOK, NEW r, Tabled
  PROVE  SameWaits(Abandoned(r))
<1>1. ASSUME NEW a \in Asker, ask[a] # Idle
      PROVE  /\ Abandoned(r)[a] \in Wait
             /\ Abandoned(r)[a].rack = ask[a].rack
             /\ Abandoned(r)[a].kind = ask[a].kind
             /\ Abandoned(r)[a].via = ask[a].via
             /\ Abandoned(r)[a].id = ask[a].id
  BY <1>1, WaitType, SetGot DEF Abandoned, Tabled
<1>2. ASSUME NEW a \in Asker, ask[a] = Idle
      PROVE  Abandoned(r)[a] = Idle
  BY <1>2, WaitType DEF Abandoned, Tabled
<1>3. Abandoned(r) \in [Asker -> Wait \cup {Idle}]
  <2>1. \A a \in Asker : Abandoned(r)[a] \in Wait \cup {Idle}
    BY <1>1, <1>2
  <2>2. Abandoned(r) = [a \in Asker |-> Abandoned(r)[a]]
    BY DEF Abandoned
  <2> QED BY <2>1, <2>2
<1> QED BY <1>1, <1>2, <1>3 DEF SameWaits

LEMMA DropSame ==
  ASSUME TypeOK, NEW c, Tabled
  PROVE  SameWaits(WaitsAfterDrop(c))
BY AskSame, AbandonedSame DEF WaitsAfterDrop

LEMMA DropType ==
  ASSUME TypeOK, NEW c \in Conn, Drop(c)
  PROVE  conn' \in [Rack -> Conn \cup {NoConn}] /\ closed' \subseteq Conn
BY DEF TypeOK, Drop

\* The same handlers wait after a step that only resolves waits.
LEMMA SameInFlight ==
  ASSUME TypeOK, SameWaits(ask'), UNCHANGED pending, Tabled
  PROVE  Tabled'
<1>1. \A a \in Asker : a \in InFlight <=> ask'[a].phase # "idle"
  <2> SUFFICES ASSUME NEW a \in Asker
               PROVE  a \in InFlight <=> ask'[a].phase # "idle"
    OBVIOUS
  <2>1. ask[a] = Idle => ask'[a] = Idle
    BY DEF SameWaits
  <2>2. ask[a] # Idle => ask'[a] \in Wait
    BY DEF SameWaits
  <2>3. Idle.phase = "idle" /\ \A w \in Wait : w.phase # "idle"
    BY DEF Idle, Wait
  <2> QED BY <2>1, <2>2, <2>3, WaitType
<1> QED BY <1>1 DEF Tabled, InFlight

\* A step that leaves the rack and what goes up to the server alone.
LEMMA Untouched ==
  ASSUME TypeInv, UNCHANGED <<dialled, socket, up, handlers, link, at, hand>>
  PROVE  Wired' /\ Held' /\ HelloFirst'
BY DEF TypeInv, Wired, Held, HelloFirst

\* A wait that opens or ends leaves the others alone, and the table is right.
LEMMA Opens ==
  ASSUME TypeOK, Tabled, NEW a \in Asker, NEW w \in Wait,
         ask' = [ask EXCEPT ![a] = w], pending' = pending \cup {a}
  PROVE  Tabled' /\ ask' \in [Asker -> Wait \cup {Idle}]
<1>1. w.phase # "idle"
  BY DEF Wait
<1>2. ask \in [Asker -> Wait \cup {Idle}]
  BY DEF TypeOK
<1> QED BY <1>1, <1>2 DEF Tabled, InFlight

LEMMA Ends ==
  ASSUME TypeOK, Tabled, NEW a \in Asker, NEW now, SameWaits(now),
         ask' = [now EXCEPT ![a] = Idle], pending' = pending \ {a}
  PROVE  Tabled' /\ ask' \in [Asker -> Wait \cup {Idle}]
<1>1. now \in [Asker -> Wait \cup {Idle}]
  BY DEF SameWaits
<1>2. \A b \in Asker : b \in InFlight <=> now[b].phase # "idle"
  <2> SUFFICES ASSUME NEW b \in Asker
               PROVE  b \in InFlight <=> now[b].phase # "idle"
    OBVIOUS
  <2>1. (ask[b] = Idle => now[b] = Idle) /\ (ask[b] # Idle => now[b] \in Wait)
    BY DEF SameWaits
  <2>2. Idle.phase = "idle" /\ \A w \in Wait : w.phase # "idle"
    BY DEF Idle, Wait
  <2> QED BY <2>1, <2>2, WaitType
<1>3. Idle.phase = "idle"
  BY DEF Idle
<1>4. \A b \in Asker : ask'[b] = IF b = a THEN Idle ELSE now[b]
  BY <1>1
<1>5. InFlight' = {b \in Asker : ask'[b].phase # "idle"}
  BY DEF InFlight
<1>6. InFlight' = InFlight \ {a}
  <2>1. \A b \in Asker : ask'[b].phase # "idle" <=> b \in InFlight /\ b # a
    BY <1>2, <1>3, <1>4
  <2>2. InFlight \subseteq Asker
    BY DEF InFlight
  <2> QED BY <1>5, <2>1, <2>2
<1> QED BY <1>1, <1>6 DEF Tabled

-----------------------------------------------------------------------------
(* Each action keeps TypeInv.                                              *)

LEMMA AskTyped ==
  ASSUME TypeInv, NEW a \in Asker, NEW r \in Rack, NEW kind \in Kind, Ask(a, r, kind)
  PROVE  TypeInv'
<1> USE DEF TypeInv
<1> DEFINE w == [phase |-> "sending", rack |-> r, kind |-> kind, id |-> NextId,
                 via |-> conn[r], got |-> None]
<1>1. NextId \in 1..MaxQuestions /\ conn[r] \in Conn
  BY BoundsAssumption DEF Ask, TypeOK, NextId, NoConn
<1>2. w \in Wait
  BY <1>1 DEF Wait
<1>3. Tabled' /\ ask' \in [Asker -> Wait \cup {Idle}]
  BY <1>2, Opens DEF Ask
<1>4. down' \in [Conn -> Seq(Question)]
  <2>1. [type |-> "question", id |-> NextId, kind |-> kind] \in Question
    BY <1>1 DEF Question
  <2> QED BY <1>1, <2>1 DEF TypeOK, Ask
<1>5. asked' \in 0..MaxQuestions /\ pending' \subseteq Asker /\ probing' \subseteq Rack
  BY <1>1 DEF TypeOK, Ask
<1>6. TypeOK'
  BY <1>3, <1>4, <1>5 DEF TypeOK, Ask, hub, rack
<1> QED BY <1>3, <1>6, Untouched DEF Ask, hub, rack

LEMMA SendReturnsTyped ==
  ASSUME TypeInv, NEW a \in Asker, SendReturns(a)
  PROVE  TypeInv'
<1> USE DEF TypeInv
<1>1. ask[a] \in Wait
  BY WaitType DEF SendReturns, InFlight
<1>2. [ask[a] EXCEPT !.phase = "waiting"] \in Wait
  BY <1>1 DEF Wait
<1>3. ask' = [ask EXCEPT ![a] = [ask[a] EXCEPT !.phase = "waiting"]]
  BY DEF SendReturns
<1>4. pending' = pending \cup {a}
  BY <1>1, WaitType DEF SendReturns, Tabled
<1>5. Tabled' /\ ask' \in [Asker -> Wait \cup {Idle}]
  BY <1>2, <1>3, <1>4, Opens
<1>6. TypeOK'
  BY <1>5 DEF TypeOK, SendReturns, wires, hub, rack
<1> QED BY <1>5, <1>6, Untouched DEF SendReturns, wires, hub, rack

LEMMA WayOutTyped ==
  ASSUME TypeInv, NEW a \in Asker, NEW now, SameWaits(now), WayOut(a, now),
         conn' \in [Rack -> Conn \cup {NoConn}], closed' \subseteq Conn, UNCHANGED handlers
  PROVE  TypeInv'
<1> USE DEF TypeInv
<1>1. Tabled' /\ ask' \in [Asker -> Wait \cup {Idle}]
  BY Ends DEF WayOut
<1>2. pending' \subseteq Asker /\ probing' \subseteq Rack
  BY DEF WayOut, Release, TypeOK
<1>3. TypeOK'
  BY <1>1, <1>2 DEF TypeOK, WayOut, wires, rack
<1> QED BY <1>1, <1>3, Untouched DEF WayOut, wires, rack

LEMMA AskerTyped ==
  ASSUME TypeInv, NEW a \in Asker, AskerStep(a)
  PROVE  TypeInv'
<1> USE DEF TypeInv
<1>1. CASE SendReturns(a)
  BY <1>1, SendReturnsTyped
<1>2. CASE SendFails(a)
  <2>1. ask[a] \in Wait
    BY <1>2, WaitType DEF SendFails, InFlight
  <2>2. ask[a].via \in Conn
    BY <2>1 DEF Wait
  <2> QED BY <1>2, <2>2, DropSame, DropType, WayOutTyped DEF SendFails
<1>3. CASE Answered(a)
  BY <1>3, AskSame, WayOutTyped DEF Answered, hub, TypeOK
<1>4. CASE GiveUp(a)
  BY <1>4, AskSame, WayOutTyped DEF GiveUp, hub, TypeOK
<1> QED BY <1>1, <1>2, <1>3, <1>4 DEF AskerStep

\* The first message taken off a connection.
LEMMA TailOf ==
  ASSUME NEW Message, NEW s \in Seq(Message), s # <<>>
  PROVE  /\ Head(s) \in Message /\ Head(s) = s[1] /\ 1 \in 1..Len(s)
         /\ Tail(s) \in Seq(Message)
         /\ \A i \in 1..Len(Tail(s)) : i + 1 \in 1..Len(s) /\ Tail(s)[i] = s[i + 1]
OBVIOUS

\* Taking the first message off a connection leaves no hello on it.
LEMMA TakenUp ==
  ASSUME TypeInv, NEW c \in Conn, up[c] # <<>>, up' = [up EXCEPT ![c] = Tail(@)]
  PROVE  /\ up' \in [Conn -> Seq(Reply \cup {Hello})]
         /\ \A i \in 1..Len(up'[c]) : up'[c][i] # Hello
         /\ \A d \in Conn \ {c} : up'[d] = up[d]
         /\ 1 \in 1..Len(up[c]) /\ Head(up[c]) = up[c][1] /\ up[c][1] \in Reply \cup {Hello}
<1>1. up \in [Conn -> Seq(Reply \cup {Hello})]
  BY DEF TypeInv, TypeOK
<1>2. up[c] \in Seq(Reply \cup {Hello})
  BY <1>1
<1>3. /\ Head(up[c]) \in Reply \cup {Hello} /\ Head(up[c]) = up[c][1] /\ 1 \in 1..Len(up[c])
      /\ Tail(up[c]) \in Seq(Reply \cup {Hello})
      /\ \A i \in 1..Len(Tail(up[c])) : i + 1 \in 1..Len(up[c]) /\ Tail(up[c])[i] = up[c][i + 1]
  BY <1>2, TailOf
<1>4. up'[c] = Tail(up[c])
  BY <1>1
<1>5. \A i \in 1..Len(up'[c]) : up'[c][i] # Hello
  <2> SUFFICES ASSUME NEW i \in 1..Len(Tail(up[c])), Tail(up[c])[i] = Hello PROVE FALSE
    BY <1>4
  <2>1. i + 1 \in 1..Len(up[c]) /\ up[c][i + 1] = Hello
    BY <1>3
  <2>2. i + 1 = 1
    BY <2>1 DEF TypeInv, HelloFirst
  <2>3. i \in Nat \ {0}
    BY <1>3
  <2> QED BY <2>2, <2>3
<1> QED BY <1>1, <1>3, <1>5

LEMMA RegisterTyped ==
  ASSUME TypeInv, NEW c \in Conn, Register(c)
  PROVE  TypeInv'
<1>1. up[c] # <<>> /\ up' = [up EXCEPT ![c] = Tail(@)]
  BY DEF Register
<1>2. conn' \in [Rack -> Conn \cup {NoConn}] /\ closed' \subseteq Conn
  <2>1. dialled[c] \in Rack
    BY <1>1 DEF TypeInv, TypeOK, Wired, HelloFirst
  <2> QED BY <2>1 DEF Register, TypeInv, TypeOK
<1>3. TypeOK'
  BY <1>1, <1>2, TakenUp DEF Register, TypeInv, TypeOK, waits, rack
<1>4. HelloFirst'
  <2>1. \A d \in Conn : \A i \in 1..Len(up'[d]) : up'[d][i] = Hello => i = 1 /\ d \notin handlers'
    <3>1. /\ \A k \in 1..Len(up'[c]) : up'[c][k] # Hello
          /\ \A d \in Conn \ {c} : up'[d] = up[d]
      BY <1>1, TakenUp
    <3>2. \A d \in Conn : \A i \in 1..Len(up[d]) : up[d][i] = Hello => i = 1 /\ d \notin handlers
      BY DEF TypeInv, HelloFirst
    <3>3. handlers' = handlers \cup {c}
      BY DEF Register
    <3> QED BY <3>1, <3>2, <3>3
  <2>2. \A d \in Conn : socket'[d] = "unused" => up'[d] = <<>> /\ d \notin handlers'
    BY <1>1, TakenUp DEF Register, TypeInv, HelloFirst
  <2>3. ASSUME NEW r \in Rack, link'[r] \in {"ready", "sending"}, hand'[r] = Hello
        PROVE  up'[at'[r]] = <<>> /\ at'[r] \notin handlers'
    <3>1. up[at[r]] = <<>> /\ at[r] \notin handlers /\ at[r] \in Conn /\ at'[r] = at[r]
      BY <2>3 DEF Register, TypeInv, HelloFirst, Wired, TypeOK, rack
    <3>2. at[r] # c
      BY <1>1, <3>1
    <3> QED BY <1>1, <3>1, <3>2, TakenUp DEF Register
  <2> QED BY <2>1, <2>2, <2>3 DEF HelloFirst
<1> QED BY <1>3, <1>4 DEF Register, TypeInv, Tabled, InFlight, Wired, Held, waits, rack

LEMMA ReadTyped ==
  ASSUME TypeInv, NEW c \in Conn, Read(c)
  PROVE  TypeInv'
<1>1. up[c] # <<>> /\ up' = [up EXCEPT ![c] = Tail(@)] /\ c \in handlers
  BY DEF Read
<1>2. Head(up[c]) \in Reply
  BY <1>1, TakenUp DEF TypeInv, HelloFirst
<1>3. SameWaits(ask')
  BY <1>2, DeliveredSame DEF Read, TypeInv
<1>4. Tabled'
  BY <1>3, SameInFlight DEF Read, TypeInv
<1>5. TypeOK'
  BY <1>1, <1>3, TakenUp DEF Read, TypeInv, TypeOK, SameWaits, hub, rack
<1>6. HelloFirst'
  <2>1. \A d \in Conn : \A i \in 1..Len(up'[d]) : up'[d][i] = Hello => i = 1 /\ d \notin handlers'
    BY <1>1, TakenUp DEF Read, TypeInv, HelloFirst, hub
  <2>2. \A d \in Conn : socket'[d] = "unused" => up'[d] = <<>> /\ d \notin handlers'
    BY <1>1, TakenUp DEF Read, TypeInv, HelloFirst, hub
  <2>3. ASSUME NEW r \in Rack, link'[r] \in {"ready", "sending"}, hand'[r] = Hello
        PROVE  up'[at'[r]] = <<>> /\ at'[r] \notin handlers'
    <3>1. up[at[r]] = <<>> /\ at[r] \notin handlers /\ at[r] \in Conn /\ at'[r] = at[r]
      BY <2>3 DEF Read, TypeInv, HelloFirst, Wired, TypeOK, rack
    <3>2. at[r] # c
      BY <1>1, <3>1
    <3> QED BY <1>1, <3>1, <3>2, TakenUp DEF Read, hub
  <2> QED BY <2>1, <2>2, <2>3 DEF HelloFirst
<1> QED BY <1>4, <1>5, <1>6 DEF Read, TypeInv, Wired, Held, rack

\* A connection is done with, and what it had not read is gone.
LEMMA Emptied ==
  ASSUME TypeInv, NEW c \in Conn, up' = [up EXCEPT ![c] = <<>>],
         handlers' \subseteq handlers, UNCHANGED <<dialled, socket, link, at, hand>>
  PROVE  /\ up' \in [Conn -> Seq(Reply \cup {Hello})]
         /\ Wired' /\ Held' /\ HelloFirst'
<1>1. up \in [Conn -> Seq(Reply \cup {Hello})]
  BY DEF TypeInv, TypeOK
<1>2. /\ up' \in [Conn -> Seq(Reply \cup {Hello})] /\ up'[c] = <<>>
      /\ \A d \in Conn \ {c} : up'[d] = up[d]
  BY <1>1
<1>3. HelloFirst'
  <2>1. \A d \in Conn : \A i \in 1..Len(up'[d]) : up'[d][i] = Hello => i = 1 /\ d \notin handlers'
    BY <1>2 DEF TypeInv, HelloFirst
  <2>2. \A d \in Conn : socket'[d] = "unused" => up'[d] = <<>> /\ d \notin handlers'
    BY <1>2 DEF TypeInv, HelloFirst
  <2>3. \A r \in Rack : link'[r] \in {"ready", "sending"} /\ hand'[r] = Hello =>
                         up'[at'[r]] = <<>> /\ at'[r] \notin handlers'
    BY <1>2 DEF TypeInv, HelloFirst, Wired, TypeOK
  <2> QED BY <2>1, <2>2, <2>3 DEF HelloFirst
<1> QED BY <1>2, <1>3 DEF TypeInv, Wired, Held

LEMMA HandlerEndsTyped ==
  ASSUME TypeInv, NEW c \in Conn, HandlerEnds(c)
  PROVE  TypeInv'
<1>1. SameWaits(ask')
  BY DropSame DEF HandlerEnds, TypeInv
<1>2. Tabled'
  BY <1>1, SameInFlight DEF HandlerEnds, TypeInv
<1>3. /\ up' \in [Conn -> Seq(Reply \cup {Hello})]
      /\ Wired' /\ Held' /\ HelloFirst'
  BY Emptied DEF HandlerEnds, rack
<1>4. conn' \in [Rack -> Conn \cup {NoConn}] /\ closed' \subseteq Conn
  BY DropType DEF HandlerEnds, TypeInv
<1>5. TypeOK'
  BY <1>1, <1>3, <1>4 DEF HandlerEnds, TypeInv, TypeOK, SameWaits, rack
<1> QED BY <1>2, <1>3, <1>5 DEF TypeInv

LEMMA HelloLostTyped ==
  ASSUME TypeInv, NEW c \in Conn, HelloLost(c)
  PROVE  TypeInv'
<1>1. /\ up' \in [Conn -> Seq(Reply \cup {Hello})]
      /\ Wired' /\ Held' /\ HelloFirst'
  BY Emptied DEF HelloLost, rack
<1>2. TypeOK'
  BY <1>1 DEF HelloLost, TypeInv, TypeOK, waits, rack
<1> QED BY <1>1, <1>2 DEF HelloLost, TypeInv, Tabled, InFlight, waits

LEMMA HandlerTyped ==
  ASSUME TypeInv, NEW c \in Conn, HandlerStep(c)
  PROVE  TypeInv'
BY RegisterTyped, ReadTyped, HandlerEndsTyped, HelloLostTyped DEF HandlerStep

\* The connection dialled was nobody's, and nothing was sent on it.
LEMMA DialTyped ==
  ASSUME TypeInv, NEW r \in Rack, Dial(r)
  PROVE  TypeInv'
<1>1. PICK c \in Conn :
        /\ socket[c] = "unused"
        /\ socket' = [socket EXCEPT ![c] = "open"]
        /\ dialled' = [dialled EXCEPT ![c] = r]
        /\ at' = [at EXCEPT ![r] = c]
        /\ published' = [published EXCEPT ![r] = TRUE]
  BY DEF Dial
<1>2. /\ link' = [link EXCEPT ![r] = "ready"] /\ hand' = [hand EXCEPT ![r] = Hello]
      /\ UNCHANGED <<down, up, hub, waits, senders, asked, faults>>
  BY DEF Dial
<1>3. TypeOK'
  BY <1>1, <1>2 DEF TypeInv, TypeOK, hub, waits
<1>4. r # None /\ c # NoConn
  BY Distinct
<1>5. Wired'
  <2>1. ASSUME NEW q \in Rack, at'[q] # NoConn
        PROVE  dialled'[at'[q]] = q
    <3>1. CASE q = r
      BY <1>1, <3>1 DEF TypeInv, TypeOK
    <3>2. CASE q # r
      <4>1. at'[q] = at[q] /\ at[q] \in Conn /\ dialled[at[q]] = q
        BY <1>1, <2>1, <3>2 DEF TypeInv, TypeOK, Wired
      <4>2. at[q] # c
        BY <1>1, <4>1, Distinct DEF TypeInv, Wired
      <4> QED BY <1>1, <4>1, <4>2 DEF TypeInv, TypeOK
    <3> QED BY <3>1, <3>2
  <2>2. \A q \in Rack : link'[q] # "down" => at'[q] # NoConn
    BY <1>1, <1>2, <1>4 DEF TypeInv, TypeOK, Wired
  <2>3. \A d \in Conn : socket'[d] = "unused" <=> dialled'[d] = None
    BY <1>1, <1>4 DEF TypeInv, TypeOK, Wired
  <2> QED BY <2>1, <2>2, <2>3 DEF Wired
<1>6. Held'
  BY <1>2 DEF TypeInv, TypeOK, Held
<1>7. HelloFirst'
  <2>1. ASSUME NEW q \in Rack, link'[q] \in {"ready", "sending"}, hand'[q] = Hello
        PROVE  up'[at'[q]] = <<>> /\ at'[q] \notin handlers'
    BY <1>1, <1>2, <2>1 DEF TypeInv, TypeOK, HelloFirst, hub
  <2>2. \A d \in Conn : socket'[d] = "unused" => socket[d] = "unused"
    BY <1>1 DEF TypeInv, TypeOK
  <2> QED BY <1>2, <2>1, <2>2 DEF TypeInv, HelloFirst, hub
<1> QED BY <1>2, <1>3, <1>5, <1>6, <1>7 DEF TypeInv, Tabled, InFlight, waits

\* A step of a rack's thread that touches no socket and sends nothing.
LEMMA InHand ==
  ASSUME TypeInv, NEW r \in Rack, NEW state, NEW m,
         link[r] # "down", state \in {"ready", "sending", "serving", "handling", "ending"},
         m \in Question \cup Reply \cup {Hello, Beat, None},
         state = "handling" => m \in Question,
         state \in {"ready", "sending"} => m \in Reply \cup {Hello, Beat},
         m = Hello => link[r] \in {"ready", "sending"} /\ hand[r] = Hello,
         link' = [link EXCEPT ![r] = state], hand' = [hand EXCEPT ![r] = m],
         UNCHANGED <<dialled, socket, up, handlers, at>>
  PROVE  /\ link' \in [Rack -> {"down", "ready", "sending", "serving", "handling", "ending"}]
         /\ hand' \in [Rack -> Question \cup Reply \cup {Hello, Beat, None}]
         /\ Wired' /\ Held' /\ HelloFirst'
<1>1. /\ link' \in [Rack -> {"down", "ready", "sending", "serving", "handling", "ending"}]
      /\ hand' \in [Rack -> Question \cup Reply \cup {Hello, Beat, None}]
  BY DEF TypeInv, TypeOK
<1>2. \A q \in Rack : IF q = r THEN link'[q] = state /\ hand'[q] = m
                      ELSE link'[q] = link[q] /\ hand'[q] = hand[q]
  BY DEF TypeInv, TypeOK
<1>3. Wired'
  BY <1>2 DEF TypeInv, Wired
<1>4. Held'
  BY <1>2 DEF TypeInv, Held
<1>5. HelloFirst'
  BY <1>2 DEF TypeInv, HelloFirst
<1> QED BY <1>1, <1>3, <1>4, <1>5

LEMMA ReceiveTyped ==
  ASSUME TypeInv, NEW r \in Rack, Receive(r)
  PROVE  TypeInv'
<1> DEFINE m == Head(down[at[r]])
<1>1. at[r] \in Conn /\ down[at[r]] \in Seq(Question) /\ down[at[r]] # <<>>
  BY DEF TypeInv, TypeOK, Wired, Receive
<1>2. m \in Question /\ Tail(down[at[r]]) \in Seq(Question)
  BY <1>1, TailOf
<1>3. m # Hello
  <2>1. m.type = "question" /\ Hello.type = "hello"
    BY <1>2 DEF Question, Hello
  <2> QED BY <2>1
<1>4. down' \in [Conn -> Seq(Question)]
  BY <1>2 DEF TypeInv, TypeOK, Receive
<1>5. /\ link[r] # "down"
      /\ link' = [link EXCEPT ![r] = "handling"] /\ hand' = [hand EXCEPT ![r] = m]
      /\ UNCHANGED <<dialled, socket, up, handlers, at>>
  BY DEF Receive, hub
<1> HIDE DEF m
<1>6. /\ link' \in [Rack -> {"down", "ready", "sending", "serving", "handling", "ending"}]
      /\ hand' \in [Rack -> Question \cup Reply \cup {Hello, Beat, None}]
      /\ Wired' /\ Held' /\ HelloFirst'
  BY <1>2, <1>3, <1>5, InHand
<1>7. TypeOK'
  BY <1>4, <1>6 DEF TypeInv, TypeOK, Receive, hub, waits
<1> QED BY <1>6, <1>7 DEF TypeInv, Tabled, InFlight, Receive, waits

LEMMA HandleTyped ==
  ASSUME TypeInv, NEW r \in Rack, Handle(r)
  PROVE  TypeInv'
<1> DEFINE m == [type |-> "reply", id |-> hand[r].id, kind |-> hand[r].kind, rack |-> r]
<1>1. m \in Reply
  BY DEF TypeInv, Held, Handle, Question, Reply
<1>2. m # Hello
  BY <1>1, Distinct
<1>3. /\ link[r] # "down"
      /\ link' = [link EXCEPT ![r] = "ready"] /\ hand' = [hand EXCEPT ![r] = m]
      /\ UNCHANGED <<dialled, socket, up, handlers, at>>
  BY DEF Handle, hub, wires
<1> HIDE DEF m
<1>4. /\ link' \in [Rack -> {"down", "ready", "sending", "serving", "handling", "ending"}]
      /\ hand' \in [Rack -> Question \cup Reply \cup {Hello, Beat, None}]
      /\ Wired' /\ Held' /\ HelloFirst'
  BY <1>1, <1>2, <1>3, InHand
<1>5. TypeOK'
  BY <1>4 DEF TypeInv, TypeOK, Handle, wires, hub, waits
<1> QED BY <1>4, <1>5 DEF TypeInv, Tabled, InFlight, Handle, waits

LEMMA BeatDueTyped ==
  ASSUME TypeInv, NEW r \in Rack, BeatDue(r)
  PROVE  TypeInv'
<1>1. /\ link[r] # "down"
      /\ link' = [link EXCEPT ![r] = "ready"] /\ hand' = [hand EXCEPT ![r] = Beat]
      /\ UNCHANGED <<dialled, socket, up, handlers, at>>
  BY DEF BeatDue, hub, wires
<1>2. /\ link' \in [Rack -> {"down", "ready", "sending", "serving", "handling", "ending"}]
      /\ hand' \in [Rack -> Question \cup Reply \cup {Hello, Beat, None}]
      /\ Wired' /\ Held' /\ HelloFirst'
  BY <1>1, InHand, Distinct
<1>3. TypeOK'
  BY <1>2 DEF TypeInv, TypeOK, BeatDue, wires, hub, waits
<1> QED BY <1>2, <1>3 DEF TypeInv, Tabled, InFlight, BeatDue, waits

LEMMA LinkSendTyped ==
  ASSUME TypeInv, NEW r \in Rack, LinkSend(r)
  PROVE  TypeInv'
<1>1. /\ link[r] \in {"ready", "sending"}
      /\ link' = [link EXCEPT ![r] = "sending"] /\ hand' = [hand EXCEPT ![r] = hand[r]]
      /\ UNCHANGED <<dialled, socket, up, handlers, at>>
  BY DEF LinkSend, hub, wires, TypeInv, TypeOK
<1>2. hand[r] \in Reply \cup {Hello, Beat}
  BY <1>1 DEF TypeInv, Held
<1>3. /\ link' \in [Rack -> {"down", "ready", "sending", "serving", "handling", "ending"}]
      /\ hand' \in [Rack -> Question \cup Reply \cup {Hello, Beat, None}]
      /\ Wired' /\ Held' /\ HelloFirst'
  BY <1>1, <1>2, InHand
<1>4. senders' \in [Rack -> {{}, {"link"}, {"pump"}}]
  BY DEF TypeInv, TypeOK, LinkSend, TakeLock, LockFree
<1>5. TypeOK'
  BY <1>3, <1>4 DEF TypeInv, TypeOK, LinkSend, wires, hub, waits
<1> QED BY <1>3, <1>5 DEF TypeInv, Tabled, InFlight, LinkSend, waits

LEMMA RecvFailsTyped ==
  ASSUME TypeInv, NEW r \in Rack, RecvFails(r)
  PROVE  TypeInv'
<1>1. link' = [link EXCEPT ![r] = "ending"] /\ UNCHANGED <<dialled, socket, up, handlers, at, hand>>
  BY DEF RecvFails, wires, hub
<1>2. Wired' /\ Held' /\ HelloFirst'
  BY <1>1 DEF RecvFails, TypeInv, TypeOK, Wired, Held, HelloFirst
<1>3. TypeOK'
  BY DEF TypeInv, TypeOK, RecvFails, wires, hub, waits
<1> QED BY <1>2, <1>3 DEF TypeInv, Tabled, InFlight, RecvFails, waits

\* What is sent is added to the end, and is a hello only as the first message.
LEMMA Sent ==
  ASSUME NEW s \in Seq(Reply \cup {Hello}), NEW m \in Reply \cup {Hello}
  PROVE  /\ Append(s, m) \in Seq(Reply \cup {Hello})
         /\ \A i \in 1..Len(Append(s, m)) :
              Append(s, m)[i] = Hello =>
                \/ i \in 1..Len(s) /\ s[i] = Hello
                \/ m = Hello /\ i = Len(s) + 1
OBVIOUS

LEMMA LinkSentTyped ==
  ASSUME TypeInv, NEW r \in Rack, LinkSent(r)
  PROVE  TypeInv'
<1> DEFINE over == IF socket[at[r]] = "dead" THEN "ending" ELSE "serving"
<1>1. /\ link[r] = "sending"
      /\ link' = [link EXCEPT ![r] = over]
      /\ hand' = [hand EXCEPT ![r] = None]
      /\ up' \in {up, [up EXCEPT ![at[r]] = Append(@, hand[r])]}
      /\ up' # up => hand[r] # Beat
      /\ UNCHANGED <<dialled, socket, down, conn, closed, handlers, ask, pending, probing,
                     at, published, asked, faults>>
  BY DEF LinkSent, hub, waits
<1> HIDE DEF over
<1>2. /\ at[r] \in Conn /\ at[r] # NoConn /\ dialled[at[r]] = r /\ r # None
      /\ socket[at[r]] # "unused"
  BY <1>1, Distinct DEF TypeInv, TypeOK, Wired
<1>3. hand[r] \in Reply \cup {Hello, Beat}
  BY <1>1 DEF TypeInv, Held
<1>4. over \in {"ending", "serving"}
  BY DEF over
<1>5. Wired'
  BY <1>1, <1>4 DEF TypeInv, TypeOK, Wired
<1>6. Held'
  BY <1>1, <1>4 DEF TypeInv, TypeOK, Held
<1>7. \A q \in Rack : link'[q] \in {"ready", "sending"} =>
        /\ q # r /\ link[q] \in {"ready", "sending"} /\ hand'[q] = hand[q]
        /\ at[q] \in Conn /\ at[q] # at[r]
  <2> SUFFICES ASSUME NEW q \in Rack, link'[q] \in {"ready", "sending"}
               PROVE  /\ q # r /\ link[q] \in {"ready", "sending"} /\ hand'[q] = hand[q]
                      /\ at[q] \in Conn /\ at[q] # at[r]
    OBVIOUS
  <2>1. q # r /\ link[q] \in {"ready", "sending"} /\ hand'[q] = hand[q]
    BY <1>1, <1>4 DEF TypeInv, TypeOK
  <2>2. at[q] \in Conn /\ dialled[at[q]] = q
    BY <2>1 DEF TypeInv, TypeOK, Wired
  <2> QED BY <1>2, <2>1, <2>2
<1>8. /\ up' \in [Conn -> Seq(Reply \cup {Hello})]
      /\ HelloFirst'
  <2>1. CASE up' = up
    <3>1. HelloFirst'
      BY <1>1, <1>7, <2>1 DEF TypeInv, HelloFirst
    <3> QED BY <2>1, <3>1 DEF TypeInv, TypeOK
  <2>2. CASE up' # up
    <3>1. /\ up' = [up EXCEPT ![at[r]] = Append(up[at[r]], hand[r])]
          /\ hand[r] \in Reply \cup {Hello} /\ up[at[r]] \in Seq(Reply \cup {Hello})
      BY <1>1, <1>2, <1>3, <2>2 DEF TypeInv, TypeOK
    <3>2. up' \in [Conn -> Seq(Reply \cup {Hello})] /\ up'[at[r]] = Append(up[at[r]], hand[r])
      BY <1>2, <3>1, Sent DEF TypeInv, TypeOK
    <3>3. \A c \in Conn \ {at[r]} : up'[c] = up[c]
      BY <3>1 DEF TypeInv, TypeOK
    <3>4. hand[r] = Hello => up[at[r]] = <<>> /\ at[r] \notin handlers
      BY <1>1 DEF TypeInv, HelloFirst
    <3>5. \A i \in 1..Len(up'[at[r]]) : up'[at[r]][i] = Hello => i = 1 /\ at[r] \notin handlers
      <4> SUFFICES ASSUME NEW i \in 1..Len(up'[at[r]]), up'[at[r]][i] = Hello
                   PROVE  i = 1 /\ at[r] \notin handlers
        OBVIOUS
      <4>1. CASE i \in 1..Len(up[at[r]]) /\ up[at[r]][i] = Hello
        BY <1>2, <4>1 DEF TypeInv, HelloFirst
      <4>2. CASE hand[r] = Hello /\ i = Len(up[at[r]]) + 1
        BY <3>4, <4>2
      <4> QED BY <3>1, <3>2, <4>1, <4>2, Sent
    <3>6. \A c \in Conn : \A i \in 1..Len(up'[c]) : up'[c][i] = Hello => i = 1 /\ c \notin handlers'
      BY <1>1, <3>3, <3>5 DEF TypeInv, HelloFirst
    <3>7. \A c \in Conn : socket'[c] = "unused" => up'[c] = <<>> /\ c \notin handlers'
      BY <1>1, <1>2, <3>3 DEF TypeInv, HelloFirst
    <3>8. \A q \in Rack : link'[q] \in {"ready", "sending"} /\ hand'[q] = Hello =>
                           up'[at'[q]] = <<>> /\ at'[q] \notin handlers'
      BY <1>1, <1>7, <3>3 DEF TypeInv, HelloFirst
    <3> QED BY <3>2, <3>6, <3>7, <3>8 DEF HelloFirst
  <2> QED BY <2>1, <2>2
<1>9. senders' \in [Rack -> {{}, {"link"}, {"pump"}}]
  BY DEF TypeInv, TypeOK, LinkSent, LeaveLock
<1>10. TypeOK'
  BY <1>1, <1>4, <1>8, <1>9 DEF TypeInv, TypeOK
<1> QED BY <1>1, <1>5, <1>6, <1>8, <1>10 DEF TypeInv, Tabled, InFlight

\* A socket that was in use is lost, stalled or closed.
LEMMA Downed ==
  ASSUME TypeInv, NEW c \in Conn, NEW state \in {"stalled", "dead"},
         socket[c] # "unused", socket' = [socket EXCEPT ![c] = state],
         UNCHANGED <<dialled, up, handlers, link, at, hand>>
  PROVE  socket' \in [Conn -> {"unused", "open", "stalled", "dead"}]
         /\ Wired' /\ Held' /\ HelloFirst'
<1>1. socket' \in [Conn -> {"unused", "open", "stalled", "dead"}]
  BY DEF TypeInv, TypeOK
<1>2. \A d \in Conn : socket'[d] = "unused" <=> socket[d] = "unused"
  BY DEF TypeInv, TypeOK
<1> QED BY <1>1, <1>2 DEF TypeInv, Wired, Held, HelloFirst

LEMMA EndTyped ==
  ASSUME TypeInv, NEW r \in Rack, End(r)
  PROVE  TypeInv'
<1>1. at[r] \in Conn /\ socket[at[r]] # "unused"
  BY Distinct DEF TypeInv, TypeOK, Wired, End
<1>2. \A d \in Conn : socket'[d] = "unused" <=> socket[d] = "unused"
  BY <1>1 DEF TypeInv, TypeOK, End
<1>3. \A q \in Rack :
        \/ at'[q] = NoConn /\ link'[q] = "down"
        \/ at'[q] = at[q] /\ link'[q] = link[q] /\ hand'[q] = hand[q]
  BY DEF TypeInv, TypeOK, End
<1>4. UNCHANGED <<dialled, up, handlers, hand>>
  BY DEF End, hub
<1>5. Wired'
  BY <1>2, <1>3, <1>4 DEF TypeInv, Wired
<1>6. Held'
  BY <1>3 DEF TypeInv, Held
<1>7. HelloFirst'
  BY <1>2, <1>3, <1>4 DEF TypeInv, HelloFirst
<1>8. TypeOK'
  <2>1. down' \in [Conn -> Seq(Question)]
    <3>1. down \in [Conn -> Seq(Question)] /\ <<>> \in Seq(Question)
      BY DEF TypeInv, TypeOK
    <3>2. down' = [down EXCEPT ![at[r]] = <<>>]
      BY DEF End
    <3> QED BY <3>1, <3>2
  <2>2. socket' \in [Conn -> {"unused", "open", "stalled", "dead"}]
    BY DEF TypeInv, TypeOK, End
  <2>3. /\ link' \in [Rack -> {"down", "ready", "sending", "serving", "handling", "ending"}]
        /\ at' \in [Rack -> Conn \cup {NoConn}] /\ published' \in [Rack -> BOOLEAN]
    BY DEF TypeInv, TypeOK, End
  <2>4. UNCHANGED <<dialled, up, hub, waits, hand, senders, asked, faults>>
    BY DEF End
  <2> QED BY <2>1, <2>2, <2>3, <2>4 DEF TypeInv, TypeOK, hub, waits
<1> QED BY <1>5, <1>6, <1>7, <1>8 DEF TypeInv, Tabled, InFlight, End, waits

LEMMA PumpTyped ==
  ASSUME TypeInv, NEW r \in Rack, PumpStep(r)
  PROVE  TypeInv'
<1>1. senders' \in [Rack -> {{}, {"link"}, {"pump"}}]
  BY DEF TypeInv, TypeOK, PumpStep, PumpSend, PumpSent, TakeLock, LeaveLock, LockFree
<1>2. UNCHANGED <<wires, hub, waits, link, at, hand, published, asked, faults>>
  BY DEF PumpStep, PumpSend, PumpSent
<1>3. TypeOK'
  BY <1>1, <1>2 DEF TypeInv, TypeOK, wires, hub, waits
<1> QED BY <1>2, <1>3, Untouched DEF TypeInv, Tabled, InFlight, wires, hub, waits

LEMMA AbortTyped ==
  ASSUME TypeInv, NEW r \in Rack, Abort(r)
  PROVE  TypeInv'
<1>1. at[r] \in Conn /\ socket[at[r]] # "unused"
  BY DEF TypeInv, TypeOK, Wired, Abort, Watching
<1>2. socket' \in [Conn -> {"unused", "open", "stalled", "dead"}] /\ Wired' /\ Held' /\ HelloFirst'
  BY <1>1, Downed DEF Abort, hub, rack
<1>3. TypeOK'
  BY <1>2 DEF TypeInv, TypeOK, Abort, hub, waits, rack
<1> QED BY <1>2, <1>3 DEF TypeInv, Tabled, InFlight, Abort, waits

LEMMA NetworkTyped ==
  ASSUME TypeInv, NEW c \in Conn, Lose(c) \/ Stall(c)
  PROVE  TypeInv'
<1>1. /\ socket[c] # "unused"
      /\ \E state \in {"stalled", "dead"} : socket' = [socket EXCEPT ![c] = state]
      /\ down' = [down EXCEPT ![c] = <<>>] /\ faults < MaxFaults /\ faults' = faults + 1
      /\ UNCHANGED <<dialled, up, hub, waits, rack, asked>>
  BY DEF Lose, Stall, Fault
<1>2. socket' \in [Conn -> {"unused", "open", "stalled", "dead"}] /\ Wired' /\ Held' /\ HelloFirst'
  BY <1>1, Downed DEF hub, rack
<1>3. down' \in [Conn -> Seq(Question)]
  BY <1>1 DEF TypeInv, TypeOK
<1>4. faults' \in 0..MaxFaults
  BY <1>1, BoundsAssumption DEF TypeInv, TypeOK
<1>5. TypeOK'
  BY <1>1, <1>2, <1>3, <1>4 DEF TypeInv, TypeOK, hub, waits, rack
<1> QED BY <1>1, <1>2, <1>5 DEF TypeInv, Tabled, InFlight, waits

LEMMA LinkTyped ==
  ASSUME TypeInv, NEW r \in Rack, LinkStep(r)
  PROVE  TypeInv'
BY DialTyped, ReceiveTyped, HandleTyped, BeatDueTyped, LinkSendTyped, LinkSentTyped,
   RecvFailsTyped, EndTyped DEF LinkStep

-----------------------------------------------------------------------------
LEMMA InitTyped ==
  ASSUME Init
  PROVE  TypeInv
<1>1. TypeOK
  BY BoundsAssumption DEF Init, TypeOK
<1>2. Tabled
  BY DEF Init, Tabled, InFlight, Idle
<1>3. Wired /\ Held /\ HelloFirst
  BY DEF Init, Wired, Held, HelloFirst
<1> QED BY <1>1, <1>2, <1>3 DEF TypeInv

LEMMA NextTyped ==
  ASSUME TypeInv, [Next]_vars
  PROVE  TypeInv'
<1>1. CASE UNCHANGED vars
  BY <1>1, Untouched DEF TypeInv, TypeOK, Tabled, InFlight, vars, wires, hub, waits, rack
<1>2. ASSUME NEW a \in Asker, AskerStep(a) \/ \E r \in Rack, kind \in Kind : Ask(a, r, kind)
      PROVE  TypeInv'
  BY <1>2, AskerTyped, AskTyped
<1>3. ASSUME NEW r \in Rack, LinkStep(r) \/ PumpStep(r) \/ Abort(r)
      PROVE  TypeInv'
  BY <1>3, LinkTyped, PumpTyped, AbortTyped
<1>4. ASSUME NEW c \in Conn, HandlerStep(c) \/ Lose(c) \/ Stall(c)
      PROVE  TypeInv'
  BY <1>4, HandlerTyped, NetworkTyped
<1> QED BY <1>1, <1>2, <1>3, <1>4 DEF Next

LEMMA AlwaysTyped == Spec => []TypeInv
<1>1. Init => TypeInv
  BY InitTyped
<1>2. TypeInv /\ [Next]_vars => TypeInv'
  BY NextTyped
<1> QED BY <1>1, <1>2, PTL DEF Spec

\* Every variable keeps its shape whatever the racks, handlers, connections and
\* faults: what the hub and the link thread take fields of has those fields.
THEOREM TypeCorrect == Spec => []TypeOK
<1>1. TypeInv => TypeOK
  BY DEF TypeInv
<1> QED BY <1>1, AlwaysTyped, PTL

-----------------------------------------------------------------------------
(* The probes' guard.                                                      *)

Probes(now, a, r) == now[a] # Idle /\ now[a].kind = "probe" /\ now[a].rack = r

\* At most one handler probes a rack, and the rack is taken as being probed just
\* while one does.
ProbeGuard ==
  \A r \in Rack :
    /\ \A a, b \in Asker : Probes(ask, a, r) /\ Probes(ask, b, r) => a = b
    /\ r \in probing <=> \E a \in Asker : Probes(ask, a, r)

\* A step asks, takes a handler out, or leaves every wait about what it was.
LEMMA WaitSteps ==
  ASSUME TypeInv, [Next]_vars
  PROVE  \/ \E a \in Asker, r \in Rack, kind \in Kind : Ask(a, r, kind)
         \/ \E a \in InFlight : \E now \in [Asker -> Wait \cup {Idle}] :
                SameWaits(now) /\ WayOut(a, now)
         \/ SameWaits(ask') /\ UNCHANGED probing
<1> USE DEF TypeInv
<1>1. ASSUME UNCHANGED <<ask, probing>>
      PROVE  SameWaits(ask') /\ UNCHANGED probing
  BY <1>1, AskSame DEF SameWaits
<1>2. ASSUME NEW a \in Asker, AskerStep(a)
      PROVE  \/ /\ a \in InFlight
                /\ \E now \in [Asker -> Wait \cup {Idle}] : SameWaits(now) /\ WayOut(a, now)
             \/ SameWaits(ask') /\ UNCHANGED probing
  <2>1. CASE SendReturns(a)
    <3>1. ask[a] \in Wait
      BY <2>1, WaitType DEF SendReturns, InFlight
    <3>2. /\ [ask[a] EXCEPT !.phase = "waiting"] \in Wait
          /\ [ask[a] EXCEPT !.phase = "waiting"].rack = ask[a].rack
          /\ [ask[a] EXCEPT !.phase = "waiting"].kind = ask[a].kind
          /\ [ask[a] EXCEPT !.phase = "waiting"].via = ask[a].via
          /\ [ask[a] EXCEPT !.phase = "waiting"].id = ask[a].id
      BY <3>1 DEF Wait
    <3>3. ask' = [ask EXCEPT ![a] = [ask[a] EXCEPT !.phase = "waiting"]] /\ UNCHANGED probing
      BY <2>1 DEF SendReturns
    <3>4. ask[a] # Idle /\ ask \in [Asker -> Wait \cup {Idle}]
      BY <3>1, Distinct DEF TypeOK
    <3>5. \A b \in Asker : b # a => ask'[b] = ask[b]
      BY <3>3
    <3>6. \A b \in Asker : ask[b] # Idle => ask[b] \in Wait
      BY <3>4
    <3>7. ask' \in [Asker -> Wait \cup {Idle}] /\ ask'[a] = [ask[a] EXCEPT !.phase = "waiting"]
      BY <3>2, <3>3, <3>4
    <3>8. ASSUME NEW b \in Asker
          PROVE  IF ask[b] = Idle THEN ask'[b] = Idle
                 ELSE /\ ask'[b] \in Wait /\ ask'[b].id = ask[b].id
                      /\ ask'[b].rack = ask[b].rack /\ ask'[b].kind = ask[b].kind
                      /\ ask'[b].via = ask[b].via
      <4>1. CASE b = a
        BY <3>2, <3>4, <3>7, <4>1
      <4>2. CASE b # a
        BY <3>5, <3>6, <4>2
      <4> QED BY <4>1, <4>2
    <3> QED BY <3>3, <3>7, <3>8 DEF SameWaits
  <2>2. CASE SendFails(a)
    BY <2>2, DropSame DEF SendFails, SameWaits, InFlight
  <2>3. CASE Answered(a) \/ GiveUp(a)
    BY <2>3, AskSame DEF Answered, GiveUp, SameWaits, InFlight
  <2> QED BY <1>2, <2>1, <2>2, <2>3 DEF AskerStep
<1>3. ASSUME NEW c \in Conn, HandlerStep(c)
      PROVE  SameWaits(ask') /\ UNCHANGED probing
  <2>1. CASE Register(c) \/ HelloLost(c)
    BY <1>1, <2>1 DEF Register, HelloLost, waits
  <2>2. CASE Read(c)
    <3>1. Head(up[c]) \in Reply
      BY <2>2, TailOf DEF Read, TypeOK, HelloFirst
    <3> QED BY <2>2, <3>1, DeliveredSame DEF Read
  <2>3. CASE HandlerEnds(c)
    BY <2>3, DropSame DEF HandlerEnds
  <2> QED BY <1>3, <2>1, <2>2, <2>3 DEF HandlerStep
<1>4. ASSUME NEW r \in Rack, LinkStep(r) \/ PumpStep(r) \/ Abort(r)
      PROVE  UNCHANGED <<ask, probing>>
  BY <1>4 DEF LinkStep, Dial, Receive, Handle, BeatDue, LinkSend, LinkSent, RecvFails, End,
              PumpStep, PumpSend, PumpSent, Abort, waits
<1>5. ASSUME NEW c \in Conn, Lose(c) \/ Stall(c)
      PROVE  UNCHANGED <<ask, probing>>
  BY <1>5 DEF Lose, Stall, waits
<1>6. UNCHANGED vars => UNCHANGED <<ask, probing>>
  BY DEF vars, waits
<1> QED BY <1>1, <1>2, <1>3, <1>4, <1>5, <1>6 DEF Next

LEMMA InitGuarded ==
  ASSUME Init
  PROVE  ProbeGuard
BY DEF Init, ProbeGuard, Probes

LEMMA NextGuarded ==
  ASSUME TypeInv, ProbeGuard, [Next]_vars
  PROVE  ProbeGuard'
<1>1. ASSUME NEW a \in Asker, NEW q \in Rack, NEW kind \in Kind, Ask(a, q, kind)
      PROVE  ProbeGuard'
  <2>1. ask[a] = Idle
    BY <1>1, WaitType DEF Ask, TypeInv
  <2>2. ask'[a] # Idle /\ ask'[a].kind = kind /\ ask'[a].rack = q
    <3>1. ask'[a] = [phase |-> "sending", rack |-> q, kind |-> kind, id |-> NextId,
                     via |-> conn[q], got |-> None]
      BY <1>1 DEF Ask, TypeInv, TypeOK
    <3>2. Idle.phase = "idle"
      BY DEF Idle
    <3> QED BY <3>1, <3>2
  <2>3. \A b \in Asker \ {a} : ask'[b] = ask[b]
    BY <1>1 DEF Ask, TypeInv, TypeOK
  <2>4. ASSUME NEW r \in Rack, NEW b \in Asker
        PROVE  Probes(ask', b, r) <=> Probes(ask, b, r) \/ (b = a /\ r = q /\ kind = "probe")
    <3>1. CASE b = a
      BY <2>1, <2>2, <3>1 DEF Probes
    <3>2. CASE b # a
      BY <2>3, <3>2 DEF Probes
    <3> QED BY <3>1, <3>2
  <2>5. kind = "probe" => q \notin probing
    BY <1>1 DEF Ask
  <2>6. probing' = IF kind = "probe" THEN probing \cup {q} ELSE probing
    BY <1>1 DEF Ask
  <2>7. ASSUME NEW r \in Rack, NEW b \in Asker, NEW d \in Asker, Probes(ask', b, r), Probes(ask', d, r)
        PROVE  b = d
    BY <2>4, <2>5, <2>7 DEF ProbeGuard
  <2>8. ASSUME NEW r \in Rack
        PROVE  r \in probing' <=> \E b \in Asker : Probes(ask', b, r)
    <3>1. r \in probing <=> \E b \in Asker : Probes(ask, b, r)
      BY DEF ProbeGuard
    <3>2. CASE r = q /\ kind = "probe"
      BY <2>4, <2>6, <3>2
    <3>3. CASE ~(r = q /\ kind = "probe")
      <4>1. r \in probing' <=> r \in probing
        BY <2>6, <3>3
      <4>2. \A b \in Asker : Probes(ask', b, r) <=> Probes(ask, b, r)
        BY <2>4, <3>3
      <4> QED BY <3>1, <4>1, <4>2
    <3> QED BY <3>2, <3>3
  <2> QED BY <2>7, <2>8 DEF ProbeGuard
<1>2. ASSUME NEW a \in InFlight, NEW now \in [Asker -> Wait \cup {Idle}], SameWaits(now),
             WayOut(a, now)
      PROVE  ProbeGuard'
  <2>1. a \in Asker /\ ask'[a] = Idle /\ \A b \in Asker \ {a} : ask'[b] = now[b]
    BY <1>2 DEF WayOut, InFlight
  <2>2. ASSUME NEW r \in Rack, NEW b \in Asker
        PROVE  Probes(ask', b, r) <=> Probes(ask, b, r) /\ b # a
    <3>1. CASE b = a
      BY <2>1, <3>1 DEF Probes
    <3>2. CASE b # a
      <4>1. ask'[b] = now[b]
        BY <2>1, <3>2
      <4>2. ask[b] = Idle => now[b] = Idle
        BY <1>2 DEF SameWaits
      <4>3. ask[b] # Idle => now[b] # Idle /\ now[b].rack = ask[b].rack /\ now[b].kind = ask[b].kind
        BY <1>2, Distinct DEF SameWaits
      <4> QED BY <3>2, <4>1, <4>2, <4>3 DEF Probes
    <3> QED BY <3>1, <3>2
  <2>3. ASSUME NEW r \in Rack
        PROVE  r \in probing' <=> r \in probing /\ ~Probes(ask, a, r)
    <3>1. Probes(ask, a, r) => r \notin probing'
      BY <1>2 DEF WayOut, Release, Probes
    <3>2. r \in probing /\ ~Probes(ask, a, r) => r \in probing'
      BY <1>2, <2>1, WaitType DEF WayOut, Release, Probes, TypeInv
    <3>3. r \in probing' => r \in probing
      BY <1>2 DEF WayOut, Release
    <3> QED BY <3>1, <3>2, <3>3
  <2>4. ASSUME NEW r \in Rack
        PROVE  /\ \A b, d \in Asker : Probes(ask', b, r) /\ Probes(ask', d, r) => b = d
               /\ r \in probing' <=> \E b \in Asker : Probes(ask', b, r)
    <3>1. /\ \A b, d \in Asker : Probes(ask, b, r) /\ Probes(ask, d, r) => b = d
          /\ r \in probing <=> \E b \in Asker : Probes(ask, b, r)
      BY DEF ProbeGuard
    <3> QED BY <2>1, <2>2, <2>3, <3>1
  <2> QED BY <2>4 DEF ProbeGuard
<1>3. ASSUME SameWaits(ask'), UNCHANGED probing
      PROVE  ProbeGuard'
  <2>0. Idle \notin Wait
    BY Distinct
  <2>1. ASSUME NEW r \in Rack, NEW b \in Asker
        PROVE  Probes(ask', b, r) <=> Probes(ask, b, r)
    BY <1>3, <2>0 DEF SameWaits, Probes
  <2> QED BY <1>3, <2>1 DEF ProbeGuard
<1> QED BY <1>1, <1>2, <1>3, WaitSteps

LEMMA AlwaysGuarded == Spec => []ProbeGuard
<1>1. Init => ProbeGuard
  BY InitGuarded
<1>2. TypeInv /\ ProbeGuard /\ [Next]_vars => ProbeGuard'
  BY NextGuarded
<1> QED BY <1>1, <1>2, AlwaysTyped, PTL DEF Spec

\* However many handlers ask, racks come and go and sends fail, a rack is taken
\* as being probed exactly while one handler probes it, and the hub's table holds
\* exactly the handlers that wait.
THEOREM Guarded == Spec => []GuardedWhileProbed
<1>1. TypeInv /\ ProbeGuard => GuardedWhileProbed
  <2> SUFFICES ASSUME TypeInv, ProbeGuard PROVE GuardedWhileProbed
    OBVIOUS
  <2>1. ASSUME NEW r \in Rack
        PROVE  Cardinality({a \in InFlight : ask[a].kind = "probe" /\ ask[a].rack = r})
                 = IF r \in probing THEN 1 ELSE 0
    <3> DEFINE probes == {a \in InFlight : ask[a].kind = "probe" /\ ask[a].rack = r}
    <3>1. \A a : a \in probes <=> a \in Asker /\ Probes(ask, a, r)
      BY WaitType DEF TypeInv, Probes, InFlight
    <3>2. CASE r \in probing
      <4>1. PICK a \in Asker : Probes(ask, a, r)
        BY <3>2 DEF ProbeGuard
      <4>2. probes = {a}
        BY <3>1, <4>1 DEF ProbeGuard
      <4> QED BY <3>2, <4>2, FS_Singleton
    <3>3. CASE r \notin probing
      <4>1. probes = {}
        BY <3>1, <3>3 DEF ProbeGuard
      <4> QED BY <3>3, <4>1, FS_EmptySet
    <3> QED BY <3>2, <3>3
  <2> QED BY <2>1 DEF GuardedWhileProbed, TypeInv, Tabled
<1> QED BY <1>1, AlwaysTyped, AlwaysGuarded, PTL

-----------------------------------------------------------------------------
(* What the hub tells the waits.                                           *)

\* A wait w is of a rack that is there, or knows better; the connection it left
\* over is the rack's or is closed, and is closed if the wait was abandoned.
Sound(w, now, shut) ==
  /\ w.got = None => now[w.rack] # NoConn
  /\ w.got = Gone => w.via \in shut
  /\ w.via \in shut \/ now[w.rack] = w.via

HubInv == \A a \in Asker : ask[a] # Idle => Sound(ask[a], conn, closed)

\* A connection whose handler runs, or that has sent, is some rack's.
LEMMA Whose ==
  ASSUME TypeInv, NEW c \in Conn, c \in handlers \/ up[c] # <<>> \/ socket[c] # "unused"
  PROVE  dialled[c] \in Rack
BY DEF TypeInv, TypeOK, Wired, HelloFirst

\* Dropping a connection abandons the waits of its rack, unless the rack has
\* another by now.
LEMMA DropSound ==
  ASSUME TypeInv, HubInv, NEW c \in Conn, dialled[c] \in Rack, Drop(c),
         NEW a \in Asker, ask[a] # Idle
  PROVE  Sound(WaitsAfterDrop(c)[a], conn', closed')
<1> DEFINE w == ask[a]
           r == dialled[c]
<1>1. w \in Wait /\ a \in pending /\ Sound(w, conn, closed)
  BY WaitType DEF TypeInv, Tabled, HubInv
<1>2. closed' = closed \cup {c}
  BY DEF Drop
<1>3. CASE conn[r] = c
  <2>1. conn' = [conn EXCEPT ![r] = NoConn] /\ WaitsAfterDrop(c) = Abandoned(r)
    BY <1>3 DEF Drop, Current, WaitsAfterDrop
  <2>2. CASE w.rack = r /\ w.got = None
    <3>1. Abandoned(r)[a] = [w EXCEPT !.got = Gone]
      BY <1>1, <2>2 DEF Abandoned
    <3>2. [w EXCEPT !.got = Gone].got = Gone /\ [w EXCEPT !.got = Gone].via = w.via
      BY <1>1, SetGot
    <3>3. w.via \in closed'
      BY <1>1, <1>2, <1>3, <2>2 DEF Sound
    <3> QED BY <2>1, <3>1, <3>2, <3>3, Distinct DEF Sound
  <2>3. CASE ~(w.rack = r /\ w.got = None)
    <3>1. Abandoned(r)[a] = w
      BY <2>3 DEF Abandoned
    <3>2. w.rack \in Rack
      BY <1>1 DEF Wait
    <3>3. w.rack = r => w.via \in closed' /\ w.got # None
      BY <1>1, <1>2, <1>3, <2>3 DEF Sound
    <3>4. w.rack # r => conn'[w.rack] = conn[w.rack]
      BY <2>1, <3>2 DEF TypeInv, TypeOK
    <3> QED BY <1>1, <1>2, <2>1, <3>1, <3>3, <3>4 DEF Sound
  <2> QED BY <2>2, <2>3
<1>4. CASE conn[r] # c
  <2>1. conn' = conn /\ WaitsAfterDrop(c)[a] = w
    BY <1>4 DEF Drop, Current, WaitsAfterDrop
  <2> QED BY <1>1, <1>2, <2>1 DEF Sound
<1> QED BY <1>3, <1>4

\* A step that leaves the hub alone keeps the waits it leaves alone sound.
LEMMA HubAlone ==
  ASSUME HubInv, UNCHANGED <<conn, closed>>,
         \A a \in Asker : ask'[a] # Idle => ask[a] # Idle /\ ask'[a] = ask[a]
  PROVE  HubInv'
BY DEF HubInv

LEMMA AskSound ==
  ASSUME TypeInv, HubInv, NEW a \in Asker, NEW r \in Rack, NEW kind \in Kind, Ask(a, r, kind)
  PROVE  HubInv'
<1> DEFINE w == [phase |-> "sending", rack |-> r, kind |-> kind, id |-> NextId,
                 via |-> conn[r], got |-> None]
<1>1. conn[r] # NoConn /\ UNCHANGED <<conn, closed>> /\ None # Gone
  BY Distinct DEF Ask, hub
<1>2. Sound(w, conn', closed')
  BY <1>1 DEF Sound
<1>3. ask' = [ask EXCEPT ![a] = w] /\ ask \in [Asker -> Wait \cup {Idle}]
  BY DEF Ask, TypeInv, TypeOK
<1> HIDE DEF w
<1>4. ASSUME NEW b \in Asker, ask'[b] # Idle
      PROVE  Sound(ask'[b], conn', closed')
  <2>1. CASE b = a
    BY <1>2, <1>3, <2>1
  <2>2. CASE b # a
    <3>1. ask'[b] = ask[b]
      BY <1>3, <2>2
    <3> QED BY <1>1, <1>4, <3>1 DEF HubInv
  <2> QED BY <2>1, <2>2
<1> QED BY <1>4 DEF HubInv

LEMMA AskerSound ==
  ASSUME TypeInv, HubInv, NEW a \in Asker, AskerStep(a)
  PROVE  HubInv'
<1>1. CASE SendReturns(a)
  <2>1. ask[a] \in Wait
    BY <1>1, WaitType DEF SendReturns, InFlight, TypeInv
  <2>2. \A now, shut : Sound(ask[a], now, shut) => Sound([ask[a] EXCEPT !.phase = "waiting"], now, shut)
    <3>1. /\ [ask[a] EXCEPT !.phase = "waiting"].rack = ask[a].rack
          /\ [ask[a] EXCEPT !.phase = "waiting"].got = ask[a].got
          /\ [ask[a] EXCEPT !.phase = "waiting"].via = ask[a].via
      BY <2>1 DEF Wait
    <3> QED BY <3>1 DEF Sound
  <2>3. /\ ask'[a] = [ask[a] EXCEPT !.phase = "waiting"] /\ ask[a] # Idle
        /\ \A b \in Asker \ {a} : ask'[b] = ask[b]
        /\ UNCHANGED <<conn, closed>>
    BY <1>1, <2>1, Distinct DEF SendReturns, hub, TypeInv, TypeOK
  <2>4. ASSUME NEW b \in Asker, ask'[b] # Idle
        PROVE  Sound(ask'[b], conn', closed')
    <3>1. CASE b = a
      BY <2>2, <2>3, <3>1 DEF HubInv
    <3>2. CASE b # a
      BY <2>3, <2>4, <3>2 DEF HubInv
    <3> QED BY <3>1, <3>2
  <2> QED BY <2>4 DEF HubInv
<1>2. CASE SendFails(a)
  <2> DEFINE c == ask[a].via
  <2>1. ask[a] \in Wait
    BY <1>2, WaitType DEF SendFails, InFlight, TypeInv
  <2>2. c \in Conn /\ dialled[c] \in Rack /\ Drop(c)
    BY <1>2, <2>1, Whose DEF SendFails, Wait
  <2>3. SameWaits(WaitsAfterDrop(c))
    BY DropSame DEF TypeInv
  <2>4. ask' = [WaitsAfterDrop(c) EXCEPT ![a] = Idle]
    BY <1>2 DEF SendFails, WayOut
  <2>5. ASSUME NEW b \in Asker, ask'[b] # Idle
        PROVE  Sound(ask'[b], conn', closed')
    <3>1. b # a /\ ask'[b] = WaitsAfterDrop(c)[b]
      BY <2>3, <2>4, <2>5 DEF SameWaits
    <3>2. ask[b] # Idle
      BY <2>3, <2>5, <3>1 DEF SameWaits
    <3> QED BY <2>2, <3>1, <3>2, DropSound
  <2> QED BY <2>5 DEF HubInv
<1>3. CASE Answered(a) \/ GiveUp(a)
  <2>1. ask' = [ask EXCEPT ![a] = Idle] /\ ask \in [Asker -> Wait \cup {Idle}]
        /\ UNCHANGED <<conn, closed>>
    BY <1>3 DEF Answered, GiveUp, WayOut, hub, TypeInv, TypeOK
  <2>2. \A b \in Asker : ask'[b] # Idle => ask[b] # Idle /\ ask'[b] = ask[b]
    BY <2>1
  <2> QED BY <2>1, <2>2, HubAlone
<1> QED BY <1>1, <1>2, <1>3 DEF AskerStep

LEMMA HandlerSound ==
  ASSUME TypeInv, HubInv, NEW c \in Conn, HandlerStep(c)
  PROVE  HubInv'
<1>1. CASE Register(c)
  <2>1. dialled[c] \in Rack /\ c # NoConn
    BY <1>1, Whose, Distinct DEF Register
  <2>2. /\ conn' = [conn EXCEPT ![dialled[c]] = c]
        /\ closed' = closed \cup ({conn[dialled[c]]} \ {NoConn})
        /\ UNCHANGED ask
    BY <1>1 DEF Register, waits
  <2>3. ASSUME NEW a \in Asker, ask[a] # Idle
        PROVE  Sound(ask[a], conn', closed')
    <3>1. ask[a] \in Wait /\ Sound(ask[a], conn, closed)
      BY <2>3, WaitType DEF TypeInv, HubInv
    <3>2. ask[a].rack \in Rack /\ ask[a].via # NoConn
      BY <3>1, Distinct DEF Wait
    <3>3. CASE ask[a].rack = dialled[c]
      <4>1. conn'[ask[a].rack] = c
        BY <2>1, <2>2, <3>3 DEF TypeInv, TypeOK
      <4>2. ask[a].via \in closed'
        BY <2>2, <3>1, <3>2, <3>3 DEF Sound
      <4> QED BY <2>1, <4>1, <4>2 DEF Sound
    <3>4. CASE ask[a].rack # dialled[c]
      <4>1. conn'[ask[a].rack] = conn[ask[a].rack]
        BY <2>2, <3>2, <3>4 DEF TypeInv, TypeOK
      <4> QED BY <2>2, <3>1, <4>1 DEF Sound
    <3> QED BY <3>3, <3>4
  <2> QED BY <2>2, <2>3 DEF HubInv
<1>2. CASE Read(c)
  <2> DEFINE reply == Head(up[c])
  <2>1. reply \in Reply /\ dialled[c] \in Rack /\ reply # None /\ reply # Gone
    <3>1. reply \in Reply
      BY <1>2, TailOf DEF Read, TypeInv, TypeOK, HelloFirst
    <3>2. dialled[c] \in Rack
      BY <1>2, Whose DEF Read
    <3> QED BY <3>1, <3>2, Distinct
  <2>2. ask' = Delivered(dialled[c], reply) /\ UNCHANGED <<conn, closed>>
    BY <1>2 DEF Read, hub
  <2>3. SameWaits(ask')
    BY <2>1, <2>2, DeliveredSame DEF TypeInv
  <2>4. ASSUME NEW a \in Asker, ask'[a] # Idle
        PROVE  Sound(ask'[a], conn', closed')
    <3>1. ask[a] # Idle
      BY <2>3, <2>4 DEF SameWaits
    <3>2. ask[a] \in Wait /\ Sound(ask[a], conn, closed)
      BY <3>1, WaitType DEF TypeInv, HubInv
    <3>3. ask'[a] \in {ask[a], [ask[a] EXCEPT !.got = reply]}
      BY <2>2 DEF Delivered
    <3>4. Sound([ask[a] EXCEPT !.got = reply], conn, closed)
      BY <2>1, <3>2, SetGot DEF Sound
    <3> QED BY <2>2, <3>2, <3>3, <3>4
  <2> QED BY <2>4 DEF HubInv
<1>3. CASE HandlerEnds(c)
  <2>1. dialled[c] \in Rack /\ Drop(c) /\ ask' = WaitsAfterDrop(c)
    BY <1>3, Whose DEF HandlerEnds
  <2>2. \A a \in Asker : ask'[a] # Idle => ask[a] # Idle
    BY <2>1, DropSame DEF SameWaits, TypeInv
  <2> QED BY <2>1, <2>2, DropSound DEF HubInv
<1>4. CASE HelloLost(c)
  <2>1. conn' = conn /\ closed' = closed \cup {c} /\ ask' = ask
    BY <1>4 DEF HelloLost, waits
  <2> QED BY <2>1 DEF HubInv, Sound
<1> QED BY <1>1, <1>2, <1>3, <1>4 DEF HandlerStep

LEMMA NextSound ==
  ASSUME TypeInv, HubInv, [Next]_vars
  PROVE  HubInv'
<1>1. ASSUME NEW a \in Asker, AskerStep(a) \/ \E r \in Rack, kind \in Kind : Ask(a, r, kind)
      PROVE  HubInv'
  BY <1>1, AskerSound, AskSound
<1>2. ASSUME NEW r \in Rack, LinkStep(r) \/ PumpStep(r) \/ Abort(r)
      PROVE  UNCHANGED <<ask, conn, closed>>
  BY <1>2 DEF LinkStep, Dial, Receive, Handle, BeatDue, LinkSend, LinkSent, RecvFails, End,
              PumpStep, PumpSend, PumpSent, Abort, waits, hub
<1>3. ASSUME NEW c \in Conn, Lose(c) \/ Stall(c)
      PROVE  UNCHANGED <<ask, conn, closed>>
  BY <1>3 DEF Lose, Stall, waits, hub
<1>4. UNCHANGED vars => UNCHANGED <<ask, conn, closed>>
  BY DEF vars, waits, hub
<1>5. UNCHANGED <<ask, conn, closed>> => HubInv'
  BY HubAlone
<1> QED BY <1>1, <1>2, <1>3, <1>4, <1>5, HandlerSound DEF Next

LEMMA AlwaysSound == Spec => []HubInv
<1>1. Init => HubInv
  BY DEF Init, HubInv
<1>2. TypeInv /\ HubInv /\ [Next]_vars => HubInv'
  BY NextSound
<1> QED BY <1>1, <1>2, AlwaysTyped, PTL DEF Spec

\* Whatever order racks are lost, replaced and registered in, no handler is left
\* to sit out its timeout on a rack the hub knows to be gone.
THEOREM Told == Spec => []ToldAtOnce
<1>1. TypeInv /\ HubInv => ToldAtOnce
  BY WaitType DEF TypeInv, HubInv, Sound, ToldAtOnce, Unresolved, InFlight
<1> QED BY <1>1, AlwaysTyped, AlwaysSound, PTL

\* A handler is told that its rack went only once the connection its question
\* left over is closed, however late an older connection is cleaned up.
THEOREM Survives == Spec => []SurvivesOldCleanUp
<1>1. TypeInv /\ HubInv => SurvivesOldCleanUp
  BY WaitType DEF TypeInv, HubInv, Sound, SurvivesOldCleanUp, InFlight
<1> QED BY <1>1, AlwaysTyped, AlwaysSound, PTL

-----------------------------------------------------------------------------
(* Requests implements Asking.                                             *)

\* The messages that are, or will be, on a wire.
OnWire(wire, m) == \E c \in Conn : \E i \in 1..Len(wire[c]) : wire[c][i] = m
Carries(d, u, h, m) == OnWire(d, m) \/ OnWire(u, m) \/ \E r \in Rack : h[r] = m

\* A question, or the reply to it, is of the kind its asker asked for.
Agrees(m) ==
  /\ m.id <= asked
  /\ \A a \in Asker : ask[a] # Idle /\ ask[a].id = m.id => ask[a].kind = m.kind

\* Every question left over its rack's connection, and no two have one number.
Numbered ==
  /\ \A a \in Asker : ask[a] # Idle => ask[a].id <= asked /\ dialled[ask[a].via] = ask[a].rack
  /\ \A a, b \in Asker : ask[a] # Idle /\ ask[b] # Idle /\ ask[a].id = ask[b].id => a = b
  /\ \A r \in Rack : conn[r] # NoConn => dialled[conn[r]] = r

\* What is on the wires is of the questions asked, and a reply says its rack.
Carried ==
  /\ \A m \in Question \cup Reply : Carries(down, up, hand, m) => Agrees(m)
  /\ \A c \in Conn : \A i \in 1..Len(up[c]) : up[c][i] \in Reply => up[c][i].rack = dialled[c]
  /\ \A r \in Rack : hand[r] \in Reply => hand[r].rack = r

\* A handler's reply is the one to its question.
OwnReply ==
  \A a \in Asker : ask[a] # Idle /\ ask[a].got \in Reply =>
    /\ ask[a].got.id = ask[a].id /\ ask[a].got.rack = ask[a].rack
    /\ ask[a].got.kind = ask[a].kind

RefInv == Numbered /\ Carried /\ OwnReply

\* What a wire carries once it is added to, read from, or emptied.
LEMMA WireAppend ==
  ASSUME NEW M, NEW wire, NEW after, NEW c \in Conn, NEW x \in M, NEW m,
         wire[c] \in Seq(M), after[c] = Append(wire[c], x),
         \A d \in Conn \ {c} : after[d] = wire[d],
         OnWire(after, m)
  PROVE  OnWire(wire, m) \/ m = x
<1>1. PICK d \in Conn : \E i \in 1..Len(after[d]) : after[d][i] = m
  BY DEF OnWire
<1>2. CASE d = c
  <2>1. \A i \in 1..Len(Append(wire[c], x)) :
          (i \in 1..Len(wire[c]) /\ Append(wire[c], x)[i] = wire[c][i]) \/ Append(wire[c], x)[i] = x
    OBVIOUS
  <2>2. m = x \/ \E i \in 1..Len(wire[c]) : wire[c][i] = m
    BY <1>1, <1>2, <2>1
  <2> QED BY <2>2 DEF OnWire
<1>3. CASE d # c
  BY <1>1, <1>3 DEF OnWire
<1> QED BY <1>2, <1>3

LEMMA WireTail ==
  ASSUME NEW M, NEW wire \in [Conn -> Seq(M)], NEW c \in Conn, wire[c] # <<>>
  PROVE  /\ OnWire(wire, Head(wire[c]))
         /\ \A m : OnWire([wire EXCEPT ![c] = Tail(@)], m) => OnWire(wire, m)
<1> DEFINE after == [wire EXCEPT ![c] = Tail(@)]
<1>1. wire[c] \in Seq(M)
  OBVIOUS
<1>2. OnWire(wire, Head(wire[c]))
  BY <1>1, TailOf DEF OnWire
<1>3. ASSUME NEW m, OnWire(after, m)
      PROVE  OnWire(wire, m)
  <2>1. PICK d \in Conn : \E i \in 1..Len(after[d]) : after[d][i] = m
    BY <1>3 DEF OnWire
  <2>2. PICK i \in 1..Len(after[d]) : after[d][i] = m
    BY <2>1
  <2>3. CASE d = c
    <3>1. i \in 1..Len(Tail(wire[c])) /\ Tail(wire[c])[i] = m
      BY <2>2, <2>3
    <3>2. i + 1 \in 1..Len(wire[c]) /\ wire[c][i + 1] = m
      BY <1>1, <3>1, TailOf
    <3> QED BY <3>2 DEF OnWire
  <2>4. CASE d # c
    BY <2>2, <2>4 DEF OnWire
  <2> QED BY <2>3, <2>4
<1> QED BY <1>2, <1>3

LEMMA WireEmpty ==
  ASSUME NEW M, NEW wire \in [Conn -> Seq(M)], NEW c \in Conn, NEW m,
         OnWire([wire EXCEPT ![c] = <<>>], m)
  PROVE  OnWire(wire, m)
BY DEF OnWire

\* Whoever waits waited before, unless it is the one that asks.
LEMMA WaitsKept ==
  ASSUME TypeInv, [Next]_vars
  PROVE  \/ \E a \in Asker, r \in Rack, kind \in Kind : Ask(a, r, kind)
         \/ \A a \in Asker : ask'[a] # Idle =>
               /\ ask[a] # Idle /\ ask'[a].id = ask[a].id /\ ask'[a].rack = ask[a].rack
               /\ ask'[a].kind = ask[a].kind /\ ask'[a].via = ask[a].via
<1>1. ASSUME NEW a \in InFlight, NEW now \in [Asker -> Wait \cup {Idle}], SameWaits(now),
             WayOut(a, now)
      PROVE  \A b \in Asker : ask'[b] # Idle =>
               /\ ask[b] # Idle /\ ask'[b].id = ask[b].id /\ ask'[b].rack = ask[b].rack
               /\ ask'[b].kind = ask[b].kind /\ ask'[b].via = ask[b].via
  <2>1. ask' = [now EXCEPT ![a] = Idle]
    BY <1>1 DEF WayOut
  <2> SUFFICES ASSUME NEW b \in Asker, ask'[b] # Idle
               PROVE  /\ ask[b] # Idle /\ ask'[b].id = ask[b].id /\ ask'[b].rack = ask[b].rack
                      /\ ask'[b].kind = ask[b].kind /\ ask'[b].via = ask[b].via
    OBVIOUS
  <2>2. ask'[b] = now[b]
    BY <2>1
  <2> QED BY <1>1, <2>2 DEF SameWaits
<1>2. SameWaits(ask') => \A a \in Asker : ask'[a] # Idle =>
               /\ ask[a] # Idle /\ ask'[a].id = ask[a].id /\ ask'[a].rack = ask[a].rack
               /\ ask'[a].kind = ask[a].kind /\ ask'[a].via = ask[a].via
  BY DEF SameWaits
<1> QED BY <1>1, <1>2, WaitSteps

\* Nobody but Ask asks.
LEMMA AskedKept ==
  ASSUME [Next]_vars
  PROVE  \/ \E a \in Asker, r \in Rack, kind \in Kind : Ask(a, r, kind)
         \/ UNCHANGED asked
BY DEF Next, AskerStep, HandlerStep, LinkStep, PumpStep, SendReturns, SendFails, Answered, GiveUp,
       WayOut, Register, Read, HandlerEnds, HelloLost, Dial, Receive, Handle, BeatDue, LinkSend,
       LinkSent, RecvFails, End, PumpSend, PumpSent, Abort, Lose, Stall, vars

\* A connection stays the rack's that dialled it.
LEMMA DialledKept ==
  ASSUME TypeInv, [Next]_vars, NEW c \in Conn, dialled[c] \in Rack
  PROVE  dialled'[c] = dialled[c]
<1>1. ASSUME NEW r \in Rack, Dial(r)
      PROVE  dialled'[c] = dialled[c]
  <2>1. PICK d \in Conn : socket[d] = "unused" /\ dialled' = [dialled EXCEPT ![d] = r]
    BY <1>1 DEF Dial
  <2>2. d # c
    BY <2>1, Distinct DEF TypeInv, Wired
  <2> QED BY <2>1, <2>2 DEF TypeInv, TypeOK
<1>2. (\E r \in Rack : Dial(r)) \/ UNCHANGED dialled
  BY DEF Next, AskerStep, HandlerStep, LinkStep, PumpStep, SendReturns, SendFails, Answered,
         GiveUp, WayOut, Register, Read, HandlerEnds, HelloLost, Receive, Handle, BeatDue,
         LinkSend, LinkSent, RecvFails, End, PumpSend, PumpSent, Abort, Lose, Stall, Ask, vars, wires
<1> QED BY <1>1, <1>2

\* Whom the hub has for a rack is a connection that rack dialled.
LEMMA DropDialled ==
  ASSUME TypeInv, Numbered, NEW c \in Conn, dialled[c] \in Rack, Drop(c), UNCHANGED dialled
  PROVE  \A r \in Rack : conn'[r] # NoConn => dialled'[conn'[r]] = r
BY DEF Drop, Current, Numbered, TypeInv, TypeOK

LEMMA ConnDialled ==
  ASSUME TypeInv, Numbered, [Next]_vars
  PROVE  \A r \in Rack : conn'[r] # NoConn => dialled'[conn'[r]] = r
<1>1. ASSUME UNCHANGED conn
      PROVE  \A r \in Rack : conn'[r] # NoConn => dialled'[conn'[r]] = r
  <2> SUFFICES ASSUME NEW r \in Rack, conn[r] # NoConn
               PROVE  dialled'[conn[r]] = r
    BY <1>1
  <2>1. conn[r] \in Conn /\ dialled[conn[r]] = r
    BY DEF TypeInv, TypeOK, Numbered
  <2> QED BY <2>1, DialledKept
<1>2. ASSUME NEW c \in Conn, HandlerStep(c)
      PROVE  \A r \in Rack : conn'[r] # NoConn => dialled'[conn'[r]] = r
  <2>1. CASE Register(c)
    <3>1. dialled[c] \in Rack
      BY <2>1, Whose DEF Register
    <3>2. conn' = [conn EXCEPT ![dialled[c]] = c] /\ UNCHANGED dialled
      BY <2>1 DEF Register
    <3> QED BY <3>1, <3>2 DEF TypeInv, TypeOK, Numbered
  <2>2. CASE HandlerEnds(c)
    BY <2>2, Whose, DropDialled DEF HandlerEnds
  <2>3. CASE Read(c) \/ HelloLost(c)
    BY <1>1, <2>3 DEF Read, HelloLost, hub
  <2> QED BY <1>2, <2>1, <2>2, <2>3 DEF HandlerStep
<1>3. ASSUME NEW a \in Asker, AskerStep(a)
      PROVE  \A r \in Rack : conn'[r] # NoConn => dialled'[conn'[r]] = r
  <2>1. CASE SendFails(a)
    <3>1. ask[a] \in Wait
      BY <2>1, WaitType DEF SendFails, InFlight, TypeInv
    <3>2. ask[a].via \in Conn /\ dialled[ask[a].via] \in Rack
      BY <2>1, <3>1, Whose DEF SendFails, Wait
    <3> QED BY <2>1, <3>2, DropDialled DEF SendFails, WayOut, wires
  <2>2. CASE ~SendFails(a)
    BY <1>1, <1>3, <2>2 DEF AskerStep, SendReturns, Answered, GiveUp, hub
  <2> QED BY <2>1, <2>2
<1>4. ASSUME NEW a \in Asker, NEW r \in Rack, NEW kind \in Kind, Ask(a, r, kind)
      PROVE  UNCHANGED conn
  BY <1>4 DEF Ask, hub
<1>5. ASSUME NEW r \in Rack, LinkStep(r) \/ PumpStep(r) \/ Abort(r)
      PROVE  UNCHANGED conn
  BY <1>5 DEF LinkStep, Dial, Receive, Handle, BeatDue, LinkSend, LinkSent, RecvFails, End,
              PumpStep, PumpSend, PumpSent, Abort, hub
<1>6. ASSUME NEW c \in Conn, Lose(c) \/ Stall(c)
      PROVE  UNCHANGED conn
  BY <1>6 DEF Lose, Stall, hub
<1>7. UNCHANGED vars => UNCHANGED conn
  BY DEF vars, hub
<1> QED BY <1>1, <1>2, <1>3, <1>4, <1>5, <1>6, <1>7 DEF Next

LEMMA NextNumbered ==
  ASSUME TypeInv, Numbered, [Next]_vars
  PROVE  Numbered'
<1>1. \A a \in Asker : ask[a] # Idle => ask[a] \in Wait /\ ask[a].via \in Conn /\ ask[a].rack \in Rack
  BY WaitType DEF TypeInv, Wait
<1>2. ASSUME NEW a \in Asker, NEW r \in Rack, NEW kind \in Kind, Ask(a, r, kind)
      PROVE  Numbered'
  <2> DEFINE w == [phase |-> "sending", rack |-> r, kind |-> kind, id |-> NextId,
                   via |-> conn[r], got |-> None]
  <2>1. ask' = [ask EXCEPT ![a] = w] /\ asked' = asked + 1 /\ UNCHANGED <<dialled, conn>>
    BY <1>2 DEF Ask, NextId, hub
  <2>2. w.id = asked + 1 /\ w.rack = r /\ w.via = conn[r] /\ conn[r] # NoConn
    BY <1>2 DEF Ask, NextId
  <2>3. asked \in Nat /\ dialled[conn[r]] = r
    BY <2>2 DEF TypeInv, TypeOK, Numbered
  <2> HIDE DEF w
  <2>4. ASSUME NEW b \in Asker
        PROVE  \/ b = a /\ ask'[b] = w
               \/ b # a /\ ask'[b] = ask[b]
    BY <2>1 DEF TypeInv, TypeOK
  <2>5. \A b \in Asker : ask[b] # Idle => ask[b].id \in Nat /\ ask[b].id <= asked
    BY <1>1 DEF Numbered, Wait
  <2>6. ASSUME NEW b \in Asker, ask'[b] # Idle
        PROVE  ask'[b].id <= asked' /\ dialled'[ask'[b].via] = ask'[b].rack
    <3>1. CASE b = a
      BY <2>1, <2>2, <2>3, <2>4, <3>1
    <3>2. CASE b # a
      <4>1. ask'[b] = ask[b] /\ ask[b] # Idle
        BY <2>4, <2>6, <3>2
      <4>2. ask[b].id \in Nat /\ ask[b].id <= asked /\ dialled[ask[b].via] = ask[b].rack
        BY <2>5, <4>1 DEF Numbered
      <4> QED BY <2>1, <2>3, <4>1, <4>2
    <3> QED BY <3>1, <3>2
  <2>7. ASSUME NEW b \in Asker, NEW d \in Asker, ask'[b] # Idle, ask'[d] # Idle, ask'[b].id = ask'[d].id
        PROVE  b = d
    BY <2>2, <2>3, <2>4, <2>5, <2>7 DEF Numbered
  <2> QED BY <2>6, <2>7, ConnDialled DEF Numbered
<1>3. ASSUME UNCHANGED asked,
             \A a \in Asker : ask'[a] # Idle =>
               /\ ask[a] # Idle /\ ask'[a].id = ask[a].id /\ ask'[a].rack = ask[a].rack
               /\ ask'[a].kind = ask[a].kind /\ ask'[a].via = ask[a].via
      PROVE  Numbered'
  <2>1. ASSUME NEW a \in Asker, ask'[a] # Idle
        PROVE  ask'[a].id <= asked' /\ dialled'[ask'[a].via] = ask'[a].rack
    <3>1. ask[a].via \in Conn /\ dialled[ask[a].via] = ask[a].rack /\ ask[a].rack \in Rack
      BY <1>1, <1>3, <2>1 DEF Numbered
    <3>2. dialled'[ask[a].via] = ask[a].rack
      BY <3>1, DialledKept
    <3> QED BY <1>3, <2>1, <3>2 DEF Numbered
  <2>2. \A a, b \in Asker : ask'[a] # Idle /\ ask'[b] # Idle /\ ask'[a].id = ask'[b].id => a = b
    BY <1>3 DEF Numbered
  <2> QED BY <2>1, <2>2, ConnDialled DEF Numbered
<1> QED BY <1>2, <1>3, WaitsKept, AskedKept

\* A message that a step puts anywhere is of a question that was carried before,
\* or is the question asked.
OldNews(m) ==
  \E n \in Question \cup Reply : Carries(down, up, hand, n) /\ n.id = m.id /\ n.kind = m.kind
LEMMA OldStays ==
  ASSUME NEW m \in Question \cup Reply, Carries(down, up, hand, m)
  PROVE  OldNews(m)
BY DEF OldNews

LEMMA LinkCarries ==
  ASSUME TypeInv, NEW r \in Rack, LinkStep(r), NEW m \in Question \cup Reply,
         Carries(down', up', hand', m)
  PROVE  OldNews(m)
<1> USE DEF Carries
<1>1. /\ down \in [Conn -> Seq(Question)] /\ up \in [Conn -> Seq(Reply \cup {Hello})]
      /\ hand \in [Rack -> Question \cup Reply \cup {Hello, Beat, None}]
  BY DEF TypeInv, TypeOK
<1>2. m # Hello /\ m # Beat /\ m # None
  <2>1. m.type \in {"question", "reply"} /\ Hello.type = "hello" /\ Beat.type = "beat"
    BY DEF Question, Reply, Hello, Beat
  <2>2. m # None
    BY NoneAssumption
  <2> QED BY <2>1, <2>2
<1>3. ASSUME NEW x, hand' = [hand EXCEPT ![r] = x], x = m => OldNews(m)
      PROVE  (\E q \in Rack : hand'[q] = m) => OldNews(m)
  <2> SUFFICES ASSUME NEW q \in Rack, hand'[q] = m PROVE OldNews(m)
    OBVIOUS
  <2>1. x = m \/ hand[q] = m
    BY <1>1, <1>3
  <2> QED BY <1>3, <2>1, OldStays
<1>4. ASSUME UNCHANGED <<down, up>>, (\E q \in Rack : hand'[q] = m) => OldNews(m)
      PROVE  OldNews(m)
  BY <1>4, OldStays
<1>5. CASE Dial(r)
  BY <1>2, <1>3, <1>4, <1>5 DEF Dial
<1>6. CASE Receive(r)
  <2>1. at[r] \in Conn /\ down[at[r]] # <<>>
    BY <1>6 DEF Receive, TypeInv, TypeOK, Wired
  <2>2. /\ down' = [down EXCEPT ![at[r]] = Tail(@)] /\ up' = up
        /\ hand' = [hand EXCEPT ![r] = Head(down[at[r]])]
    BY <1>6 DEF Receive
  <2>3. OnWire(down, Head(down[at[r]])) /\ (OnWire(down', m) => OnWire(down, m))
    BY <1>1, <2>1, <2>2, WireTail
  <2>4. Head(down[at[r]]) = m => OldNews(m)
    BY <2>3, OldStays
  <2>5. (\E q \in Rack : hand'[q] = m) => OldNews(m)
    BY <1>3, <2>2, <2>4
  <2> QED BY <2>2, <2>3, <2>5, OldStays
<1>7. CASE Handle(r)
  <2> DEFINE x == [type |-> "reply", id |-> hand[r].id, kind |-> hand[r].kind, rack |-> r]
  <2>1. hand[r] \in Question
    BY <1>7 DEF Handle, TypeInv, Held
  <2>2. x = m => OldNews(m)
    BY <2>1 DEF OldNews
  <2>3. hand' = [hand EXCEPT ![r] = x] /\ UNCHANGED <<down, up>>
    BY <1>7 DEF Handle, wires
  <2> HIDE DEF x
  <2> QED BY <1>3, <1>4, <2>2, <2>3
<1>8. CASE BeatDue(r)
  BY <1>2, <1>3, <1>4, <1>8 DEF BeatDue, wires
<1>9. CASE LinkSend(r) \/ RecvFails(r)
  BY <1>9, OldStays DEF LinkSend, RecvFails, wires
<1>10. CASE LinkSent(r)
  <2>1. at[r] \in Conn /\ hand[r] \in Reply \cup {Hello, Beat}
    BY <1>10 DEF LinkSent, TypeInv, TypeOK, Wired, Held
  <2>2. /\ down' = down /\ hand' = [hand EXCEPT ![r] = None]
        /\ up' = up \/ (hand[r] # Beat /\ up' = [up EXCEPT ![at[r]] = Append(@, hand[r])])
    BY <1>10 DEF LinkSent
  <2>3. OnWire(up', m) => OnWire(up, m) \/ m = hand[r]
    <3>1. CASE up' = up
      BY <3>1
    <3>2. CASE up' # up
      <4>1. hand[r] \in Reply \cup {Hello} /\ up' = [up EXCEPT ![at[r]] = Append(@, hand[r])]
        BY <2>1, <2>2, <3>2
      <4>2. /\ at[r] \in Conn /\ hand[r] \in Reply \cup {Hello}
            /\ up[at[r]] \in Seq(Reply \cup {Hello}) /\ up'[at[r]] = Append(up[at[r]], hand[r])
            /\ \A d \in Conn \ {at[r]} : up'[d] = up[d]
        BY <1>1, <2>1, <4>1
      <4>3. ASSUME OnWire(up', m)
            PROVE  OnWire(up, m) \/ m = hand[r]
        <5> DEFINE M == Reply \cup {Hello}
                   c == at[r]
                   x == hand[r]
        <5>1. /\ c \in Conn /\ x \in M /\ up[c] \in Seq(M) /\ up'[c] = Append(up[c], x)
              /\ \A d \in Conn \ {c} : up'[d] = up[d]
          BY <4>2
        <5> HIDE DEF M, c, x
        <5>2. OnWire(up, m) \/ m = x
          BY <4>3, <5>1, WireAppend
        <5> QED BY <5>2 DEF x
      <4> QED BY <4>3
    <3> QED BY <3>1, <3>2
  <2>4. (\E q \in Rack : hand'[q] = m) => OldNews(m)
    BY <1>2, <1>3, <2>2
  <2> QED BY <2>2, <2>3, <2>4, OldStays
<1>11. CASE End(r)
  <2>1. at[r] \in Conn /\ down' = [down EXCEPT ![at[r]] = <<>>] /\ UNCHANGED <<up, hand>>
    BY <1>11 DEF End, TypeInv, TypeOK, Wired
  <2>2. OnWire(down', m) => OnWire(down, m)
    BY <1>1, <2>1, WireEmpty
  <2> QED BY <2>1, <2>2, OldStays
<1> QED BY <1>5, <1>6, <1>7, <1>8, <1>9, <1>10, <1>11 DEF LinkStep

LEMMA NextCarries ==
  ASSUME TypeInv, [Next]_vars, NEW m \in Question \cup Reply, Carries(down', up', hand', m)
  PROVE  \/ OldNews(m)
         \/ \E a \in Asker, r \in Rack, kind \in Kind :
              Ask(a, r, kind) /\ m.id = NextId /\ m.kind = kind
<1> USE DEF Carries
<1>1. /\ down \in [Conn -> Seq(Question)] /\ up \in [Conn -> Seq(Reply \cup {Hello})]
  BY DEF TypeInv, TypeOK
<1>2. ASSUME UNCHANGED <<down, up, hand>>
      PROVE  OldNews(m)
  BY <1>2, OldStays
<1>3. ASSUME NEW a \in Asker, NEW r \in Rack, NEW kind \in Kind, Ask(a, r, kind)
      PROVE  OldNews(m) \/ (m.id = NextId /\ m.kind = kind)
  <2> DEFINE x == [type |-> "question", id |-> NextId, kind |-> kind]
  <2>1. conn[r] \in Conn /\ NextId \in 1..MaxQuestions
    BY <1>3, BoundsAssumption DEF Ask, TypeInv, TypeOK, NextId
  <2>2. x \in Question
    BY <2>1 DEF Question
  <2>3. /\ down' = down \/ down' = [down EXCEPT ![conn[r]] = Append(@, x)]
        /\ UNCHANGED <<up, hand>>
    BY <1>3 DEF Ask, rack
  <2>4. x.id = NextId /\ x.kind = kind
    OBVIOUS
  <2> HIDE DEF x
  <2>5. OnWire(down', m) => OnWire(down, m) \/ m = x
    <3>1. CASE down' = down
      BY <3>1
    <3>2. CASE down' = [down EXCEPT ![conn[r]] = Append(@, x)]
      <4>1. /\ down[conn[r]] \in Seq(Question) /\ down'[conn[r]] = Append(down[conn[r]], x)
            /\ \A d \in Conn \ {conn[r]} : down'[d] = down[d]
        BY <1>1, <2>1, <3>2
      <4> QED BY <2>1, <2>2, <4>1, WireAppend
    <3> QED BY <2>3, <3>1, <3>2
  <2> QED BY <2>3, <2>4, <2>5, OldStays
<1>4. ASSUME NEW c \in Conn, HandlerStep(c)
      PROVE  OldNews(m)
  <2>1. /\ \/ up[c] # <<>> /\ up' = [up EXCEPT ![c] = Tail(@)]
           \/ up' = [up EXCEPT ![c] = <<>>]
        /\ UNCHANGED <<down, hand>>
    BY <1>4 DEF HandlerStep, Register, Read, HandlerEnds, HelloLost, rack
  <2>2. OnWire(up', m) => OnWire(up, m)
    BY <1>1, <2>1, WireTail, WireEmpty
  <2> QED BY <2>1, <2>2, OldStays
<1>5. ASSUME NEW c \in Conn, Lose(c) \/ Stall(c)
      PROVE  OldNews(m)
  <2>1. down' = [down EXCEPT ![c] = <<>>] /\ UNCHANGED <<up, hand>>
    BY <1>5 DEF Lose, Stall, rack
  <2>2. OnWire(down', m) => OnWire(down, m)
    BY <1>1, <2>1, WireEmpty
  <2> QED BY <2>1, <2>2, OldStays
<1>6. ASSUME NEW a \in Asker, AskerStep(a)
      PROVE  UNCHANGED <<down, up, hand>>
  BY <1>6 DEF AskerStep, SendReturns, SendFails, Answered, GiveUp, WayOut, wires, rack
<1>7. ASSUME NEW r \in Rack, PumpStep(r) \/ Abort(r)
      PROVE  UNCHANGED <<down, up, hand>>
  BY <1>7 DEF PumpStep, PumpSend, PumpSent, Abort, wires, rack
<1>8. UNCHANGED vars => UNCHANGED <<down, up, hand>>
  BY DEF vars, wires, rack
<1> QED BY <1>2, <1>3, <1>4, <1>5, <1>6, <1>7, <1>8, LinkCarries DEF Next

LEMMA NextAgrees ==
  ASSUME TypeInv, Numbered, Carried, [Next]_vars,
         NEW m \in Question \cup Reply, Carries(down', up', hand', m)
  PROVE  Agrees(m)'
<1>1. /\ m.id \in Nat /\ asked \in Nat
      /\ \A a \in Asker : ask[a] # Idle => ask[a].id \in Nat /\ ask[a].id <= asked
  BY BoundsAssumption, WaitType DEF TypeInv, TypeOK, Numbered, Wait, Question, Reply
<1>2. ASSUME NEW a \in Asker, NEW r \in Rack, NEW kind \in Kind, Ask(a, r, kind)
      PROVE  /\ asked' = asked + 1 /\ ask'[a].id = asked + 1 /\ ask'[a].kind = kind
             /\ \A b \in Asker \ {a} : ask'[b] = ask[b]
  BY <1>2 DEF Ask, NextId, TypeInv, TypeOK
<1>3. CASE OldNews(m)
  <2>1. PICK n \in Question \cup Reply : Carries(down, up, hand, n) /\ n.id = m.id /\ n.kind = m.kind
    BY <1>3 DEF OldNews
  <2>2. Agrees(n)
    BY <2>1 DEF Carried
  <2>3. m.id <= asked /\ \A a \in Asker : ask[a] # Idle /\ ask[a].id = m.id => ask[a].kind = m.kind
    BY <2>1, <2>2 DEF Agrees
  <2>4. ASSUME NEW a \in Asker, NEW r \in Rack, NEW kind \in Kind, Ask(a, r, kind)
        PROVE  Agrees(m)'
    <3>1. m.id <= asked' /\ m.id # asked + 1
      BY <1>1, <1>2, <2>3, <2>4
    <3> QED BY <1>2, <2>3, <2>4, <3>1 DEF Agrees
  <2>5. ASSUME UNCHANGED asked,
               \A a \in Asker : ask'[a] # Idle =>
                 /\ ask[a] # Idle /\ ask'[a].id = ask[a].id /\ ask'[a].rack = ask[a].rack
                 /\ ask'[a].kind = ask[a].kind /\ ask'[a].via = ask[a].via
        PROVE  Agrees(m)'
    BY <2>3, <2>5 DEF Agrees
  <2> QED BY <2>4, <2>5, WaitsKept, AskedKept
<1>4. ASSUME NEW a \in Asker, NEW r \in Rack, NEW kind \in Kind,
             Ask(a, r, kind), m.id = NextId, m.kind = kind
      PROVE  Agrees(m)'
  <2>1. m.id = asked + 1 /\ m.id <= asked'
    BY <1>1, <1>2, <1>4 DEF NextId
  <2>2. \A b \in Asker \ {a} : ask'[b] # Idle => ask'[b].id # m.id
    BY <1>1, <1>2, <1>4, <2>1
  <2> QED BY <1>2, <1>4, <2>1, <2>2 DEF Agrees
<1> QED BY <1>3, <1>4, NextCarries

\* A reply goes up on a connection of the rack that made it.
LEMMA NextSigned ==
  ASSUME TypeInv, Carried, [Next]_vars
  PROVE  /\ \A c \in Conn : \A i \in 1..Len(up'[c]) : up'[c][i] \in Reply => up'[c][i].rack = dialled'[c]
         /\ \A r \in Rack : hand'[r] \in Reply => hand'[r].rack = r
<1>1. ASSUME NEW c \in Conn, NEW i \in 1..Len(up[c]), up[c][i] \in Reply
      PROVE  up[c][i].rack = dialled'[c]
  <2>1. up[c] # <<>>
    BY <1>1 DEF TypeInv, TypeOK
  <2>2. dialled[c] \in Rack
    BY <2>1, Whose
  <2> QED BY <1>1, <2>2, DialledKept DEF Carried
<1>2. ASSUME UNCHANGED up
      PROVE  \A c \in Conn : \A i \in 1..Len(up'[c]) : up'[c][i] \in Reply => up'[c][i].rack = dialled'[c]
  BY <1>1, <1>2
<1>3. ASSUME UNCHANGED hand
      PROVE  \A r \in Rack : hand'[r] \in Reply => hand'[r].rack = r
  BY <1>3 DEF Carried
<1>4. ASSUME NEW c \in Conn, HandlerStep(c)
      PROVE  /\ \A d \in Conn : \A i \in 1..Len(up'[d]) : up'[d][i] \in Reply => up'[d][i].rack = dialled'[d]
             /\ UNCHANGED hand
  <2>1. /\ \/ up[c] # <<>> /\ up' = [up EXCEPT ![c] = Tail(@)]
           \/ up' = [up EXCEPT ![c] = <<>>]
        /\ UNCHANGED hand
    BY <1>4 DEF HandlerStep, Register, Read, HandlerEnds, HelloLost, rack
  <2>2. up[c] \in Seq(Reply \cup {Hello})
    BY DEF TypeInv, TypeOK
  <2>3. ASSUME NEW i \in 1..Len(up'[c]), up'[c][i] \in Reply
        PROVE  up'[c][i].rack = dialled'[c]
    <3>1. CASE up[c] # <<>> /\ up' = [up EXCEPT ![c] = Tail(@)]
      <4>1. up'[c] = Tail(up[c])
        BY <3>1 DEF TypeInv, TypeOK
      <4>2. i + 1 \in 1..Len(up[c]) /\ up[c][i + 1] = up'[c][i]
        BY <2>2, <3>1, <4>1, TailOf
      <4> QED BY <1>1, <2>3, <4>2
    <3>2. CASE up' = [up EXCEPT ![c] = <<>>]
      BY <3>2 DEF TypeInv, TypeOK
    <3> QED BY <2>1, <3>1, <3>2
  <2>4. \A d \in Conn \ {c} : up'[d] = up[d]
    BY <2>1 DEF TypeInv, TypeOK
  <2> QED BY <1>1, <2>1, <2>3, <2>4
<1>5. ASSUME NEW r \in Rack, LinkStep(r)
      PROVE  /\ \A d \in Conn : \A i \in 1..Len(up'[d]) : up'[d][i] \in Reply => up'[d][i].rack = dialled'[d]
             /\ \A q \in Rack : hand'[q] \in Reply => hand'[q].rack = q
  <2>1. ASSUME NEW x, hand' = [hand EXCEPT ![r] = x], x \in Reply => x.rack = r
        PROVE  \A q \in Rack : hand'[q] \in Reply => hand'[q].rack = q
    BY <2>1 DEF Carried, TypeInv, TypeOK
  <2>2. CASE LinkSent(r)
    <3>1. /\ hand' = [hand EXCEPT ![r] = None] /\ UNCHANGED dialled
          /\ up' = up \/ (hand[r] # Beat /\ up' = [up EXCEPT ![at[r]] = Append(@, hand[r])])
      BY <2>2 DEF LinkSent
    <3>2. at[r] \in Conn /\ dialled[at[r]] = r /\ up[at[r]] \in Seq(Reply \cup {Hello})
          /\ hand[r] \in Reply \cup {Hello, Beat}
      BY <2>2 DEF LinkSent, TypeInv, TypeOK, Wired, Held
    <3>3. ASSUME up' # up
          PROVE  \A d \in Conn : \A i \in 1..Len(up'[d]) : up'[d][i] \in Reply => up'[d][i].rack = dialled'[d]
      <4>1. hand[r] \in Reply \cup {Hello} /\ up' = [up EXCEPT ![at[r]] = Append(@, hand[r])]
        BY <3>1, <3>2, <3>3
      <4>2. /\ up'[at[r]] = Append(up[at[r]], hand[r])
            /\ \A d \in Conn \ {at[r]} : up'[d] = up[d]
        BY <3>2, <4>1 DEF TypeInv, TypeOK
      <4>3. \A i \in 1..Len(Append(up[at[r]], hand[r])) :
              \/ i \in 1..Len(up[at[r]]) /\ Append(up[at[r]], hand[r])[i] = up[at[r]][i]
              \/ Append(up[at[r]], hand[r])[i] = hand[r]
        BY <3>2, <4>1
      <4>4. ASSUME NEW i \in 1..Len(up'[at[r]]), up'[at[r]][i] \in Reply
            PROVE  up'[at[r]][i].rack = dialled'[at[r]]
        <5>1. CASE i \in 1..Len(up[at[r]]) /\ up'[at[r]][i] = up[at[r]][i]
          BY <1>1, <3>2, <4>4, <5>1
        <5>2. CASE up'[at[r]][i] = hand[r]
          BY <3>1, <3>2, <4>4, <5>2 DEF Carried
        <5> QED BY <4>2, <4>3, <5>1, <5>2
      <4> QED BY <1>1, <4>2, <4>4
    <3>4. None \notin Reply
      BY Distinct
    <3> QED BY <1>2, <2>1, <3>1, <3>3, <3>4
  <2>3. CASE Dial(r)
    BY <1>2, <2>1, <2>3, Distinct DEF Dial
  <2>4. CASE Receive(r)
    <3>1. down[at[r]] \in Seq(Question) /\ down[at[r]] # <<>>
      BY <2>4 DEF Receive, TypeInv, TypeOK, Wired
    <3>2. Head(down[at[r]]) \in Question
      BY <3>1, TailOf
    <3>3. \A q \in Question : q \notin Reply
      <4>1. (\A q \in Question : q.type = "question") /\ \A q \in Reply : q.type = "reply"
        BY DEF Question, Reply
      <4> QED BY <4>1
    <3> QED BY <1>2, <2>1, <2>4, <3>2, <3>3 DEF Receive
  <2>5. CASE Handle(r)
    BY <1>2, <2>1, <2>5 DEF Handle, wires
  <2>6. CASE BeatDue(r)
    BY <1>2, <2>1, <2>6, Distinct DEF BeatDue, wires
  <2>7. CASE LinkSend(r) \/ RecvFails(r) \/ End(r)
    BY <1>2, <1>3, <2>7 DEF LinkSend, RecvFails, End, wires
  <2> QED BY <1>5, <2>2, <2>3, <2>4, <2>5, <2>6, <2>7 DEF LinkStep
<1>6. ASSUME NEW a \in Asker, AskerStep(a) \/ \E r \in Rack, kind \in Kind : Ask(a, r, kind)
      PROVE  UNCHANGED <<up, hand>>
  BY <1>6 DEF AskerStep, SendReturns, SendFails, Answered, GiveUp, WayOut, Ask, wires, rack
<1>7. ASSUME NEW r \in Rack, PumpStep(r) \/ Abort(r)
      PROVE  UNCHANGED <<up, hand>>
  BY <1>7 DEF PumpStep, PumpSend, PumpSent, Abort, wires, rack
<1>8. ASSUME NEW c \in Conn, Lose(c) \/ Stall(c)
      PROVE  UNCHANGED <<up, hand>>
  BY <1>8 DEF Lose, Stall, rack
<1>9. UNCHANGED vars => UNCHANGED <<up, hand>>
  BY DEF vars, wires, rack
<1> QED BY <1>2, <1>3, <1>4, <1>5, <1>6, <1>7, <1>8, <1>9 DEF Next

LEMMA NextCarried ==
  ASSUME TypeInv, Numbered, Carried, [Next]_vars
  PROVE  Carried'
BY NextAgrees, NextSigned DEF Carried

\* The reply that is read is its asker's: the question has one number, and one
\* kind, and was asked of the rack the reply comes from.
LEMMA ReadAgrees ==
  ASSUME TypeInv, Carried, NEW c \in Conn, Read(c), NEW a \in Asker,
         ask[a] # Idle, ask[a].id = Head(up[c]).id, ask[a].rack = dialled[c]
  PROVE  Head(up[c]).rack = ask[a].rack /\ Head(up[c]).kind = ask[a].kind
<1>1. up[c] \in Seq(Reply \cup {Hello}) /\ up[c] # <<>>
  BY DEF Read, TypeInv, TypeOK
<1>2. Head(up[c]) = up[c][1] /\ 1 \in 1..Len(up[c]) /\ Head(up[c]) \in Reply
  BY <1>1, TailOf DEF Read, TypeInv, HelloFirst
<1>3. Carries(down, up, hand, Head(up[c]))
  BY <1>2 DEF Carries, OnWire
<1> QED BY <1>2, <1>3 DEF Carried, Agrees

LEMMA NextOwnReply ==
  ASSUME TypeInv, Carried, OwnReply, [Next]_vars
  PROVE  OwnReply'
<1> DEFINE Own(w) == w.got \in Reply => w.got.id = w.id /\ w.got.rack = w.rack /\ w.got.kind = w.kind
<1>1. \A a \in Asker : ask[a] # Idle => ask[a] \in Wait /\ Own(ask[a])
  BY WaitType DEF TypeInv, OwnReply
<1>2. ASSUME \A a \in Asker : ask'[a] # Idle =>
               /\ ask[a] # Idle /\ ask'[a].id = ask[a].id /\ ask'[a].rack = ask[a].rack
               /\ ask'[a].kind = ask[a].kind
               /\ ask'[a].got = ask[a].got \/ ask'[a].got \notin Reply
      PROVE  OwnReply'
  BY <1>1, <1>2 DEF OwnReply
<1>3. ASSUME NEW r
      PROVE  \A a \in Asker : ask[a] # Idle =>
               Abandoned(r)[a] = ask[a] \/ Abandoned(r)[a].got \notin Reply
  BY <1>1, Distinct DEF Abandoned, Wait
<1>4. ASSUME NEW c
      PROVE  \A a \in Asker : ask[a] # Idle =>
               WaitsAfterDrop(c)[a].got = ask[a].got \/ WaitsAfterDrop(c)[a].got \notin Reply
  BY <1>3 DEF WaitsAfterDrop
<1>5. ASSUME NEW a \in Asker, NEW r \in Rack, NEW kind \in Kind, Ask(a, r, kind)
      PROVE  OwnReply'
  <2>1. ask'[a].got = None /\ \A b \in Asker \ {a} : ask'[b] = ask[b]
    BY <1>5 DEF Ask, TypeInv, TypeOK
  <2> QED BY <2>1, Distinct DEF OwnReply
<1>6. ASSUME NEW a \in Asker, AskerStep(a)
      PROVE  OwnReply'
  <2>1. CASE SendReturns(a)
    <3>1. ask[a] \in Wait
      BY <2>1, WaitType DEF SendReturns, InFlight, TypeInv
    <3>2. /\ [ask[a] EXCEPT !.phase = "waiting"].rack = ask[a].rack
          /\ [ask[a] EXCEPT !.phase = "waiting"].got = ask[a].got
          /\ [ask[a] EXCEPT !.phase = "waiting"].id = ask[a].id
          /\ [ask[a] EXCEPT !.phase = "waiting"].kind = ask[a].kind
      BY <3>1 DEF Wait
    <3>3. /\ ask'[a] = [ask[a] EXCEPT !.phase = "waiting"] /\ ask[a] # Idle
          /\ \A b \in Asker \ {a} : ask'[b] = ask[b]
      BY <2>1, <3>1, Distinct DEF SendReturns, TypeInv, TypeOK
    <3> QED BY <1>2, <3>2, <3>3
  <2>2. CASE SendFails(a)
    <3> DEFINE now == WaitsAfterDrop(ask[a].via)
    <3>1. ask' = [now EXCEPT ![a] = Idle] /\ SameWaits(now)
      BY <2>2, DropSame DEF SendFails, WayOut, TypeInv
    <3>2. \A b \in Asker : ask'[b] # Idle => b # a /\ ask'[b] = now[b] /\ ask[b] # Idle
      BY <3>1 DEF SameWaits
    <3> QED BY <1>2, <1>4, <3>1, <3>2 DEF SameWaits
  <2>3. CASE Answered(a) \/ GiveUp(a)
    <3>1. ask' = [ask EXCEPT ![a] = Idle] /\ ask \in [Asker -> Wait \cup {Idle}]
      BY <2>3 DEF Answered, GiveUp, WayOut, TypeInv, TypeOK
    <3>2. \A b \in Asker : ask'[b] # Idle => ask'[b] = ask[b] /\ ask[b] # Idle
      BY <3>1
    <3> QED BY <1>2, <3>2
  <2> QED BY <1>6, <2>1, <2>2, <2>3 DEF AskerStep
<1>7. ASSUME NEW c \in Conn, HandlerStep(c)
      PROVE  OwnReply'
  <2>1. CASE Read(c)
    <3> DEFINE reply == Head(up[c])
    <3>1. ask' = Delivered(dialled[c], reply)
      BY <2>1 DEF Read
    <3>2. reply \in Reply
      BY <2>1, TailOf DEF Read, TypeInv, TypeOK, HelloFirst
    <3>3. SameWaits(ask')
      BY <3>1, <3>2, DeliveredSame DEF TypeInv
    <3>4. ASSUME NEW a \in Asker, ask'[a] # Idle
          PROVE  Own(ask'[a])
      <4>1. ask[a] # Idle /\ ask[a] \in Wait
        BY <1>1, <3>3, <3>4 DEF SameWaits
      <4>2. CASE /\ a \in pending /\ ask[a].id = reply.id
                 /\ ask[a].rack = dialled[c] /\ ask[a].got = None
        <5>1. ask'[a] = [ask[a] EXCEPT !.got = reply]
          BY <3>1, <4>2 DEF Delivered
        <5>2. ask'[a].got = reply /\ ask'[a].id = ask[a].id /\ ask'[a].rack = ask[a].rack
              /\ ask'[a].kind = ask[a].kind
          BY <3>2, <4>1, <5>1, SetGot
        <5>3. reply.rack = ask[a].rack /\ reply.kind = ask[a].kind
          BY <2>1, <4>1, <4>2, ReadAgrees
        <5> QED BY <4>2, <5>2, <5>3
      <4>3. CASE ~(/\ a \in pending /\ ask[a].id = reply.id
                   /\ ask[a].rack = dialled[c] /\ ask[a].got = None)
        <5>1. ask'[a] = ask[a]
          BY <3>1, <4>3 DEF Delivered
        <5> QED BY <1>1, <4>1, <5>1
      <4> QED BY <4>2, <4>3
    <3> QED BY <3>4 DEF OwnReply
  <2>2. CASE HandlerEnds(c)
    <3>1. ask' = WaitsAfterDrop(c) /\ SameWaits(ask')
      BY <2>2, DropSame DEF HandlerEnds, TypeInv
    <3> QED BY <1>2, <1>4, <3>1 DEF SameWaits
  <2>3. CASE Register(c) \/ HelloLost(c)
    BY <2>3 DEF Register, HelloLost, waits, OwnReply
  <2> QED BY <1>7, <2>1, <2>2, <2>3 DEF HandlerStep
<1>8. ASSUME NEW r \in Rack, LinkStep(r) \/ PumpStep(r) \/ Abort(r)
      PROVE  UNCHANGED ask
  BY <1>8 DEF LinkStep, Dial, Receive, Handle, BeatDue, LinkSend, LinkSent, RecvFails, End,
              PumpStep, PumpSend, PumpSent, Abort, waits
<1>9. ASSUME NEW c \in Conn, Lose(c) \/ Stall(c)
      PROVE  UNCHANGED ask
  BY <1>9 DEF Lose, Stall, waits
<1>10. UNCHANGED vars => UNCHANGED ask
  BY DEF vars, waits
<1>11. UNCHANGED ask => OwnReply'
  BY DEF OwnReply
<1> QED BY <1>5, <1>6, <1>7, <1>8, <1>9, <1>10, <1>11 DEF Next

LEMMA AlwaysRefInv == Spec => []RefInv
<1>1. Init => RefInv
  <2> SUFFICES ASSUME Init PROVE RefInv
    OBVIOUS
  <2>1. (\A a \in Asker : ask[a] = Idle) /\ (\A r \in Rack : conn[r] = NoConn)
    BY DEF Init
  <2>2. \A c \in Conn : Len(down[c]) = 0 /\ Len(up[c]) = 0
    BY DEF Init
  <2>3. \A m \in Question \cup Reply : ~Carries(down, up, hand, m)
    BY <2>2, NoneAssumption DEF Init, Carries, OnWire
  <2>4. \A r \in Rack : hand[r] \notin Reply
    BY NoneAssumption DEF Init
  <2> QED BY <2>1, <2>2, <2>3, <2>4 DEF RefInv, Numbered, Carried, OwnReply
<1>2. TypeInv /\ RefInv /\ [Next]_vars => RefInv'
  BY NextNumbered, NextCarried, NextOwnReply DEF RefInv
<1> QED BY <1>1, <1>2, AlwaysTyped, PTL DEF Spec

\* What Asking sees of a wait.
LEMMA Seen ==
  ASSUME NEW w \in Wait
  PROVE  /\ QuestionOf(w) = [id |-> w.id, rack |-> w.rack, kind |-> w.kind] /\ QuestionOf(w) # None
         /\ OutcomeOf(w) = None <=> w.got = None
<1>1. w # Idle /\ w.id \in Nat /\ w.rack \in Rack /\ w.kind \in Kind
      /\ w.got \in {None, Gone} \cup Reply
  BY Distinct, BoundsAssumption DEF Wait
<1>2. [id |-> w.id, rack |-> w.rack, kind |-> w.kind] \in [id : Nat, rack : Rack, kind : Kind]
  BY <1>1
<1>3. w.got \in Reply =>
        [id |-> w.got.id, rack |-> w.got.rack, kind |-> w.got.kind] \in [id : Nat, rack : Rack, kind : Kind]
  BY BoundsAssumption DEF Reply
<1> QED BY <1>1, <1>2, <1>3, NoneAssumption, Distinct DEF QuestionOf, OutcomeOf

LEMMA SeenIdle == QuestionOf(Idle) = None /\ OutcomeOf(Idle) = None
BY DEF QuestionOf, OutcomeOf

LEMMA SeenBy ==
  ASSUME TypeInv, NEW a \in Asker
  PROVE  /\ questions[a] = QuestionOf(ask[a]) /\ outcomes[a] = OutcomeOf(ask[a])
         /\ questions[a] # None <=> ask[a] # Idle
         /\ ask[a] # Idle => /\ ask[a] \in Wait /\ questions[a].id = ask[a].id
                             /\ questions[a].rack = ask[a].rack /\ questions[a].kind = ask[a].kind
         /\ outcomes[a] = None <=> ask[a] = Idle \/ ask[a].got = None
<1>1. questions[a] = QuestionOf(ask[a]) /\ outcomes[a] = OutcomeOf(ask[a])
  BY DEF questions, outcomes
<1>2. ask[a] # Idle => ask[a] \in Wait
  BY WaitType DEF TypeInv
<1> QED BY <1>1, <1>2, Seen, SeenIdle

\* Resolving waits changes no question, and abandoning a rack's is Asking's Lost.
LEMMA SameQuestions ==
  ASSUME TypeInv, NEW now, SameWaits(now), NEW a \in Asker
  PROVE  QuestionOf(now[a]) = questions[a]
BY SeenBy, Seen, SeenIdle, Distinct DEF SameWaits

LEMMA LostOutcomes ==
  ASSUME TypeInv, NEW r, NEW a \in Asker
  PROVE  OutcomeOf(Abandoned(r)[a]) =
           IF questions[a] # None /\ questions[a].rack = r /\ outcomes[a] = None
           THEN Asked!Lost ELSE outcomes[a]
<1>1. CASE ask[a] # Idle /\ ask[a].rack = r /\ ask[a].got = None
  <2>1. Abandoned(r)[a] = [ask[a] EXCEPT !.got = Gone] /\ ask[a] \in Wait
    BY <1>1, WaitType DEF Abandoned, TypeInv, Tabled
  <2>2. [ask[a] EXCEPT !.got = Gone] \in Wait /\ [ask[a] EXCEPT !.got = Gone].got = Gone
    BY <2>1, SetGot
  <2>3. OutcomeOf([ask[a] EXCEPT !.got = Gone]) = Asked!Lost
    BY <2>2, Distinct DEF OutcomeOf, Asked!Lost
  <2>4. questions[a] # None /\ questions[a].rack = r /\ outcomes[a] = None
    BY <1>1, SeenBy
  <2> QED BY <2>1, <2>3, <2>4
<1>2. CASE ~(ask[a] # Idle /\ ask[a].rack = r /\ ask[a].got = None)
  <2>1. Abandoned(r)[a] = ask[a]
    BY <1>2, WaitType DEF Abandoned, TypeInv, Tabled
  <2>2. ~(questions[a] # None /\ questions[a].rack = r /\ outcomes[a] = None)
    BY <1>2, SeenBy
  <2> QED BY <2>1, <2>2, SeenBy
<1> QED BY <1>1, <1>2

LEMMA AskRefines ==
  ASSUME TypeInv, ProbeGuard, NEW a \in Asker, NEW r \in Rack, NEW kind \in Kind, Ask(a, r, kind)
  PROVE  Asked!Ask(a)
<1> DEFINE w == [phase |-> "sending", rack |-> r, kind |-> kind, id |-> NextId,
                 via |-> conn[r], got |-> None]
<1>1. NextId \in 1..MaxQuestions /\ conn[r] \in Conn /\ asked' = asked + 1 /\ NextId = asked + 1
  BY BoundsAssumption DEF Ask, TypeInv, TypeOK, NextId, NoConn
<1>2. w \in Wait /\ w.got = None /\ w.id = asked + 1 /\ w.rack = r /\ w.kind = kind
  BY <1>1 DEF Wait
<1>3. ask' = [ask EXCEPT ![a] = w] /\ ask[a] = Idle /\ ask \in [Asker -> Wait \cup {Idle}]
  BY WaitType DEF Ask, TypeInv, TypeOK
<1> HIDE DEF w
<1>4. QuestionOf(w) = [id |-> asked + 1, rack |-> r, kind |-> kind] /\ OutcomeOf(w) = None
  BY <1>2, Seen
<1>5. questions[a] = None /\ outcomes[a] = None
  BY <1>3, SeenBy
<1>6. questions' = [questions EXCEPT ![a] = [id |-> asked + 1, rack |-> r, kind |-> kind]]
  BY <1>3, <1>4 DEF questions
<1>7. outcomes' = outcomes
  <2>1. \A b \in Asker : OutcomeOf(ask'[b]) = OutcomeOf(ask[b])
    BY <1>3, <1>4, SeenIdle
  <2> QED BY <2>1 DEF outcomes
<1>8. kind = "probe" => r \notin Asked!Probed
  <2>1. kind = "probe" => r \notin probing
    BY DEF Ask
  <2>2. r \in Asked!Probed => r \in probing
    BY SeenBy DEF Asked!Probed, ProbeGuard, Probes
  <2> QED BY <2>1, <2>2
<1>9. Asked!Kind = Kind
  BY DEF Kind, Asked!Kind
<1> QED BY <1>1, <1>5, <1>6, <1>7, <1>8, <1>9 DEF Asked!Ask

LEMMA ReturnRefines ==
  ASSUME TypeInv, NEW a \in InFlight, NEW now, SameWaits(now), ask' = [now EXCEPT ![a] = Idle],
         UNCHANGED asked,
         \/ now = ask
         \/ now = Abandoned(ask[a].rack)
  PROVE  Asked!Return(a)
<1>1. a \in Asker /\ questions[a] # None /\ questions[a].rack = ask[a].rack
  BY SeenBy, WaitType DEF InFlight, TypeInv
<1>2. \A b \in Asker : ask'[b] = IF b = a THEN Idle ELSE now[b]
  BY DEF SameWaits
<1>3. questions' = [questions EXCEPT ![a] = None]
  <2>1. \A b \in Asker : QuestionOf(ask'[b]) = IF b = a THEN None ELSE questions[b]
    BY <1>2, SameQuestions, SeenIdle
  <2> QED BY <2>1 DEF questions
<1>4. CASE now = ask
  <2>1. \A b \in Asker : OutcomeOf(ask'[b]) = IF b = a THEN None ELSE outcomes[b]
    BY <1>2, <1>4, SeenBy, SeenIdle
  <2>2. outcomes' = [outcomes EXCEPT ![a] = None]
    BY <2>1 DEF outcomes
  <2> QED BY <1>1, <1>3, <2>2 DEF Asked!Return
<1>5. CASE now = Abandoned(ask[a].rack)
  <2>1. \A b \in Asker :
          OutcomeOf(ask'[b]) =
            IF b = a THEN None
            ELSE IF questions[b] # None /\ questions[b].rack = questions[a].rack /\ outcomes[b] = None
                 THEN Asked!Lost ELSE outcomes[b]
    BY <1>1, <1>2, <1>5, LostOutcomes, SeenIdle
  <2>2. outcomes' = [b \in Asker |->
            IF b = a THEN None
            ELSE IF questions[b] # None /\ questions[b].rack = questions[a].rack /\ outcomes[b] = None
                 THEN Asked!Lost ELSE outcomes[b]]
    BY <2>1 DEF outcomes
  <2> QED BY <1>1, <1>3, <2>2 DEF Asked!Return
<1> QED BY <1>4, <1>5

LEMMA AskerRefines ==
  ASSUME TypeInv, Numbered, NEW a \in Asker, AskerStep(a)
  PROVE  Asked!Return(a) \/ UNCHANGED <<questions, outcomes, asked>>
<1>1. CASE SendReturns(a)
  <2>1. ask[a] \in Wait
    BY <1>1, WaitType DEF SendReturns, InFlight, TypeInv
  <2> DEFINE w == [ask[a] EXCEPT !.phase = "waiting"]
  <2>2. /\ w \in Wait /\ w.id = ask[a].id /\ w.rack = ask[a].rack /\ w.kind = ask[a].kind
        /\ w.got = ask[a].got
    BY <2>1 DEF Wait
  <2>3. QuestionOf(w) = QuestionOf(ask[a]) /\ OutcomeOf(w) = OutcomeOf(ask[a])
    <3> HIDE DEF w
    <3>1. QuestionOf(w) = QuestionOf(ask[a])
      <4>1. QuestionOf(w) = [id |-> w.id, rack |-> w.rack, kind |-> w.kind]
        BY <2>2, Seen
      <4>2. QuestionOf(ask[a]) = [id |-> ask[a].id, rack |-> ask[a].rack, kind |-> ask[a].kind]
        BY <2>1, Seen
      <4> QED BY <2>2, <4>1, <4>2
    <3>2. w # Idle /\ ask[a] # Idle
      <4>1. Idle \notin Wait
        BY Distinct
      <4> QED BY <2>1, <2>2, <4>1
    <3>3. OutcomeOf(w) = OutcomeOf(ask[a])
      BY <2>2, <3>2 DEF OutcomeOf
    <3> QED BY <3>1, <3>3
  <2>4. ask' = [ask EXCEPT ![a] = w] /\ ask \in [Asker -> Wait \cup {Idle}] /\ UNCHANGED asked
    BY <1>1 DEF SendReturns, TypeInv, TypeOK
  <2> HIDE DEF w
  <2>5. \A b \in Asker : QuestionOf(ask'[b]) = QuestionOf(ask[b]) /\ OutcomeOf(ask'[b]) = OutcomeOf(ask[b])
    BY <2>3, <2>4
  <2> QED BY <2>4, <2>5 DEF questions, outcomes
<1>2. CASE SendFails(a)
  <2> DEFINE c == ask[a].via
  <2>1. ask[a] \in Wait /\ ask[a] # Idle /\ a \in InFlight
    BY <1>2, WaitType DEF SendFails, InFlight, TypeInv
  <2>2. dialled[c] = ask[a].rack
    BY <2>1 DEF Numbered
  <2>3. WaitsAfterDrop(c) = ask \/ WaitsAfterDrop(c) = Abandoned(ask[a].rack)
    BY <2>2 DEF WaitsAfterDrop
  <2>4. SameWaits(WaitsAfterDrop(c))
    BY DropSame DEF TypeInv
  <2>5. ask' = [WaitsAfterDrop(c) EXCEPT ![a] = Idle] /\ UNCHANGED asked
    BY <1>2 DEF SendFails, WayOut
  <2> QED BY <2>1, <2>3, <2>4, <2>5, ReturnRefines
<1>3. CASE Answered(a) \/ GiveUp(a)
  <2>1. a \in InFlight /\ ask' = [ask EXCEPT ![a] = Idle] /\ UNCHANGED asked
    BY <1>3 DEF Answered, GiveUp, WayOut, InFlight
  <2>2. SameWaits(ask)
    BY AskSame DEF TypeInv
  <2> QED BY <2>1, <2>2, ReturnRefines
<1> QED BY <1>1, <1>2, <1>3 DEF AskerStep

LEMMA ReadRefines ==
  ASSUME TypeInv, Numbered, Carried, NEW c \in Conn, Read(c)
  PROVE  (\E a \in Asker : Asked!Answer(a)) \/ UNCHANGED <<questions, outcomes, asked>>
<1> DEFINE reply == Head(up[c])
           For(a) == /\ a \in pending /\ ask[a].id = reply.id
                     /\ ask[a].rack = dialled[c] /\ ask[a].got = None
<1>1. ask' = Delivered(dialled[c], reply) /\ UNCHANGED asked
  BY DEF Read
<1>2. reply \in Reply
  BY TailOf DEF Read, TypeInv, TypeOK, HelloFirst
<1>3. SameWaits(ask')
  BY <1>1, <1>2, DeliveredSame DEF TypeInv
<1>4. questions' = questions
  <2>1. \A a \in Asker : QuestionOf(ask'[a]) = questions[a]
    BY <1>3, SameQuestions
  <2>2. \A a \in Asker : questions[a] = QuestionOf(ask[a])
    BY SeenBy
  <2> QED BY <2>1, <2>2 DEF questions
<1>5. \A a \in Asker : ~For(a) => ask'[a] = ask[a]
  BY <1>1 DEF Delivered
<1>6. ASSUME NEW a \in Asker, For(a)
      PROVE  Asked!Answer(a)
  <2>1. ask[a] \in Wait /\ ask[a] # Idle
    BY <1>6, WaitType DEF TypeInv, Tabled
  <2>2. reply.rack = ask[a].rack /\ reply.kind = ask[a].kind /\ reply.id = ask[a].id
    BY <1>6, <2>1, ReadAgrees
  <2>3. ask'[a] = [ask[a] EXCEPT !.got = reply]
    BY <1>1, <1>6 DEF Delivered
  <2>4. ask'[a] \in Wait /\ ask'[a].got = reply
    BY <1>2, <2>1, <2>3, SetGot
  <2>5. OutcomeOf(ask'[a]) = questions[a]
    <3>1. ask'[a] # Idle /\ reply # None /\ reply # Gone
      BY <1>2, <2>4, Distinct
    <3>2. OutcomeOf(ask'[a]) = [id |-> reply.id, rack |-> reply.rack, kind |-> reply.kind]
      BY <2>4, <3>1 DEF OutcomeOf
    <3>3. questions[a] = [id |-> ask[a].id, rack |-> ask[a].rack, kind |-> ask[a].kind]
      BY <2>1, SeenBy DEF QuestionOf
    <3> QED BY <2>2, <3>2, <3>3
  <2>6. \A b \in Asker \ {a} : ~For(b)
    <3>1. ASSUME NEW b \in Asker, For(b)
          PROVE  b = a
      <4>1. ask[b] # Idle
        BY <3>1, WaitType DEF TypeInv, Tabled
      <4> QED BY <1>6, <2>1, <3>1, <4>1 DEF Numbered
    <3> QED BY <3>1
  <2>7. \A b \in Asker : OutcomeOf(ask'[b]) = IF b = a THEN questions[a] ELSE outcomes[b]
    BY <1>5, <2>5, <2>6, SeenBy
  <2>8. outcomes' = [outcomes EXCEPT ![a] = questions[a]]
    BY <2>7 DEF outcomes
  <2>9. questions[a] # None /\ outcomes[a] = None
    BY <1>6, <2>1, SeenBy
  <2> QED BY <1>1, <1>4, <2>8, <2>9 DEF Asked!Answer
<1>7. ASSUME \A a \in Asker : ~For(a)
      PROVE  UNCHANGED <<questions, outcomes, asked>>
  <2>1. \A a \in Asker : OutcomeOf(ask'[a]) = OutcomeOf(ask[a])
    BY <1>5, <1>7
  <2> QED BY <1>1, <1>4, <2>1 DEF outcomes
<1> QED BY <1>6, <1>7

LEMMA HandlerRefines ==
  ASSUME TypeInv, Numbered, Carried, NEW c \in Conn, HandlerStep(c)
  PROVE  \/ \E a \in Asker : Asked!Answer(a)
         \/ \E r \in Rack : Asked!Lose(r)
         \/ UNCHANGED <<questions, outcomes, asked>>
<1>1. CASE Read(c)
  BY <1>1, ReadRefines
<1>2. CASE HandlerEnds(c)
  <2>1. ask' = WaitsAfterDrop(c) /\ UNCHANGED asked /\ dialled[c] \in Rack
    BY <1>2, Whose DEF HandlerEnds
  <2>2. CASE Current(c)
    <3>1. ask' = Abandoned(dialled[c]) /\ SameWaits(ask')
      BY <2>1, <2>2, AbandonedSame DEF WaitsAfterDrop, TypeInv
    <3>2. questions' = questions
      <4>1. \A a \in Asker : QuestionOf(ask'[a]) = questions[a]
        BY <3>1, SameQuestions
      <4>2. \A a \in Asker : questions[a] = QuestionOf(ask[a])
        BY SeenBy
      <4> QED BY <4>1, <4>2 DEF questions
    <3>3. \A a \in Asker :
            OutcomeOf(ask'[a]) =
              IF questions[a] # None /\ questions[a].rack = dialled[c] /\ outcomes[a] = None
              THEN Asked!Lost ELSE outcomes[a]
      BY <3>1, LostOutcomes
    <3>4. outcomes' = [a \in Asker |->
              IF questions[a] # None /\ questions[a].rack = dialled[c] /\ outcomes[a] = None
              THEN Asked!Lost ELSE outcomes[a]]
      BY <3>3 DEF outcomes
    <3>5. Asked!Lose(dialled[c])
      BY <2>1, <3>2, <3>4 DEF Asked!Lose
    <3> QED BY <2>1, <3>5
  <2>3. CASE ~Current(c)
    BY <2>1, <2>3 DEF WaitsAfterDrop, questions, outcomes
  <2> QED BY <2>2, <2>3
<1>3. CASE Register(c) \/ HelloLost(c)
  BY <1>3 DEF Register, HelloLost, waits, questions, outcomes
<1> QED BY <1>1, <1>2, <1>3 DEF HandlerStep

LEMMA NextRefines ==
  ASSUME TypeInv, ProbeGuard, RefInv, [Next]_vars
  PROVE  [Asked!Next]_(Asked!vars)
<1> USE DEF RefInv
<1>1. UNCHANGED <<questions, outcomes, asked>> => UNCHANGED Asked!vars
  BY DEF Asked!vars
<1>2. ASSUME NEW a \in Asker, NEW r \in Rack, NEW kind \in Kind, Ask(a, r, kind)
      PROVE  Asked!Next
  BY <1>2, AskRefines DEF Asked!Next
<1>3. ASSUME NEW a \in Asker, AskerStep(a)
      PROVE  Asked!Next \/ UNCHANGED <<questions, outcomes, asked>>
  BY <1>3, AskerRefines DEF Asked!Next
<1>4. ASSUME NEW c \in Conn, HandlerStep(c)
      PROVE  Asked!Next \/ UNCHANGED <<questions, outcomes, asked>>
  BY <1>4, HandlerRefines DEF Asked!Next
<1>5. UNCHANGED <<ask, asked>> => UNCHANGED <<questions, outcomes, asked>>
  BY DEF questions, outcomes
<1>6. ASSUME NEW r \in Rack, LinkStep(r) \/ PumpStep(r) \/ Abort(r)
      PROVE  UNCHANGED <<ask, asked>>
  BY <1>6 DEF LinkStep, Dial, Receive, Handle, BeatDue, LinkSend, LinkSent, RecvFails, End,
              PumpStep, PumpSend, PumpSent, Abort, waits
<1>7. ASSUME NEW c \in Conn, Lose(c) \/ Stall(c)
      PROVE  UNCHANGED <<ask, asked>>
  BY <1>7 DEF Lose, Stall, waits
<1>8. UNCHANGED vars => UNCHANGED <<ask, asked>>
  BY DEF vars, waits
<1> QED BY <1>1, <1>2, <1>3, <1>4, <1>5, <1>6, <1>7, <1>8 DEF Next

\* Every step of the handlers, the hub, the racks and the network is a step of
\* Asking or is not seen by whoever asks: a reply reaches the handler that asked
\* that question of that rack, an outcome is never replaced, and a second probe
\* of a rack waits for the first to be given up or answered.
THEOREM Refines == Spec => Asked!Init /\ [][Asked!Next]_(Asked!vars)
<1>1. Init => Asked!Init
  <2> SUFFICES ASSUME Init PROVE Asked!Init
    OBVIOUS
  <2>1. questions = [a \in Asker |-> None] /\ outcomes = [a \in Asker |-> None]
    BY SeenIdle DEF Init, questions, outcomes
  <2> QED BY <2>1 DEF Init, Asked!Init
<1>2. TypeInv /\ ProbeGuard /\ RefInv /\ [Next]_vars => [Asked!Next]_(Asked!vars)
  BY NextRefines
<1> QED BY <1>1, <1>2, AlwaysTyped, AlwaysGuarded, AlwaysRefInv, PTL DEF Spec

=============================================================================
