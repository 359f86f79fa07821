---------------------------- MODULE ClaimsProofs ----------------------------
(***************************************************************************)
(* What a rack that joins without a token may rely on: the grant it polls  *)
(* for is one it can open, and the key it took opens a row.  Both rest on  *)
(* whose claim an id names (Filed) and what else its rack has (Fresh).     *)
(***************************************************************************)
EXTENDS Claims, FiniteSetTheorems, SequenceTheorems, TLAPS

-----------------------------------------------------------------------------
(* The invariant.                                                          *)

\* A rack polls with the id of a claim of its own, as long as there is one.
Filed ==
  \A r \in Rack : phase[r] = "polling" =>
     id[r] \in ClaimId /\ (Live(id[r]) => claim[id[r]].rack = r)

\* Its pending claim has the key pair it holds and is its only one, and a rack
\* that paired has none, so no approval comes behind the one it collected.
Fresh ==
  \A r \in Rack \ straggled :
    /\ phase[r] = "polling" => /\ Pending(id[r]) => claim[id[r]].public = pair[r]
                               /\ PendingOf(r) \subseteq {id[r]}
    /\ phase[r] = "paired" => PendingOf(r) = {}

\* Rack r's row with key k.
HasRow(r, k) == \E n \in Name : daemon[n] # None /\ daemon[n].key = k /\ daemon[n].fingerprint = r

\* It is there from the approval on.
Rows ==
  \A r \in Rack \ (removed \cup straggled) :
    /\ phase[r] = "polling" /\ Granted(id[r]) => HasRow(r, claim[id[r]].grant.key)
    /\ phase[r] = "paired" => HasRow(r, key[r])

\* Cardinality says nothing of an infinite set.
Finite == IsFiniteSet(Queue)

ClaimsInv == TypeOK /\ Finite /\ QueueSound /\ Filed /\ Fresh /\ Openable /\ Rows

-----------------------------------------------------------------------------
(* What the operators the actions are built from return.                   *)

LEMMA Limits ==
  /\ Lifetime \in Nat \ {0} /\ Suppression \in Nat \ {0} /\ Window \in Nat \ {0}
  /\ MaxPending \in Nat \ {0} /\ MaxTrouble \in Nat
BY LimitsAssumption

LEMMA LiveType ==
  ASSUME TypeOK, NEW i \in ClaimId, Live(i)
  PROVE  /\ claim[i] \in Claim /\ claim[i].rack \in Rack /\ claim[i].public \in KeyPair
         /\ claim[i].age \in 0..Lifetime /\ claim[i].grant \in Sealed \cup {None}
         /\ Granted(i) => /\ claim[i].grant \in Sealed
                          /\ claim[i].grant.key \in Key /\ claim[i].grant.to \in KeyPair
<1>1. claim[i] \in Claim
  BY DEF TypeOK, Live
<1>2. claim[i].grant \in Sealed => claim[i].grant.key \in Key /\ claim[i].grant.to \in KeyPair
  BY DEF Sealed
<1> QED BY <1>1, <1>2 DEF Claim, Granted

LEMMA KeptType ==
  ASSUME TypeOK
  PROVE  /\ Kept \in [ClaimId -> Claim \cup {None}]
         /\ StillDenied \in [Rack -> (0..Suppression) \cup {None}]
         /\ \A i \in ClaimId : Kept[i] = IF Live(i) THEN claim[i] ELSE None
BY DEF TypeOK, Kept, StillDenied

LEMMA RecentType ==
  ASSUME TypeOK
  PROVE  /\ Recent \in [Address -> Seq(0..Window)]
         /\ \A a \in Address : Record(a) \in [Address -> Seq(0..Window)]
<1>1. ASSUME NEW a \in Address
      PROVE  Recent[a] \in Seq(0..Window)
  <2>1. attempts[a] \in Seq(0..Window) /\ Len(attempts[a]) \in Nat
    BY DEF TypeOK
  <2>2. IsFiniteSet(1..Len(attempts[a]))
    BY <2>1, FS_Interval
  <2>3. Past(a) \in SUBSET (1..Len(attempts[a]))
    BY DEF Past
  <2>4. Cardinality(Past(a)) \in Nat
    BY <2>2, <2>3, FS_Subset, FS_CardinalityType
  <2> DEFINE first == Cardinality(Past(a)) + 1
  <2>5. first \in Nat \ {0}
    BY <2>4
  <2> HIDE DEF first
  <2>6. SubSeq(attempts[a], first, Len(attempts[a])) \in Seq(0..Window)
    <3>1. first..Len(attempts[a]) \subseteq 1..Len(attempts[a])
      BY <2>1, <2>5
    <3>2. \A j \in 1..Len(attempts[a]) : attempts[a][j] \in 0..Window
      BY <2>1, ElementOfSeq
    <3> QED BY <2>1, <2>5, <3>1, <3>2, SubSeqProperties
  <2> QED BY <2>6 DEF Recent, first
<1>2. Recent \in [Address -> Seq(0..Window)]
  BY <1>1 DEF Recent
<1>3. 0 \in 0..Window
  BY Limits
<1> QED BY <1>2, <1>3 DEF Record

\* A claim that is granted.
LEMMA GrantedType ==
  ASSUME NEW c \in Claim, NEW seal \in Sealed
  PROVE  /\ [c EXCEPT !.grant = seal, !.age = 0] \in Claim
         /\ [c EXCEPT !.grant = seal, !.age = 0].rack = c.rack
         /\ [c EXCEPT !.grant = seal, !.age = 0].grant = seal
<1>1. 0 \in 0..Lifetime
  BY Limits
<1> HIDE DEF Sealed
<1> QED BY <1>1 DEF Claim

LEMMA OlderType ==
  ASSUME NEW limit \in Nat, NEW age \in 0..limit
  PROVE  Older(age, limit) \in 0..limit /\ (Older(age, limit) < limit => age < limit)
BY DEF Older

LEMMA TroubleType ==
  ASSUME TypeOK, Trouble
  PROVE  trouble' \in 0..MaxTrouble
BY Limits DEF TypeOK, Trouble

LEMMA Awaits ==
  ASSUME TypeOK, NEW p \in posts
  PROVE  /\ p.rack \in Rack /\ p.public \in KeyPair
         /\ Awaited(p) => phase[p.rack] = "filing" /\ pair[p.rack] = p.public
BY DEF TypeOK, Post, Awaited

\* A filing takes one of three ways.
FilingRefused(p) == Refused(p) /\ (claim' = claim \/ claim' = Kept) /\ UNCHANGED trouble

LEMMA HandleIs ==
  ASSUME TypeOK, NEW p \in posts, HandlePost(p)
  PROVE  /\ posts' = posts \ {p}
         /\ straggled' = IF Awaited(p) THEN straggled ELSE straggled \cup {p.rack}
         /\ UNCHANGED <<daemon, removed>>
         /\ attempts' \in [Address -> Seq(0..Window)]
         /\ denied' = denied \/ denied' = StillDenied
         /\ \/ FilingRefused(p)
            \/ ~Denied(p.rack) /\ (Refresh(p) \/ FileNew(p))
<1>1. From[p.rack] \in Address
  BY Awaits, NamesAssumption
<1> QED BY <1>1, RecentType DEF HandlePost, FilingRefused

LEMMA AnsweredIs ==
  ASSUME TypeOK, NEW p \in posts, NEW i \in ClaimId, Answered(p, i)
  PROVE  /\ UNCHANGED <<hostname, pair, key>> /\ trouble' \in 0..MaxTrouble
         /\ \/ UNCHANGED <<phase, id>>
            \/ /\ Awaited(p)
               /\ phase' = [phase EXCEPT ![p.rack] = "polling"]
               /\ id' = [id EXCEPT ![p.rack] = i]
BY TroubleType DEF Answered, TypeOK

\* One claim is filed, under an id nobody refers to, or taken over.
LEMMA FilingIs ==
  ASSUME TypeOK, NEW p \in posts, Refresh(p) \/ FileNew(p)
  PROVE  \E i \in ClaimId :
           /\ claim' \in [ClaimId -> Claim \cup {None}]
           /\ \A j \in ClaimId \ {i} : claim'[j] = Kept[j]
           /\ claim'[i] \in Claim
           /\ claim'[i].rack = p.rack /\ claim'[i].public = p.public /\ claim'[i].grant = None
           /\ Answered(p, i)
           /\ \/ i \in PendingOf(p.rack)
              \/ /\ PendingOf(p.rack) = {} /\ Cardinality(Queue) < MaxPending
                 /\ ~Live(i) /\ \A r \in Rack : id[r] # i
<1>1. p.rack \in Rack /\ p.public \in KeyPair
  BY Awaits
<1>2. CASE Refresh(p)
  <2>1. PICK i \in PendingOf(p.rack) : claim' = [Kept EXCEPT ![i].public = p.public] /\ Answered(p, i)
    BY <1>2 DEF Refresh
  <2>2. i \in ClaimId /\ Live(i) /\ claim[i].grant = None /\ claim[i].rack = p.rack
    BY <2>1 DEF PendingOf, Pending
  <2>3. Kept[i] \in Claim /\ Kept[i] = claim[i]
    BY <2>2, KeptType, LiveType
  <2>4. claim' = [Kept EXCEPT ![i] = [Kept[i] EXCEPT !.public = p.public]]
    BY <2>1
  <2>5. /\ [Kept[i] EXCEPT !.public = p.public] \in Claim
        /\ [Kept[i] EXCEPT !.public = p.public].rack = p.rack
        /\ [Kept[i] EXCEPT !.public = p.public].public = p.public
        /\ [Kept[i] EXCEPT !.public = p.public].grant = None
    BY <1>1, <2>2, <2>3 DEF Claim
  <2> QED BY <2>1, <2>2, <2>4, <2>5, KeptType
<1>3. CASE FileNew(p)
  <2> DEFINE i == Unused(ClaimId, UsedIds)
             new == [rack |-> p.rack, public |-> p.public, age |-> 0, grant |-> None]
  <2>1. /\ PendingOf(p.rack) = {} /\ Cardinality(Queue) < MaxPending /\ ClaimId \ UsedIds # {}
        /\ claim' = [Kept EXCEPT ![i] = new] /\ Answered(p, i)
    BY <1>3 DEF FileNew
  <2>2. i \in ClaimId \ UsedIds
    BY <2>1 DEF Unused
  <2>3. new \in Claim /\ new.rack = p.rack /\ new.public = p.public /\ new.grant = None
    BY <1>1, Limits DEF Claim
  <2> HIDE DEF i, new
  <2>4. ~Live(i) /\ \A r \in Rack : id[r] # i
    BY <2>2 DEF UsedIds
  <2> QED BY <2>1, <2>2, <2>3, <2>4, KeptType
<1> QED BY <1>2, <1>3

\* An approval grants one claim and puts its row in.
LEMMA ApproveIs ==
  ASSUME TypeOK, NEW r \in Rack, Approve(r)
  PROVE  \E i \in PendingOf(r), k \in Key :
           /\ i \in ClaimId
           /\ claim' \in [ClaimId -> Claim \cup {None}]
           /\ \A j \in ClaimId \ {i} : claim'[j] = Kept[j]
           /\ claim'[i] \in Claim /\ claim'[i].rack = r
           /\ claim'[i].grant = [key |-> k, to |-> claim[i].public]
           /\ [key |-> k, to |-> claim[i].public] \in Sealed
           /\ daemon' \in [Name -> Daemon \cup {None}]
           /\ daemon'[hostname[r]] = [key |-> k, fingerprint |-> r, seen |-> FALSE]
           /\ hostname[r] \in Name
           /\ \A n \in Name \ {hostname[r]} : daemon'[n] = daemon[n]
<1> DEFINE k == Unused(Key, UsedKeys)
           row == [key |-> k, fingerprint |-> r, seen |-> FALSE]
<1>1. k \in Key /\ hostname[r] \in Name
  BY DEF Approve, Unused, TypeOK
<1>2. PICK i \in PendingOf(r) :
        /\ claim' = [Kept EXCEPT ![i].grant = [key |-> k, to |-> claim[i].public], ![i].age = 0]
        /\ daemon' = [daemon EXCEPT ![hostname[r]] = row]
  BY DEF Approve
<1>3. i \in ClaimId /\ Live(i) /\ claim[i].rack = r
  BY DEF PendingOf, Pending
<1> DEFINE seal == [key |-> k, to |-> claim[i].public]
<1> HIDE DEF k
<1>4. Kept[i] \in Claim /\ Kept[i] = claim[i] /\ seal \in Sealed
  BY <1>1, <1>3, KeptType, LiveType DEF Sealed
<1>5. row \in Daemon
  BY <1>1 DEF Daemon
<1> HIDE DEF seal, row
<1>6. claim' = [Kept EXCEPT ![i] = [Kept[i] EXCEPT !.grant = seal, !.age = 0]]
  BY <1>2, <1>3, KeptType DEF seal
<1>7. /\ [Kept[i] EXCEPT !.grant = seal, !.age = 0] \in Claim
      /\ [Kept[i] EXCEPT !.grant = seal, !.age = 0].rack = r
      /\ [Kept[i] EXCEPT !.grant = seal, !.age = 0].grant = seal
  BY <1>3, <1>4, GrantedType
<1>8. /\ claim' \in [ClaimId -> Claim \cup {None}] /\ \A j \in ClaimId \ {i} : claim'[j] = Kept[j]
      /\ claim'[i] \in Claim /\ claim'[i].rack = r /\ claim'[i].grant = seal
  BY <1>3, <1>6, <1>7, KeptType
<1>9. /\ daemon' \in [Name -> Daemon \cup {None}] /\ daemon'[hostname[r]] = row
      /\ \A n \in Name \ {hostname[r]} : daemon'[n] = daemon[n]
  BY <1>1, <1>2, <1>5 DEF TypeOK
<1> QED BY <1>1, <1>3, <1>4, <1>8, <1>9 DEF seal, row

\* What a lap that ends leaves.
LEMMA NewLapIs ==
  ASSUME TypeOK, NEW r \in Rack, NewLap(r)
  PROVE  /\ phase' \in [Rack -> {"idle", "filing", "polling", "paired"}]
         /\ pair' \in [Rack -> KeyPair \cup {None}] /\ id' \in [Rack -> ClaimId \cup {None}]
         /\ hostname' = hostname /\ phase'[r] = "idle"
         /\ \A q \in Rack \ {r} : phase'[q] = phase[q] /\ pair'[q] = pair[q] /\ id'[q] = id[q]
BY DEF TypeOK, NewLap

-----------------------------------------------------------------------------
(* Types.                                                                  *)

LEMMA TypeStep ==
  ASSUME TypeOK, Filed, Next
  PROVE  TypeOK'
<1>1. ASSUME NEW r \in Rack, File(r)
      PROVE  TypeOK'
  <2> DEFINE k == Unused(KeyPair, UsedPairs)
  <2>1. k \in KeyPair
    BY <1>1 DEF File, Unused
  <2>2. pair' = [pair EXCEPT ![r] = k] /\ posts' = posts \cup {[rack |-> r, public |-> k]}
    BY <1>1 DEF File
  <2> HIDE DEF k
  <2>3. /\ pair' \in [Rack -> KeyPair \cup {None}] /\ posts' \subseteq Post
        /\ phase' \in [Rack -> {"idle", "filing", "polling", "paired"}]
    BY <1>1, <2>1, <2>2 DEF TypeOK, Post, File
  <2> QED BY <1>1, <2>3 DEF TypeOK, File, tables, history
<1>2. ASSUME NEW r \in Rack, GiveUp(r) \/ Crash(r)
      PROVE  TypeOK'
  <2>1. /\ NewLap(r) /\ UNCHANGED <<tables, attempts, posts, key, history>>
        /\ trouble' \in 0..MaxTrouble
    BY <1>2, TroubleType DEF GiveUp, Crash, TypeOK
  <2> QED BY <2>1, NewLapIs DEF TypeOK, tables, history
<1>3. ASSUME NEW r \in Rack, Poll(r)
      PROVE  TypeOK'
  <2>1. claim' \in [ClaimId -> Claim \cup {None}] /\ denied' \in [Rack -> (0..Suppression) \cup {None}]
    BY <1>3, KeptType DEF Poll, Expire
  <2>2. trouble' \in 0..MaxTrouble
    BY <1>3, TroubleType DEF Poll, TypeOK
  <2>3. UNCHANGED <<daemon, attempts, posts, history>>
    BY <1>3 DEF Poll
  <2>4. CASE UNCHANGED loop
    BY <2>1, <2>2, <2>3, <2>4 DEF TypeOK, loop, history
  <2>5. CASE NewLap(r) /\ UNCHANGED key
    BY <2>1, <2>2, <2>3, <2>5, NewLapIs DEF TypeOK, history
  <2>6. CASE ~UNCHANGED loop /\ ~(NewLap(r) /\ UNCHANGED key)
    <3>1. /\ Granted(id[r]) /\ phase[r] = "polling"
          /\ phase' = [phase EXCEPT ![r] = "paired"]
          /\ pair' = [pair EXCEPT ![r] = None]
          /\ id' = [id EXCEPT ![r] = None]
          /\ key' = [key EXCEPT ![r] = claim[id[r]].grant.key]
          /\ UNCHANGED hostname
      BY <1>3, <2>6 DEF Poll
    <3>2. claim[id[r]].grant.key \in Key
      BY <1>3, <3>1, LiveType DEF Granted, Filed
    <3>3. /\ phase' \in [Rack -> {"idle", "filing", "polling", "paired"}]
          /\ pair' \in [Rack -> KeyPair \cup {None}] /\ id' \in [Rack -> ClaimId \cup {None}]
          /\ key' \in [Rack -> Key \cup {None}]
      BY <3>1, <3>2 DEF TypeOK
    <3> QED BY <2>1, <2>2, <2>3, <3>1, <3>3 DEF TypeOK, history
  <2> QED BY <2>4, <2>5, <2>6
<1>4. ASSUME NEW r \in Rack, Dial(r)
      PROVE  TypeOK'
  <2>1. PICK n \in Name : daemon[n] # None /\ daemon' = [daemon EXCEPT ![n].seen = TRUE]
    BY <1>4 DEF Dial
  <2>2. [daemon[n] EXCEPT !.seen = TRUE] \in Daemon
    BY <2>1 DEF TypeOK, Daemon
  <2>3. daemon' = [daemon EXCEPT ![n] = [daemon[n] EXCEPT !.seen = TRUE]]
    BY <2>1
  <2>4. daemon' \in [Name -> Daemon \cup {None}]
    BY <2>2, <2>3 DEF TypeOK
  <2> QED BY <1>4, <2>4 DEF TypeOK, Dial, loop, history
<1>5. ASSUME NEW p \in posts, HandlePost(p)
      PROVE  TypeOK'
  <2>1. /\ posts' = posts \ {p} /\ straggled' \subseteq Rack /\ UNCHANGED <<daemon, removed>>
        /\ attempts' \in [Address -> Seq(0..Window)]
        /\ denied' \in [Rack -> (0..Suppression) \cup {None}]
    <3>1. straggled' = straggled \/ straggled' = straggled \cup {p.rack}
      BY <1>5 DEF HandlePost
    <3>2. p.rack \in Rack /\ straggled \subseteq Rack
      BY Awaits DEF TypeOK
    <3>3. straggled' \subseteq Rack
      BY <3>1, <3>2
    <3> QED BY <1>5, <3>3, HandleIs, KeptType DEF TypeOK
  <2>2. p.rack \in Rack
    BY Awaits
  <2>3. CASE FilingRefused(p)
    <3>1. claim' \in [ClaimId -> Claim \cup {None}] /\ UNCHANGED <<key, trouble>>
      BY <2>3, KeptType DEF FilingRefused, Refused, TypeOK
    <3>2. NewLap(p.rack) \/ UNCHANGED <<hostname, phase, pair, id>>
      BY <2>3 DEF FilingRefused, Refused
    <3> QED BY <2>1, <2>2, <3>1, <3>2, NewLapIs DEF TypeOK
  <2>4. CASE Refresh(p) \/ FileNew(p)
    <3>1. PICK i \in ClaimId : claim' \in [ClaimId -> Claim \cup {None}] /\ Answered(p, i)
      BY <2>4, FilingIs
    <3>2. /\ UNCHANGED <<hostname, pair, key>> /\ trouble' \in 0..MaxTrouble
          /\ \/ UNCHANGED <<phase, id>>
             \/ /\ phase' = [phase EXCEPT ![p.rack] = "polling"]
                /\ id' = [id EXCEPT ![p.rack] = i]
      BY <3>1, AnsweredIs
    <3>3. /\ phase' \in [Rack -> {"idle", "filing", "polling", "paired"}]
          /\ id' \in [Rack -> ClaimId \cup {None}]
      <4>1. CASE UNCHANGED <<phase, id>>
        BY <4>1 DEF TypeOK
      <4>2. CASE /\ phase' = [phase EXCEPT ![p.rack] = "polling"]
                 /\ id' = [id EXCEPT ![p.rack] = i]
        BY <2>2, <4>2 DEF TypeOK
      <4> QED BY <3>2, <4>1, <4>2
    <3> QED BY <2>1, <3>1, <3>2, <3>3 DEF TypeOK
  <2> QED BY <1>5, <2>3, <2>4, HandleIs
<1>6. ASSUME NEW p \in posts, LosePost(p)
      PROVE  TypeOK'
  BY <1>6, TroubleType DEF TypeOK, LosePost, tables, loop, history
<1>7. ASSUME NEW r \in Rack, Approve(r)
      PROVE  TypeOK'
  <2>1. claim' \in [ClaimId -> Claim \cup {None}] /\ daemon' \in [Name -> Daemon \cup {None}]
    BY <1>7, ApproveIs
  <2> QED BY <1>7, <2>1, KeptType DEF TypeOK, Approve, loop
<1>8. ASSUME NEW r \in Rack, Deny(r)
      PROVE  TypeOK'
  <2>1. claim' \in [ClaimId -> Claim \cup {None}]
    BY <1>8, KeptType DEF Deny
  <2>2. denied' \in [Rack -> (0..Suppression) \cup {None}]
    BY <1>8, KeptType, Limits DEF Deny
  <2> QED BY <1>8, <2>1, <2>2, TroubleType DEF TypeOK, Deny, loop, history
<1>9. ASSUME NEW n \in Name, CreateDaemon(n)
      PROVE  TypeOK'
  <2>1. daemon' \in [Name -> Daemon \cup {None}]
    BY <1>9 DEF TypeOK, CreateDaemon, Daemon
  <2> QED BY <1>9, <2>1, TroubleType DEF TypeOK, CreateDaemon, loop, history
<1>10. ASSUME NEW n \in Name, DeleteDaemon(n)
       PROVE  TypeOK'
  <2>1. daemon' \in [Name -> Daemon \cup {None}] /\ removed' \subseteq Rack
    BY <1>10 DEF TypeOK, DeleteDaemon, Daemon
  <2> QED BY <1>10, <2>1, TroubleType DEF TypeOK, DeleteDaemon, loop
<1>11. CASE Sweep
  BY <1>11, KeptType DEF TypeOK, Sweep, Expire, loop, history
<1>12. CASE Tick
  <2>1. ASSUME NEW i \in ClaimId, claim[i] # None
        PROVE  [claim[i] EXCEPT !.age = Older(claim[i].age, Lifetime)] \in Claim
    <3>1. claim[i] \in Claim /\ claim[i].age \in 0..Lifetime
      BY <2>1 DEF TypeOK, Claim
    <3>2. Older(claim[i].age, Lifetime) \in 0..Lifetime
      BY <3>1, OlderType, Limits
    <3> QED BY <3>1, <3>2 DEF Claim
  <2>2. claim' \in [ClaimId -> Claim \cup {None}]
    BY <1>12, <2>1 DEF Tick
  <2>3. denied' \in [Rack -> (0..Suppression) \cup {None}]
    BY <1>12, OlderType, Limits DEF TypeOK, Tick
  <2>4. attempts' \in [Address -> Seq(0..Window)]
    <3>1. ASSUME NEW a \in Address
          PROVE  [j \in 1..Len(attempts[a]) |-> Older(attempts[a][j], Window)] \in Seq(0..Window)
      <4>1. attempts[a] \in Seq(0..Window) /\ Len(attempts[a]) \in Nat
        BY DEF TypeOK
      <4>2. \A j \in 1..Len(attempts[a]) : attempts[a][j] \in 0..Window
        BY <4>1, ElementOfSeq
      <4>3. \A j \in 1..Len(attempts[a]) : Older(attempts[a][j], Window) \in 0..Window
        BY <4>2, OlderType, Limits
      <4> QED BY <4>1, <4>3
    <3> QED BY <1>12, <3>1 DEF Tick
  <2> QED BY <1>12, <2>2, <2>3, <2>4 DEF TypeOK, Tick, loop, history
<1> QED BY <1>1, <1>2, <1>3, <1>4, <1>5, <1>6, <1>7, <1>8, <1>9, <1>10, <1>11, <1>12 DEF Next

-----------------------------------------------------------------------------
(* What a step does that files no claim and approves none.                 *)

\* Claims go, and those that stay are what they were.
Aged ==
  \A i \in ClaimId : Live(i)' =>
     /\ Live(i) /\ claim'[i].rack = claim[i].rack
     /\ claim'[i].public = claim[i].public /\ claim'[i].grant = claim[i].grant

\* Rack q goes on with what it has, or takes the key it polled for.
GoesOn(q) ==
  /\ phase'[q] = "polling" => phase[q] = "polling" /\ id'[q] = id[q] /\ pair'[q] = pair[q]
  /\ phase'[q] = "paired" =>
       \/ phase[q] = "paired" /\ key'[q] = key[q]
       \/ phase[q] = "polling" /\ Granted(id[q]) /\ key'[q] = claim[id[q]].grant.key

\* A row goes with its rack's name in `removed`.
RowsKept == \A r \in Rack \ removed' : \A k : HasRow(r, k) => HasRow(r, k)'

Elapses ==
  /\ Aged /\ RowsKept /\ \A q \in Rack : GoesOn(q)
  /\ straggled \subseteq straggled' /\ removed \subseteq removed'

LEMMA KeptAged ==
  ASSUME TypeOK, claim' = claim \/ claim' = Kept
  PROVE  Aged
BY KeptType DEF Aged, Live

LEMMA SameRows ==
  ASSUME daemon' = daemon
  PROVE  RowsKept
BY DEF RowsKept, HasRow

LEMMA LapGoesOn ==
  ASSUME TypeOK, NEW r \in Rack, NewLap(r), key' = key
  PROVE  \A q \in Rack : GoesOn(q)
BY NewLapIs DEF GoesOn

LEMMA LoopGoesOn ==
  ASSUME UNCHANGED loop
  PROVE  \A q \in Rack : GoesOn(q)
BY DEF GoesOn, loop

LEMMA PollElapses ==
  ASSUME TypeOK, Filed, NEW r \in Rack, Poll(r)
  PROVE  Elapses
<1>1. Aged /\ RowsKept /\ UNCHANGED history
  BY KeptAged, SameRows DEF Poll, Expire
<1>2. CASE UNCHANGED loop
  BY <1>1, <1>2, LoopGoesOn DEF Elapses, history
<1>3. CASE NewLap(r) /\ UNCHANGED key
  BY <1>1, <1>3, LapGoesOn DEF Elapses, history
<1>4. CASE ~UNCHANGED loop /\ ~(NewLap(r) /\ UNCHANGED key)
  <2>1. /\ Granted(id[r]) /\ phase[r] = "polling"
        /\ phase' = [phase EXCEPT ![r] = "paired"]
        /\ pair' = [pair EXCEPT ![r] = None]
        /\ id' = [id EXCEPT ![r] = None]
        /\ key' = [key EXCEPT ![r] = claim[id[r]].grant.key]
    BY <1>4 DEF Poll
  <2>2. \A q \in Rack : GoesOn(q)
    BY <2>1 DEF TypeOK, GoesOn
  <2> QED BY <1>1, <2>2 DEF Elapses, history
<1> QED BY <1>2, <1>3, <1>4

LEMMA RackElapses ==
  ASSUME TypeOK, NEW r \in Rack, File(r) \/ GiveUp(r) \/ Crash(r) \/ Dial(r)
  PROVE  Elapses
<1>1. CASE File(r)
  <2>1. Aged /\ RowsKept
    BY <1>1, KeptAged, SameRows DEF File, tables
  <2>2. \A q \in Rack : GoesOn(q)
    BY <1>1 DEF TypeOK, GoesOn, File
  <2> QED BY <1>1, <2>1, <2>2 DEF Elapses, File, history
<1>2. CASE GiveUp(r) \/ Crash(r)
  <2>1. NewLap(r) /\ UNCHANGED <<tables, key, history>>
    BY <1>2 DEF GiveUp, Crash
  <2>2. Aged /\ RowsKept
    BY <2>1, KeptAged, SameRows DEF tables
  <2> QED BY <2>1, <2>2, LapGoesOn DEF Elapses, history
<1>3. CASE Dial(r)
  <2>1. PICK n \in Name : daemon[n] # None /\ daemon' = [daemon EXCEPT ![n].seen = TRUE]
    BY <1>3 DEF Dial
  <2>2. daemon[n] \in Daemon
    BY <2>1 DEF TypeOK
  <2>3. /\ \A m \in Name \ {n} : daemon'[m] = daemon[m]
        /\ daemon'[n] = [daemon[n] EXCEPT !.seen = TRUE]
    BY <2>1 DEF TypeOK
  <2>4. /\ daemon'[n] \in Daemon /\ daemon'[n].key = daemon[n].key
        /\ daemon'[n].fingerprint = daemon[n].fingerprint
    BY <2>2, <2>3 DEF Daemon
  <2>5. daemon'[n] # None
    BY <2>4, NoneAssumption
  <2>6. \A x \in Rack : \A k : HasRow(x, k) => HasRow(x, k)'
    BY <2>3, <2>4, <2>5 DEF HasRow
  <2>7. Aged /\ UNCHANGED loop
    BY <1>3, KeptAged DEF Dial
  <2> QED BY <1>3, <2>6, <2>7, LoopGoesOn DEF Elapses, RowsKept, Dial, history
<1> QED BY <1>1, <1>2, <1>3

LEMMA RefusalElapses ==
  ASSUME TypeOK, NEW p \in posts, HandlePost(p), FilingRefused(p)
  PROVE  Elapses
<1>1. (claim' = claim \/ claim' = Kept) /\ UNCHANGED <<daemon, removed, key>> /\ straggled \subseteq straggled'
  BY HandleIs DEF FilingRefused, Refused
<1>2. p.rack \in Rack
  BY Awaits
<1>3. NewLap(p.rack) \/ UNCHANGED loop
  BY DEF FilingRefused, Refused, loop
<1> QED BY <1>1, <1>2, <1>3, KeptAged, SameRows, LapGoesOn, LoopGoesOn DEF Elapses

LEMMA ServerElapses ==
  ASSUME TypeOK,
         \/ \E p \in posts : LosePost(p)
         \/ \E r \in Rack : Deny(r)
         \/ \E n \in Name : CreateDaemon(n) \/ DeleteDaemon(n)
         \/ Sweep \/ Tick
  PROVE  Elapses
<1>1. UNCHANGED loop
  BY DEF LosePost, Deny, CreateDaemon, DeleteDaemon, Sweep, Tick
<1>2. \A q \in Rack : GoesOn(q)
  BY <1>1, LoopGoesOn
<1>3. straggled \subseteq straggled' /\ removed \subseteq removed'
  BY DEF LosePost, Deny, CreateDaemon, DeleteDaemon, Sweep, Tick, history
<1>4. Aged
  <2>1. CASE Tick
    <3>1. ASSUME NEW i \in ClaimId, Live(i)'
          PROVE  /\ Live(i) /\ claim'[i].rack = claim[i].rack
                 /\ claim'[i].public = claim[i].public /\ claim'[i].grant = claim[i].grant
      <4>1. claim[i] # None /\ claim'[i] = [claim[i] EXCEPT !.age = Older(claim[i].age, Lifetime)]
        BY <2>1, <3>1 DEF Tick, Live
      <4>2. claim[i] \in Claim
        BY <4>1 DEF TypeOK
      <4>3. /\ claim[i].age \in 0..Lifetime /\ claim'[i].age = Older(claim[i].age, Lifetime)
            /\ claim'[i].rack = claim[i].rack /\ claim'[i].public = claim[i].public
            /\ claim'[i].grant = claim[i].grant
        BY <4>1, <4>2 DEF Claim
      <4>4. claim[i].age < Lifetime
        BY <3>1, <4>3, OlderType, Limits DEF Live
      <4> QED BY <4>1, <4>3, <4>4 DEF Live
    <3> QED BY <3>1 DEF Aged
  <2>2. CASE \E r \in Rack : Deny(r)
    <3>1. PICK i \in ClaimId : claim' = [Kept EXCEPT ![i] = None]
      BY <2>2 DEF Deny, PendingOf
    <3>2. \A j \in ClaimId : claim'[j] = None \/ claim'[j] = Kept[j]
      BY <3>1, KeptType
    <3> QED BY <3>2, KeptType DEF Aged, Live
  <2>3. CASE claim' = claim \/ claim' = Kept
    BY <2>3, KeptAged
  <2> QED BY <2>1, <2>2, <2>3 DEF LosePost, CreateDaemon, DeleteDaemon, Sweep, Expire, tables
<1>5. RowsKept
  <2>1. ASSUME NEW n \in Name, CreateDaemon(n)
        PROVE  RowsKept
    <3>1. daemon[n] = None /\ \A m \in Name \ {n} : daemon'[m] = daemon[m]
      BY <2>1 DEF TypeOK, CreateDaemon
    <3> QED BY <3>1 DEF RowsKept, HasRow
  <2>2. ASSUME NEW n \in Name, DeleteDaemon(n)
        PROVE  RowsKept
    <3>1. /\ \A m \in Name \ {n} : daemon'[m] = daemon[m]
          /\ removed' = removed \cup ({daemon[n].fingerprint} \ {None})
      BY <2>2 DEF TypeOK, DeleteDaemon
    <3>2. \A r \in Rack \ removed' : daemon[n].fingerprint # r
      BY <3>1, NoneAssumption
    <3> QED BY <3>1, <3>2 DEF RowsKept, HasRow
  <2>3. CASE daemon' = daemon
    BY <2>3, SameRows
  <2> QED BY <2>1, <2>2, <2>3 DEF LosePost, Deny, Sweep, Tick, tables
<1> QED BY <1>2, <1>3, <1>4, <1>5 DEF Elapses

\* Every other step files one or approves one.
LEMMA Cases ==
  ASSUME TypeOK, Filed, Next
  PROVE  \/ Elapses
         \/ \E p \in posts : HandlePost(p) /\ ~Denied(p.rack) /\ (Refresh(p) \/ FileNew(p))
         \/ \E r \in Rack : Approve(r)
BY PollElapses, RackElapses, RefusalElapses, ServerElapses, HandleIs DEF Next

-----------------------------------------------------------------------------
(* The queue.                                                              *)

\* Claims other than i age when claim' is Kept but for i.
LEMMA OthersAged ==
  ASSUME TypeOK, NEW i \in ClaimId, \A j \in ClaimId \ {i} : claim'[j] = Kept[j]
  PROVE  \A j \in ClaimId \ {i} : Live(j)' => Live(j) /\ claim'[j] = claim[j]
BY KeptType DEF Live

LEMMA AgedQueue ==
  ASSUME Aged
  PROVE  Queue' \subseteq Queue /\ \A q \in Rack : PendingOf(q)' \subseteq PendingOf(q)
<1>1. \A i \in ClaimId : Pending(i)' => Pending(i) /\ claim'[i].rack = claim[i].rack
  BY DEF Aged, Pending
<1> QED BY <1>1 DEF Queue, PendingOf

LEMMA PendingFinite ==
  ASSUME Finite, NEW q \in Rack
  PROVE  IsFiniteSet(PendingOf(q))
<1>1. PendingOf(q) \subseteq Queue
  BY DEF PendingOf, Queue
<1> QED BY <1>1, FS_Subset DEF Finite

LEMMA OnlyOne ==
  ASSUME Finite, QueueSound, NEW q \in Rack, NEW i \in PendingOf(q)
  PROVE  PendingOf(q) = {i}
<1>1. IsFiniteSet(PendingOf(q)) /\ Cardinality(PendingOf(q)) \in Nat /\ Cardinality(PendingOf(q)) <= 1
  BY PendingFinite, FS_CardinalityType DEF QueueSound
<1>2. Cardinality(PendingOf(q)) # 0
  BY <1>1, FS_EmptySet
<1>3. Cardinality(PendingOf(q)) = 1
  BY <1>1, <1>2
<1> HIDE DEF PendingOf
<1>4. PICK x : PendingOf(q) = {x}
  BY <1>1, <1>3, FS_Singleton
<1> QED BY <1>4

\* Only Deny denies, and it takes the rack's one claim out of the queue.
LEMMA DeniedStep ==
  ASSUME TypeOK, Finite, QueueSound, Next
  PROVE  \A q \in Rack : Denied(q)' => Denied(q) \/ PendingOf(q)' = {}
<1>1. CASE denied' = denied \/ denied' = StillDenied
  BY <1>1, KeptType DEF Denied, StillDenied
<1>2. CASE Tick
  <2>1. ASSUME NEW q \in Rack, Denied(q)'
        PROVE  Denied(q)
    <3>1. denied[q] # None /\ denied'[q] = Older(denied[q], Suppression)
      BY <1>2, <2>1 DEF Tick, Denied
    <3>2. denied[q] \in 0..Suppression /\ denied'[q] < Suppression
      BY <2>1, <3>1 DEF TypeOK, Denied
    <3> QED BY <3>1, <3>2, OlderType, Limits DEF Denied
  <2> QED BY <2>1
<1>3. ASSUME NEW r \in Rack, Deny(r), NEW q \in Rack, Denied(q)'
      PROVE  Denied(q) \/ PendingOf(q)' = {}
  <2>1. CASE q = r
    <3>1. PICK i \in PendingOf(r) : claim' = [Kept EXCEPT ![i] = None]
      BY <1>3 DEF Deny
    <3>2. i \in ClaimId /\ PendingOf(r) = {i}
      BY <3>1, OnlyOne DEF PendingOf
    <3>3. claim'[i] = None /\ \A j \in ClaimId \ {i} : claim'[j] = Kept[j]
      BY <3>1, <3>2, KeptType
    <3>4. \A j \in ClaimId : Pending(j)' => j # i /\ Pending(j) /\ claim'[j] = claim[j]
      BY <3>2, <3>3, OthersAged DEF Pending, Live
    <3>5. PendingOf(r)' \subseteq PendingOf(r) \ {i}
      BY <3>4 DEF PendingOf
    <3> QED BY <2>1, <3>2, <3>5
  <2>2. CASE q # r
    <3>1. denied'[q] = StillDenied[q]
      BY <1>3, <2>2, KeptType DEF Deny
    <3> QED BY <1>3, <3>1 DEF Denied, StillDenied
  <2> QED BY <2>1, <2>2
<1> QED
  BY <1>1, <1>2, <1>3, HandleIs DEF Next, File, GiveUp, Crash, Poll, Expire, Dial, LosePost,
     Approve, CreateDaemon, DeleteDaemon, Sweep, tables

\* What filings and approvals do to the queue.
LEMMA FilingQueue ==
  ASSUME TypeOK, NEW p \in posts, NEW i \in ClaimId,
         \A j \in ClaimId \ {i} : claim'[j] = Kept[j],
         claim'[i].rack = p.rack
  PROVE  /\ Queue' \subseteq Queue \cup {i}
         /\ PendingOf(p.rack)' \subseteq PendingOf(p.rack) \cup {i}
         /\ \A q \in Rack \ {p.rack} : PendingOf(q)' \subseteq PendingOf(q)
<1>1. \A j \in ClaimId \ {i} : Pending(j)' => Pending(j) /\ claim'[j] = claim[j]
  BY OthersAged DEF Pending
<1> QED BY <1>1 DEF Queue, PendingOf

LEMMA ApproveQueue ==
  ASSUME TypeOK, NEW i \in ClaimId, \A j \in ClaimId \ {i} : claim'[j] = Kept[j],
         claim'[i].grant # None
  PROVE  Queue' \subseteq Queue /\ \A q \in Rack : PendingOf(q)' \subseteq PendingOf(q) \ {i}
<1>1. \A j \in ClaimId : Pending(j)' => j # i /\ Pending(j) /\ claim'[j] = claim[j]
  BY OthersAged DEF Pending
<1> QED BY <1>1 DEF Queue, PendingOf

LEMMA Smaller ==
  ASSUME Finite, QueueSound, Queue' \subseteq Queue,
         \A q \in Rack : PendingOf(q)' \subseteq PendingOf(q),
         \A q \in Rack : Denied(q)' => Denied(q) \/ PendingOf(q)' = {}
  PROVE  Finite' /\ QueueSound'
<1>1. IsFiniteSet(Queue') /\ Cardinality(Queue') <= Cardinality(Queue)
  BY FS_Subset DEF Finite
<1>2. Cardinality(Queue) \in Nat /\ Cardinality(Queue') \in Nat
  BY <1>1, FS_CardinalityType DEF Finite
<1>3. Cardinality(Queue') <= MaxPending
  BY <1>1, <1>2, Limits DEF QueueSound
<1>4. ASSUME NEW q \in Rack
      PROVE  Cardinality(PendingOf(q)') <= 1
  <2>1. /\ IsFiniteSet(PendingOf(q)) /\ IsFiniteSet(PendingOf(q)')
        /\ Cardinality(PendingOf(q)') <= Cardinality(PendingOf(q))
    BY PendingFinite, FS_Subset
  <2>2. Cardinality(PendingOf(q)) \in Nat /\ Cardinality(PendingOf(q)') \in Nat
    BY <2>1, FS_CardinalityType
  <2>3. Cardinality(PendingOf(q)) <= 1
    BY DEF QueueSound
  <2> QED BY <2>1, <2>2, <2>3
<1>5. \A q \in Rack : Denied(q)' => PendingOf(q)' = {}
  BY DEF QueueSound
<1> QED BY <1>1, <1>3, <1>4, <1>5 DEF Finite, QueueSound

LEMMA QueueStep ==
  ASSUME TypeOK, Filed, Finite, QueueSound, Next
  PROVE  Finite' /\ QueueSound'
<1>1. \A q \in Rack : Denied(q)' => Denied(q) \/ PendingOf(q)' = {}
  BY DeniedStep
<1>2. CASE Elapses
  BY <1>1, <1>2, AgedQueue, Smaller DEF Elapses
<1>3. ASSUME NEW r \in Rack, Approve(r)
      PROVE  Finite' /\ QueueSound'
  <2>1. PICK i \in ClaimId : (\A j \in ClaimId \ {i} : claim'[j] = Kept[j]) /\ claim'[i].grant \in Sealed
    <3>1. PICK i \in PendingOf(r), k \in Key :
                 /\ i \in ClaimId /\ \A j \in ClaimId \ {i} : claim'[j] = Kept[j]
                 /\ claim'[i].grant = [key |-> k, to |-> claim[i].public]
                 /\ [key |-> k, to |-> claim[i].public] \in Sealed
      BY <1>3, ApproveIs
    <3> QED BY <3>1
  <2>2. Queue' \subseteq Queue /\ \A q \in Rack : PendingOf(q)' \subseteq PendingOf(q)
    BY <2>1, ApproveQueue, NoneAssumption
  <2> QED BY <1>1, <2>2, Smaller
<1>4. ASSUME NEW p \in posts, HandlePost(p), ~Denied(p.rack), Refresh(p) \/ FileNew(p)
      PROVE  Finite' /\ QueueSound'
  <2>1. PICK i \in ClaimId :
          /\ \A j \in ClaimId \ {i} : claim'[j] = Kept[j]
          /\ claim'[i].rack = p.rack
          /\ \/ i \in PendingOf(p.rack)
             \/ PendingOf(p.rack) = {} /\ Cardinality(Queue) < MaxPending
    BY <1>4, FilingIs
  <2>2. /\ Queue' \subseteq Queue \cup {i}
        /\ PendingOf(p.rack)' \subseteq PendingOf(p.rack) \cup {i}
        /\ \A q \in Rack \ {p.rack} : PendingOf(q)' \subseteq PendingOf(q)
    BY <2>1, FilingQueue
  <2>3. p.rack \in Rack
    BY Awaits
  <2>4. CASE i \in PendingOf(p.rack)
    <3>1. i \in Queue
      BY <2>4 DEF PendingOf, Queue
    <3>2. Queue' \subseteq Queue
      BY <2>2, <3>1
    <3>3. \A q \in Rack : PendingOf(q)' \subseteq PendingOf(q)
      BY <2>2, <2>4
    <3> QED BY <1>1, <3>2, <3>3, Smaller
  <2>5. CASE PendingOf(p.rack) = {} /\ Cardinality(Queue) < MaxPending
    <3>1. Cardinality(Queue) \in Nat /\ Cardinality(Queue \cup {i}) \in Nat
          /\ Cardinality(Queue \cup {i}) <= Cardinality(Queue) + 1 /\ IsFiniteSet(Queue \cup {i})
      <4>1. IsFiniteSet(Queue)
        BY DEF Finite
      <4>2. /\ IsFiniteSet(Queue \cup {i})
            /\ \/ Cardinality(Queue \cup {i}) = Cardinality(Queue)
               \/ Cardinality(Queue \cup {i}) = Cardinality(Queue) + 1
        BY <4>1, FS_AddElement
      <4>3. Cardinality(Queue) \in Nat /\ Cardinality(Queue \cup {i}) \in Nat
        BY <4>1, <4>2, FS_CardinalityType
      <4> QED BY <4>2, <4>3
    <3>2. IsFiniteSet(Queue') /\ Cardinality(Queue') <= Cardinality(Queue \cup {i})
      BY <2>2, <3>1, FS_Subset
    <3>3. Cardinality(Queue') \in Nat
      BY <3>2, FS_CardinalityType
    <3>4. Cardinality(Queue') <= MaxPending
      BY <2>5, <3>1, <3>2, <3>3, Limits
    <3>5. ASSUME NEW q \in Rack
          PROVE  Cardinality(PendingOf(q)') <= 1 /\ (Denied(q)' => PendingOf(q)' = {})
      <4>1. CASE q = p.rack
        <5>1. PendingOf(q)' \subseteq {i}
          BY <2>2, <2>5, <4>1
        <5>2. IsFiniteSet({i}) /\ Cardinality({i}) = 1
          BY FS_Singleton
        <5>3. Cardinality(PendingOf(q)') <= 1
          BY <5>1, <5>2, FS_Subset
        <5> QED BY <1>1, <1>4, <4>1, <5>3
      <4>2. CASE q # p.rack
        <5>1. PendingOf(q)' \subseteq PendingOf(q)
          BY <2>2, <4>2
        <5>2. /\ IsFiniteSet(PendingOf(q)) /\ IsFiniteSet(PendingOf(q)')
              /\ Cardinality(PendingOf(q)') <= Cardinality(PendingOf(q))
          BY <5>1, PendingFinite, FS_Subset
        <5>3. Cardinality(PendingOf(q)) \in Nat /\ Cardinality(PendingOf(q)') \in Nat
          BY <5>2, FS_CardinalityType
        <5>4. Cardinality(PendingOf(q)') <= 1
          BY <5>2, <5>3 DEF QueueSound
        <5> QED BY <1>1, <5>1, <5>4 DEF QueueSound
      <4> QED BY <4>1, <4>2
    <3> QED BY <3>2, <3>4, <3>5 DEF Finite, QueueSound
  <2> QED BY <2>1, <2>4, <2>5
<1> QED BY <1>2, <1>3, <1>4, Cases

-----------------------------------------------------------------------------
(* Whose claim an id names, and what else its rack has.                    *)

LEMMA InvElapses ==
  ASSUME ClaimsInv, Elapses
  PROVE  Filed' /\ Fresh' /\ Openable' /\ Rows'
<1>1. ASSUME NEW q \in Rack, phase'[q] = "polling"
      PROVE  /\ phase[q] = "polling" /\ id'[q] = id[q] /\ pair'[q] = pair[q] /\ id[q] \in ClaimId
             /\ Live(id[q])' => /\ Live(id[q]) /\ claim'[id[q]].rack = claim[id[q]].rack
                                /\ claim'[id[q]].public = claim[id[q]].public
                                /\ claim'[id[q]].grant = claim[id[q]].grant
  BY <1>1 DEF ClaimsInv, Elapses, GoesOn, Filed, Aged, Live
<1>2. \A q \in Rack : PendingOf(q)' \subseteq PendingOf(q)
  BY AgedQueue DEF Elapses
<1>3. Filed'
  BY <1>1 DEF ClaimsInv, Filed, Live
<1>4. Fresh'
  <2> SUFFICES ASSUME NEW q \in Rack \ straggled'
               PROVE  /\ phase'[q] = "polling" =>
                           /\ Pending(id[q])' => claim'[id'[q]].public = pair'[q]
                           /\ PendingOf(q)' \subseteq {id'[q]}
                      /\ phase'[q] = "paired" => PendingOf(q)' = {}
    BY DEF Fresh
  <2>1. q \notin straggled
    BY DEF Elapses
  <2>2. CASE phase'[q] = "polling"
    BY <1>1, <1>2, <2>1, <2>2 DEF ClaimsInv, Fresh, Pending, Live
  <2>3. CASE phase'[q] = "paired"
    <3>1. CASE phase[q] = "paired"
      BY <1>2, <2>1, <2>3, <3>1 DEF ClaimsInv, Fresh
    <3>2. CASE phase[q] = "polling" /\ Granted(id[q])
      <4>1. PendingOf(q) \subseteq {id[q]} /\ id[q] \notin PendingOf(q)
        BY <2>1, <3>2 DEF ClaimsInv, Fresh, PendingOf, Pending, Granted
      <4> QED BY <1>2, <2>3, <4>1
    <3> QED BY <2>3, <3>1, <3>2 DEF Elapses, GoesOn
  <2> QED BY <2>2, <2>3
<1>5. Openable'
  BY <1>1 DEF ClaimsInv, Openable, Granted, Live, Elapses
<1>6. Rows'
  <2> SUFFICES ASSUME NEW q \in Rack \ (removed' \cup straggled')
               PROVE  /\ phase'[q] = "polling" /\ Granted(id[q])' => HasRow(q, claim[id[q]].grant.key)'
                      /\ phase'[q] = "paired" => HasRow(q, key[q])'
    BY DEF Rows
  <2>1. q \in Rack \ (removed \cup straggled)
    BY DEF Elapses
  <2>2. ASSUME NEW k, HasRow(q, k), NEW l, l = k
        PROVE  \E n \in Name : daemon'[n] # None /\ daemon'[n].key = l /\ daemon'[n].fingerprint = q
    BY <2>1, <2>2 DEF Elapses, RowsKept, HasRow
  <2>3. CASE phase'[q] = "polling"
    <3>1. ASSUME Granted(id[q])'
          PROVE  HasRow(q, claim[id[q]].grant.key) /\ claim'[id'[q]].grant.key = claim[id[q]].grant.key
      BY <1>1, <2>1, <2>3, <3>1 DEF ClaimsInv, Rows, Granted, Live
    <3> QED BY <2>2, <2>3, <3>1 DEF HasRow
  <2>4. CASE phase'[q] = "paired"
    <3>1. HasRow(q, key'[q])
      BY <2>1, <2>4 DEF ClaimsInv, Rows, Elapses, GoesOn
    <3> QED BY <2>2, <2>4, <3>1 DEF HasRow
  <2> QED BY <2>3, <2>4
<1> QED BY <1>3, <1>4, <1>5, <1>6

LEMMA InvApprove ==
  ASSUME ClaimsInv, NEW r \in Rack, Approve(r)
  PROVE  Filed' /\ Fresh' /\ Openable' /\ Rows'
<1> USE DEF ClaimsInv
<1>1. PICK i \in PendingOf(r), k \in Key :
        /\ i \in ClaimId
        /\ \A j \in ClaimId \ {i} : claim'[j] = Kept[j]
        /\ claim'[i] \in Claim /\ claim'[i].rack = r
        /\ claim'[i].grant = [key |-> k, to |-> claim[i].public]
        /\ claim'[i].grant \in Sealed
        /\ daemon'[hostname[r]] \in Daemon
        /\ daemon'[hostname[r]].key = k /\ daemon'[hostname[r]].fingerprint = r
        /\ hostname[r] \in Name
        /\ \A n \in Name \ {hostname[r]} : daemon'[n] = daemon[n]
  <2>1. ASSUME NEW k \in Key
        PROVE  /\ [key |-> k, fingerprint |-> r, seen |-> FALSE] \in Daemon
               /\ [key |-> k, fingerprint |-> r, seen |-> FALSE].key = k
               /\ [key |-> k, fingerprint |-> r, seen |-> FALSE].fingerprint = r
    BY DEF Daemon
  <2>2. PICK i \in PendingOf(r), k \in Key :
          /\ i \in ClaimId
          /\ \A j \in ClaimId \ {i} : claim'[j] = Kept[j]
          /\ claim'[i] \in Claim /\ claim'[i].rack = r
          /\ claim'[i].grant = [key |-> k, to |-> claim[i].public]
          /\ [key |-> k, to |-> claim[i].public] \in Sealed
          /\ daemon'[hostname[r]] = [key |-> k, fingerprint |-> r, seen |-> FALSE]
          /\ hostname[r] \in Name
          /\ \A n \in Name \ {hostname[r]} : daemon'[n] = daemon[n]
    BY ApproveIs
  <2> QED BY <2>1, <2>2
<1>2. /\ UNCHANGED <<phase, pair, id, key, hostname, straggled>> /\ removed' = removed \ {r}
      /\ NameFree(r)
  BY DEF Approve, loop
<1>3. Live(i) /\ Pending(i) /\ claim[i].rack = r
  BY DEF PendingOf, Pending
<1>4. claim'[i].grant # None /\ claim'[i].grant.to = claim[i].public /\ claim'[i].grant.key = k
  BY <1>1, NoneAssumption
<1>5. \A j \in ClaimId \ {i} : Live(j)' => Live(j) /\ claim'[j] = claim[j]
  BY <1>1, OthersAged
<1>6. \A q \in Rack : PendingOf(q)' \subseteq PendingOf(q)
  BY <1>1, <1>4, ApproveQueue
\* A rack that polls with the granted id is the one approved.
<1>7. \A q \in Rack : phase[q] = "polling" => id[q] \in ClaimId /\ (id[q] = i => q = r)
  BY <1>3 DEF Filed
<1>8. Filed'
  BY <1>1, <1>2, <1>3, <1>5, <1>7 DEF Filed, Live
<1>9. Fresh'
  <2>1. \A j \in ClaimId : Pending(j)' => j # i /\ Pending(j) /\ claim'[j] = claim[j]
    BY <1>4, <1>5 DEF Pending
  <2> QED BY <1>2, <1>6, <1>7, <2>1 DEF Fresh
<1>10. Openable'
  <2> SUFFICES ASSUME NEW q \in Rack \ straggled, phase[q] = "polling", Granted(id[q])'
               PROVE  claim'[id[q]].grant.to = pair[q]
    BY <1>2 DEF Openable
  <2>1. CASE id[q] = i
    BY <1>2, <1>3, <1>4, <1>7, <2>1 DEF Fresh
  <2>2. CASE id[q] # i
    BY <1>2, <1>5, <1>7, <2>2 DEF Openable, Granted, Live
  <2> QED BY <2>1, <2>2
<1>11. Rows'
  <2>1. HasRow(r, k)'
    BY <1>1, NoneAssumption DEF HasRow
  \* Only a row of rack r makes way for its new row.
  <2>2. ASSUME NEW q \in Rack \ {r}, NEW l, HasRow(q, l)
        PROVE  \E n \in Name : daemon'[n] # None /\ daemon'[n].key = l /\ daemon'[n].fingerprint = q
    <3>1. PICK n \in Name : daemon[n] # None /\ daemon[n].key = l /\ daemon[n].fingerprint = q
      BY <2>2 DEF HasRow
    <3>2. n # hostname[r]
      BY <1>2, <3>1 DEF NameFree, Reclaimed
    <3> QED BY <1>1, <3>1, <3>2
  <2> SUFFICES ASSUME NEW q \in Rack \ ((removed \ {r}) \cup straggled)
               PROVE  /\ phase[q] = "polling" /\ Granted(id[q])' =>
                           \E n \in Name : /\ daemon'[n] # None
                                           /\ daemon'[n].key = claim'[id[q]].grant.key
                                           /\ daemon'[n].fingerprint = q
                      /\ phase[q] = "paired" =>
                           \E n \in Name : /\ daemon'[n] # None /\ daemon'[n].key = key[q]
                                           /\ daemon'[n].fingerprint = q
    BY <1>2 DEF Rows, HasRow
  <2>3. CASE q = r
    <3>1. phase[q] # "paired" /\ (phase[q] = "polling" => id[q] = i)
      BY <2>3 DEF Fresh
    <3> QED BY <1>4, <2>1, <2>3, <3>1 DEF HasRow
  <2>4. CASE q # r
    <3>1. ASSUME phase[q] = "polling", Granted(id[q])'
          PROVE  HasRow(q, claim'[id[q]].grant.key)
      BY <1>2, <1>5, <1>7, <2>4, <3>1 DEF Rows, Granted, Live
    <3>2. phase[q] = "paired" => HasRow(q, key[q])
      BY <2>4 DEF Rows
    <3> QED BY <2>2, <2>4, <3>1, <3>2
  <2> QED BY <2>3, <2>4
<1> QED BY <1>8, <1>9, <1>10, <1>11

LEMMA InvFiling ==
  ASSUME ClaimsInv, NEW p \in posts, HandlePost(p), Refresh(p) \/ FileNew(p)
  PROVE  Filed' /\ Fresh' /\ Openable' /\ Rows'
<1> USE DEF ClaimsInv
<1>1. PICK i \in ClaimId :
        /\ \A j \in ClaimId \ {i} : claim'[j] = Kept[j]
        /\ claim'[i].rack = p.rack /\ claim'[i].public = p.public /\ claim'[i].grant = None
        /\ Answered(p, i)
        /\ \/ i \in PendingOf(p.rack)
           \/ PendingOf(p.rack) = {} /\ ~Live(i) /\ \A r \in Rack : id[r] # i
  BY FilingIs
<1>2. /\ p.rack \in Rack
      /\ UNCHANGED <<hostname, pair, key, daemon, removed>>
      /\ straggled' = IF Awaited(p) THEN straggled ELSE straggled \cup {p.rack}
      /\ Awaited(p) => phase[p.rack] = "filing" /\ pair[p.rack] = p.public
      /\ \/ UNCHANGED <<phase, id>>
         \/ /\ Awaited(p)
            /\ phase' = [phase EXCEPT ![p.rack] = "polling"]
            /\ id' = [id EXCEPT ![p.rack] = i]
  BY <1>1, AnsweredIs, HandleIs, Awaits
<1>3. \A q \in Rack \ {p.rack} : phase'[q] = phase[q] /\ id'[q] = id[q]
  BY <1>2 DEF TypeOK
<1>4. \/ phase'[p.rack] = phase[p.rack] /\ id'[p.rack] = id[p.rack]
      \/ Awaited(p) /\ phase'[p.rack] = "polling" /\ id'[p.rack] = i
  BY <1>2 DEF TypeOK
<1>5. \A j \in ClaimId \ {i} : Live(j)' => Live(j) /\ claim'[j] = claim[j]
  BY <1>1, OthersAged
<1>6. /\ PendingOf(p.rack)' \subseteq PendingOf(p.rack) \cup {i}
      /\ \A q \in Rack \ {p.rack} : PendingOf(q)' \subseteq PendingOf(q)
  BY <1>1, FilingQueue
<1>7. PendingOf(p.rack)' \subseteq {i}
  BY <1>1, <1>2, <1>6, OnlyOne
\* No other rack polls with the id of the claim that is filed or taken over.
<1>8. \A q \in Rack : phase[q] = "polling" => id[q] \in ClaimId /\ (id[q] = i => q = p.rack)
  BY <1>1 DEF Filed, PendingOf, Pending
<1>9. Filed'
  <2> SUFFICES ASSUME NEW q \in Rack, phase'[q] = "polling"
               PROVE  id'[q] \in ClaimId /\ (Live(id[q])' => claim'[id'[q]].rack = q)
    BY DEF Filed
  <2>1. CASE phase[q] = "polling" /\ id'[q] = id[q]
    BY <1>1, <1>5, <1>8, <2>1 DEF Filed, Live
  <2>2. CASE q = p.rack /\ id'[q] = i
    BY <1>1, <2>2
  <2> QED BY <1>3, <1>4, <2>1, <2>2
<1>10. ASSUME NEW q \in Rack \ straggled'
       PROVE  /\ q \notin straggled
              /\ q = p.rack => phase[q] = "filing" /\ pair[q] = p.public
              /\ phase'[q] = "polling" => \/ phase[q] = "polling" /\ id'[q] = id[q] /\ q # p.rack
                                          \/ q = p.rack /\ id'[q] = i
              /\ phase'[q] = "paired" => phase[q] = "paired" /\ q # p.rack
  BY <1>2, <1>3, <1>4, <1>10
<1>11. Fresh'
  <2> SUFFICES ASSUME NEW q \in Rack \ straggled'
               PROVE  /\ phase'[q] = "polling" =>
                           /\ Pending(id[q])' => claim'[id'[q]].public = pair[q]
                           /\ PendingOf(q)' \subseteq {id'[q]}
                      /\ phase'[q] = "paired" => PendingOf(q)' = {}
    BY <1>2 DEF Fresh
  <2>1. CASE phase'[q] = "polling" /\ q = p.rack
    BY <1>1, <1>7, <1>10, <2>1
  <2>2. CASE phase'[q] = "polling" /\ q # p.rack
    <3>1. phase[q] = "polling" /\ id'[q] = id[q] /\ id[q] \in ClaimId \ {i}
      BY <1>8, <1>10, <2>2
    <3>2. Pending(id[q])' => claim'[id'[q]].public = pair[q]
      BY <1>5, <1>10, <3>1 DEF Fresh, Pending, Live
    <3> QED BY <1>6, <1>10, <2>2, <3>1, <3>2 DEF Fresh
  <2>3. CASE phase'[q] = "paired"
    BY <1>6, <1>10, <2>3 DEF Fresh
  <2> QED BY <2>1, <2>2, <2>3
<1>12. Openable'
  <2> SUFFICES ASSUME NEW q \in Rack \ straggled', phase'[q] = "polling", Granted(id[q])'
               PROVE  claim'[id'[q]].grant.to = pair[q]
    BY <1>2 DEF Openable
  <2>1. q # p.rack
    BY <1>1, <1>10 DEF Granted
  <2>2. phase[q] = "polling" /\ id'[q] = id[q] /\ id[q] \in ClaimId \ {i}
    BY <1>8, <1>10, <2>1
  <2> QED BY <1>5, <1>10, <2>2 DEF Openable, Granted, Live
<1>13. Rows'
  <2>1. \A q \in Rack : \A k : HasRow(q, k) => HasRow(q, k)'
    BY <1>2 DEF HasRow
  <2> SUFFICES ASSUME NEW q \in Rack \ (removed \cup straggled')
               PROVE  /\ phase'[q] = "polling" /\ Granted(id[q])' => HasRow(q, claim'[id'[q]].grant.key)
                      /\ phase'[q] = "paired" => HasRow(q, key[q])
    BY <1>2, <2>1 DEF Rows, HasRow
  <2>2. ASSUME phase'[q] = "polling", Granted(id[q])'
        PROVE  HasRow(q, claim'[id'[q]].grant.key)
    <3>1. q # p.rack
      BY <1>1, <1>10, <2>2 DEF Granted
    <3>2. phase[q] = "polling" /\ id'[q] = id[q] /\ id[q] \in ClaimId \ {i}
      BY <1>8, <1>10, <2>2, <3>1
    <3> QED BY <1>5, <1>10, <2>2, <3>2 DEF Rows, Granted, Live
  <2>3. phase'[q] = "paired" => HasRow(q, key[q])
    BY <1>10 DEF Rows
  <2> QED BY <2>2, <2>3
<1> QED BY <1>9, <1>11, <1>12, <1>13

-----------------------------------------------------------------------------
(* The theorems.                                                           *)

LEMMA InitInv == Init => ClaimsInv
<1> SUFFICES ASSUME Init
             PROVE  ClaimsInv
  OBVIOUS
<1>1. TypeOK
  <2>1. hostname \in [Rack -> Name] /\ trouble \in 0..MaxTrouble
    BY Limits, NamesAssumption DEF Init
  <2>2. attempts \in [Address -> Seq(0..Window)]
    BY DEF Init
  <2>3. /\ claim \in [ClaimId -> Claim \cup {None}]
        /\ denied \in [Rack -> (0..Suppression) \cup {None}]
        /\ daemon \in [Name -> Daemon \cup {None}]
    BY DEF Init
  <2> QED BY <2>1, <2>2, <2>3 DEF Init, TypeOK
<1>2. \A i \in ClaimId : ~Live(i)
  BY DEF Init, Live
<1>3. Queue = {} /\ \A r \in Rack : PendingOf(r) = {}
  BY <1>2 DEF Queue, PendingOf, Pending
<1>4. Finite /\ QueueSound
  BY <1>3, FS_EmptySet, Limits DEF Finite, QueueSound
<1>5. \A r \in Rack : phase[r] = "idle"
  BY DEF Init
<1> QED BY <1>1, <1>4, <1>5 DEF ClaimsInv, Filed, Fresh, Openable, Rows

LEMMA StepInv == ClaimsInv /\ [Next]_vars => ClaimsInv'
<1> SUFFICES ASSUME ClaimsInv, [Next]_vars
             PROVE  ClaimsInv'
  OBVIOUS
<1>1. CASE Next
  <2>1. TypeOK' /\ Finite' /\ QueueSound'
    BY <1>1, TypeStep, QueueStep DEF ClaimsInv
  <2>2. Filed' /\ Fresh' /\ Openable' /\ Rows'
    BY <1>1, Cases, InvElapses, InvApprove, InvFiling DEF ClaimsInv
  <2> QED BY <2>1, <2>2 DEF ClaimsInv
<1>2. CASE UNCHANGED vars
  <2>1. UNCHANGED <<claim, denied, daemon, attempts, posts, hostname, phase, pair, id, key,
                    straggled, removed, trouble>>
    BY <1>2 DEF vars, tables, loop, history
  <2>2. TypeOK' /\ Filed'
    BY <2>1 DEF ClaimsInv, TypeOK, Filed, Live
  <2>3. Finite' /\ QueueSound'
    BY <2>1 DEF ClaimsInv, Finite, QueueSound, Queue, PendingOf, Pending, Live, Denied
  <2>4. Fresh' /\ Openable' /\ Rows'
    BY <2>1 DEF ClaimsInv, Fresh, Openable, Rows, HasRow, PendingOf, Pending, Granted, Live
  <2> QED BY <2>2, <2>3, <2>4 DEF ClaimsInv
<1> QED BY <1>1, <1>2

LEMMA AlwaysClaimsInv == Spec => []ClaimsInv
BY InitInv, StepInv, PTL DEF Spec

\* Every variable keeps its shape, whatever a filing, a poll, an approval or the
\* passing of time writes.
THEOREM TypeCorrect == Spec => []TypeOK
<1>1. ClaimsInv => TypeOK
  BY DEF ClaimsInv
<1> QED BY <1>1, AlwaysClaimsInv, PTL

\* The queue of claims stays within MaxPending, holds one claim of a rack at most,
\* and nothing of a rack whose claim was denied within the suppression window:
\* file_claim, approve, deny and _expire, in whatever order requests reach them.
THEOREM QueueIsSound == Spec => []QueueSound
<1>1. ClaimsInv => QueueSound
  BY DEF ClaimsInv
<1> QED BY <1>1, AlwaysClaimsInv, PTL

\* A grant join_a_server polls for is sealed to the key pair of the lap it is in,
\* as long as none of its own filings outlived its lap.
THEOREM GrantOpens == Spec => []Openable
<1>1. ClaimsInv => Openable
  BY DEF ClaimsInv
<1> QED BY <1>1, AlwaysClaimsInv, PTL

\* The key a rack paired with opens a row until an admin deletes that row or a
\* filing that rack had given up is handled late (then approving that filing can
\* reclaim the row): no approval of another rack, late filings of those included,
\* and no approval of an earlier filing of its own takes it.
THEOREM PairedStaysKnown == Spec => []PairedIsKnown
<1>1. ClaimsInv => PairedIsKnown
  BY DEF ClaimsInv, Rows, HasRow, PairedIsKnown
<1> QED BY <1>1, AlwaysClaimsInv, PTL

=============================================================================
