------------------------------- MODULE Claims -------------------------------
(***************************************************************************)
(* How a rack with no token joins: it files a claim, polls it until an     *)
(* admin approves, and opens the key that was sealed for it.               *)
(*                                                                         *)
(* Server side: the `claim`, `denied_fingerprint` and `daemon` tables and  *)
(* the routes on them (server/src/ors_server: claims, api/claims,          *)
(* limiter).  Every route runs without an await, so a step is one request. *)
(* Rack side: join_a_server, one loop that has one request under way at a  *)
(* time (daemon/src/ors_daemon: join, __main__).                           *)
(*                                                                         *)
(* Times are kept as ages, which Tick advances and which stop at the limit *)
(* the code compares them with.  Ids, key pairs and keys are random in the *)
(* code; here a new one is any that nothing mentions.                      *)
(***************************************************************************)
EXTENDS Integers, Sequences, FiniteSets

CONSTANTS
  Rack,         \* the machines, each with the fingerprint of its identity
  Name,         \* what a `daemon` row can be called
  Hostnames,    \* what the racks may be called, as functions: two may share a name
  Address,      \* where requests come from
  From,         \* each rack's address: two racks may share one
  ClaimId, KeyPair, Key,
  None,         \* SQL's NULL
  Lifetime,     \* CLAIM_LIFETIME_S, in ticks
  Suppression,  \* DENY_SUPPRESSION_S
  Window,       \* CLAIM_RATE_LIMIT_WINDOW_S
  MaxAttempts,  \* CLAIM_RATE_LIMIT_MAX_ATTEMPTS
  MaxPending,   \* MAX_PENDING
  MaxTrouble    \* bound: faults, denials, and rows an admin adds or deletes

ASSUME NamesAssumption == Hostnames \subseteq [Rack -> Name] /\ From \in [Rack -> Address]
ASSUME LimitsAssumption ==
  /\ {Lifetime, Suppression, Window, MaxAttempts, MaxPending} \subseteq Nat \ {0}
  /\ MaxTrouble \in Nat

VARIABLES
  \* The database, and the limiter of filings.
  claim, denied, daemon, attempts,
  \* Filings on their way to the server.
  posts,
  \* Each rack: its hostname, its join loop, and the key in its link file.
  hostname, phase, pair, id, key,
  \* History, for properties: the racks of which a filing was handled after they
  \* had given it up, and those whose row an admin deleted.
  straggled, removed,
  trouble

tables == <<claim, denied, daemon>>
loop == <<hostname, phase, pair, id, key>>
history == <<straggled, removed>>
vars == <<tables, attempts, posts, loop, history, trouble>>

-----------------------------------------------------------------------------
(* What is stored and sent.                                                *)

\* What `approve` stores in a claim: the key it minted, sealed to a public key.
Sealed == [key : Key, to : KeyPair]

\* `age` counts from first_seen, and from granted_at once it is granted.
Claim == [rack : Rack, public : KeyPair, age : 0..Lifetime, grant : Sealed \cup {None}]

\* A `daemon` row, under its unique name.  `fingerprint` is claim_fingerprint,
\* NULL in a row made by hand, as is the key until its token is spent.
Daemon == [key : Key \cup {None}, fingerprint : Rack \cup {None}, seen : BOOLEAN]

Post == [rack : Rack, public : KeyPair]

ASSUME NoneAssumption ==
  None \notin Rack \cup ClaimId \cup KeyPair \cup Key \cup Int \cup Daemon \cup Sealed

Live(i) == claim[i] # None /\ claim[i].age < Lifetime
Granted(i) == Live(i) /\ claim[i].grant # None
Pending(i) == Live(i) /\ claim[i].grant = None
PendingOf(r) == {i \in ClaimId : Pending(i) /\ claim[i].rack = r}
Queue == {i \in ClaimId : Pending(i)}
Denied(r) == denied[r] # None /\ denied[r] < Suppression

\* _expire, which every operation on claims runs first.
Kept == [i \in ClaimId |-> IF Live(i) THEN claim[i] ELSE None]
StillDenied == [r \in Rack |-> IF Denied(r) THEN denied[r] ELSE None]

\* Sweep what this moment has aged out, and nothing else: a list, a count, an
\* approval or a denial that answers 404.
Expire == claim' = Kept /\ denied' = StillDenied

UsedIds == {i \in ClaimId : Live(i)} \cup {id[r] : r \in Rack}
UsedPairs ==
  {p.public : p \in posts} \cup {pair[r] : r \in Rack}
    \cup {claim[i].public : i \in {j \in ClaimId : Live(j)}}
    \cup {claim[i].grant.to : i \in {j \in ClaimId : Granted(j)}}
UsedKeys ==
  {key[r] : r \in Rack}
    \cup {daemon[n].key : n \in {m \in Name : daemon[m] # None}}
    \cup {claim[i].grant.key : i \in {j \in ClaimId : Granted(j)}}
Unused(S, used) == CHOOSE x \in S \ used : TRUE

\* The limiter: it keeps each address's attempts inside the window, sweeps all
\* of them when it is asked about one, and counts only what it let through.  They
\* are in the order they were made, so those outside the window come first.
Past(a) == {j \in 1..Len(attempts[a]) : attempts[a][j] >= Window}
Recent == [a \in Address |-> SubSeq(attempts[a], Cardinality(Past(a)) + 1, Len(attempts[a]))]
TooMany(a) == Len(Recent[a]) >= MaxAttempts
Record(a) == [Recent EXCEPT ![a] = Append(@, 0)]

Trouble == trouble < MaxTrouble /\ trouble' = trouble + 1

-----------------------------------------------------------------------------
(* The rack's loop.                                                        *)

\* Start a lap: a new key pair, and a claim filed with it.
File(r) ==
  /\ phase[r] = "idle"
  /\ KeyPair \ UsedPairs # {}
  /\ LET k == Unused(KeyPair, UsedPairs)
     IN  /\ pair' = [pair EXCEPT ![r] = k]
         /\ posts' = posts \cup {[rack |-> r, public |-> k]}
  /\ phase' = [phase EXCEPT ![r] = "filing"]
  /\ UNCHANGED <<tables, attempts, hostname, id, key, history, trouble>>

\* The lap is over: a refusal, a 404, an answer that is no answer, or the end of
\* the process, which is started again.  The claim's id and the key pair go.
NewLap(r) ==
  /\ phase' = [phase EXCEPT ![r] = "idle"]
  /\ pair' = [pair EXCEPT ![r] = None]
  /\ id' = [id EXCEPT ![r] = None]
  /\ UNCHANGED hostname

\* The filing or its answer was lost: the request fails or times out.
GiveUp(r) ==
  /\ phase[r] = "filing"
  /\ \A p \in posts : p.public # pair[r]
  /\ NewLap(r)
  /\ UNCHANGED <<tables, attempts, posts, key, history, trouble>>

\* The process is killed, or gives up a filing that is still on its way.
Crash(r) ==
  /\ phase[r] \in {"filing", "polling"}
  /\ Trouble
  /\ NewLap(r)
  /\ UNCHANGED <<tables, attempts, posts, key, history>>

LosePost(p) ==
  /\ p \in posts
  /\ Trouble
  /\ posts' = posts \ {p}
  /\ UNCHANGED <<tables, attempts, loop, history>>

\* One poll.  A granted claim is opened with the lap's private key and written
\* as the rack's pairing; a blob that does not open, or a pairing that cannot
\* be written, ends the process.  A poll refused by its own limiter, an answer
\* that is lost, or one that is not understood, leaves the rack polling.
Poll(r) ==
  /\ phase[r] = "polling"
  /\ Expire
  /\ \/ /\ ~Live(id[r])
        /\ NewLap(r)
        /\ UNCHANGED <<key, trouble>>
     \/ /\ Pending(id[r]) \/ (Granted(id[r]) /\ trouble < MaxTrouble)
        /\ IF Granted(id[r]) THEN Trouble ELSE UNCHANGED trouble
        /\ UNCHANGED loop
     \/ /\ Granted(id[r])
        /\ \/ /\ claim[id[r]].grant.to = pair[r]
              /\ phase' = [phase EXCEPT ![r] = "paired"]
              /\ pair' = [pair EXCEPT ![r] = None]
              /\ id' = [id EXCEPT ![r] = None]
              /\ key' = [key EXCEPT ![r] = claim[id[r]].grant.key]
              /\ UNCHANGED <<hostname, trouble>>
           \/ /\ claim[id[r]].grant.to # pair[r]
              /\ NewLap(r)
              /\ UNCHANGED <<key, trouble>>
           \/ /\ claim[id[r]].grant.to = pair[r]
              /\ Trouble
              /\ NewLap(r)
              /\ UNCHANGED key
  /\ UNCHANGED <<daemon, attempts, posts, history>>

\* A paired rack dials in, and its row is marked as seen.
Dial(r) ==
  /\ phase[r] = "paired"
  /\ \E n \in Name :
       /\ daemon[n] # None
       /\ daemon[n].key = key[r]
       /\ daemon' = [daemon EXCEPT ![n].seen = TRUE]
  /\ UNCHANGED <<claim, denied, attempts, posts, loop, history, trouble>>

-----------------------------------------------------------------------------
(* The server: filings.                                                    *)

\* The claim the rack waits for the answer of is the one just handled.
Awaited(p) == phase[p.rack] = "filing" /\ pair[p.rack] = p.public

\* 429: too many attempts, a denied fingerprint, or a full queue.
Refused(p) ==
  /\ IF Awaited(p) THEN NewLap(p.rack) ELSE UNCHANGED <<hostname, phase, pair, id>>
  /\ UNCHANGED key

\* 202, with the id of the claim; or the answer is lost and the rack still waits.
Answered(p, i) ==
  /\ \/ /\ Awaited(p)
        /\ phase' = [phase EXCEPT ![p.rack] = "polling"]
        /\ id' = [id EXCEPT ![p.rack] = i]
        /\ UNCHANGED trouble
     \/ /\ Awaited(p) => Trouble
        /\ ~Awaited(p) => UNCHANGED trouble
        /\ UNCHANGED <<phase, id>>
  /\ UNCHANGED <<hostname, pair, key>>

\* Faulty Refresh: the claim keeps the public key of its first filing.
RefreshKeepingKey(p) == \E i \in PendingOf(p.rack) : claim' = Kept /\ Answered(p, i)

\* A filing of a fingerprint that has a pending claim takes that claim over,
\* under its id and its age.
Refresh(p) ==
  \E i \in PendingOf(p.rack) :
    /\ claim' = [Kept EXCEPT ![i].public = p.public]
    /\ Answered(p, i)

\* Faulty FileNew: the queue is full one claim late.
FileNewPastFull(p) ==
  /\ PendingOf(p.rack) = {}
  /\ Cardinality(Queue) <= MaxPending
  /\ ClaimId \ UsedIds # {}
  /\ LET i == Unused(ClaimId, UsedIds)
     IN  /\ claim' = [Kept EXCEPT ![i] =
                        [rack |-> p.rack, public |-> p.public, age |-> 0, grant |-> None]]
         /\ Answered(p, i)

\* A new claim, when the queue has room.
FileNew(p) ==
  /\ PendingOf(p.rack) = {}
  /\ Cardinality(Queue) < MaxPending
  /\ ClaimId \ UsedIds # {}
  /\ LET i == Unused(ClaimId, UsedIds)
     IN  /\ claim' = [Kept EXCEPT ![i] =
                        [rack |-> p.rack, public |-> p.public, age |-> 0, grant |-> None]]
         /\ Answered(p, i)

\* file_claim_route and file_claim.
HandlePost(p) ==
  /\ p \in posts
  /\ posts' = posts \ {p}
  /\ straggled' = IF Awaited(p) THEN straggled ELSE straggled \cup {p.rack}
  /\ LET a == From[p.rack]
     IN  \/ /\ TooMany(a)
            /\ attempts' = Recent
            /\ Refused(p)
            /\ UNCHANGED <<claim, denied, trouble>>
         \/ /\ ~TooMany(a)
            /\ attempts' = Record(a)
            /\ denied' = StillDenied
            /\ \/ /\ \/ Denied(p.rack)
                     \/ PendingOf(p.rack) = {} /\ Cardinality(Queue) >= MaxPending
                  /\ claim' = Kept
                  /\ Refused(p)
                  /\ UNCHANGED trouble
               \/ /\ ~Denied(p.rack)
                  /\ Refresh(p) \/ FileNew(p)
  /\ UNCHANGED <<daemon, removed>>

-----------------------------------------------------------------------------
(* The server: what an admin does.                                         *)

\* Faulty Reclaimed: nothing is taken back, or any row not seen yet.
ReclaimedNever(r, n) == FALSE
ReclaimedOfAnyone(r, n) == n = hostname[r] /\ daemon[n] # None /\ ~daemon[n].seen

\* The one row an approval may delete: an earlier grant to the same rack, never
\* seen since.
Reclaimed(r, n) ==
  /\ n = hostname[r]
  /\ daemon[n] # None
  /\ ~daemon[n].seen
  /\ daemon[n].fingerprint = r

\* Approve: one transaction mints a key, seals it to the claim's public key,
\* takes the name back from an uncollected grant, and adds the row.  A name
\* that is another row's rolls it back (409), as Conflict.
NameFree(r) == daemon[hostname[r]] = None \/ Reclaimed(r, hostname[r])

Approve(r) ==
  /\ NameFree(r)
  /\ Key \ UsedKeys # {}
  /\ \E i \in PendingOf(r) :
       LET k == Unused(Key, UsedKeys)
       IN  /\ claim' = [Kept EXCEPT ![i].grant = [key |-> k, to |-> claim[i].public],
                                    ![i].age = 0]
           /\ daemon' = [daemon EXCEPT ![hostname[r]] =
                           [key |-> k, fingerprint |-> r, seen |-> FALSE]]
  /\ denied' = StillDenied
  /\ removed' = removed \ {r}
  /\ UNCHANGED <<attempts, posts, loop, straggled, trouble>>

\* GET /api/claims; an approval whose name is taken; a claim that is not there.
Sweep ==
  /\ Expire
  /\ UNCHANGED <<daemon, attempts, posts, loop, history, trouble>>

\* Deny: the claim goes, and its fingerprint may not file for a while.
Deny(r) ==
  /\ Trouble
  /\ \E i \in PendingOf(r) : claim' = [Kept EXCEPT ![i] = None]
  /\ denied' = [StillDenied EXCEPT ![r] = 0]
  /\ UNCHANGED <<daemon, attempts, posts, loop, history>>

\* A row made by hand, with a token nobody here spends; its name is then taken.
CreateDaemon(n) ==
  /\ Trouble
  /\ daemon[n] = None
  /\ daemon' = [daemon EXCEPT ![n] = [key |-> None, fingerprint |-> None, seen |-> FALSE]]
  /\ UNCHANGED <<claim, denied, attempts, posts, loop, history>>

DeleteDaemon(n) ==
  /\ Trouble
  /\ daemon[n] # None
  /\ removed' = removed \cup ({daemon[n].fingerprint} \ {None})
  /\ daemon' = [daemon EXCEPT ![n] = None]
  /\ UNCHANGED <<claim, denied, attempts, posts, loop, straggled>>

\* Faulty Older: an age that never stops.
OlderUnbounded(age, limit) == age + 1

\* Time passes.  An age stops at the limit it is compared with.
Older(age, limit) == IF age < limit THEN age + 1 ELSE limit

Tick ==
  /\ claim' = [i \in ClaimId |->
                 IF claim[i] = None THEN None
                 ELSE [claim[i] EXCEPT !.age = Older(@, Lifetime)]]
  /\ denied' = [r \in Rack |-> IF denied[r] = None THEN None
                               ELSE Older(denied[r], Suppression)]
  /\ attempts' = [a \in Address |->
                    [j \in 1..Len(attempts[a]) |-> Older(attempts[a][j], Window)]]
  /\ UNCHANGED <<daemon, posts, loop, history, trouble>>

-----------------------------------------------------------------------------
Init ==
  /\ claim = [i \in ClaimId |-> None]
  /\ denied = [r \in Rack |-> None]
  /\ daemon = [n \in Name |-> None]
  /\ attempts = [a \in Address |-> << >>]
  /\ posts = {}
  /\ hostname \in Hostnames
  /\ phase = [r \in Rack |-> "idle"]
  /\ pair = [r \in Rack |-> None]
  /\ id = [r \in Rack |-> None]
  /\ key = [r \in Rack |-> None]
  /\ straggled = {}
  /\ removed = {}
  /\ trouble = 0

Next ==
  \/ \E r \in Rack : File(r) \/ GiveUp(r) \/ Crash(r) \/ Poll(r) \/ Dial(r)
  \/ \E p \in posts : HandlePost(p) \/ LosePost(p)
  \/ \E r \in Rack : Approve(r) \/ Deny(r)
  \/ \E n \in Name : CreateDaemon(n) \/ DeleteDaemon(n)
  \/ Sweep
  \/ Tick

Spec == Init /\ [][Next]_vars

(***************************************************************************)
(* What is fair: the loop of every rack, the requests it sent, and time.   *)
(* Two things need more.  A poll is due every few seconds and at least     *)
(* every five minutes, a grant lives for thirty, so time does not run past *)
(* every grant before it is polled; and an admin to whom a claim comes     *)
(* back again and again approves it once.  The second is about people, and *)
(* only Joins rests on it.                                                 *)
(***************************************************************************)
Lap(r) ==
  \/ File(r) \/ GiveUp(r) \/ Poll(r)
  \/ \E p \in posts : Awaited(p) /\ p.rack = r /\ HandlePost(p)

Fairness ==
  /\ \A r \in Rack : WF_vars(Lap(r))
  /\ \A r \in Rack : SF_vars(Poll(r) /\ phase'[r] = "paired")
  /\ \A r \in Rack : SF_vars(Approve(r))
  /\ WF_vars(Tick)

FairSpec == Spec /\ Fairness

-----------------------------------------------------------------------------
(* Properties.                                                             *)

\* Every variable keeps its shape.
TypeOK ==
  /\ claim \in [ClaimId -> Claim \cup {None}]
  /\ denied \in [Rack -> (0..Suppression) \cup {None}]
  /\ daemon \in [Name -> Daemon \cup {None}]
  /\ attempts \in [Address -> Seq(0..Window)]
  /\ posts \subseteq Post
  /\ hostname \in [Rack -> Name]
  /\ phase \in [Rack -> {"idle", "filing", "polling", "paired"}]
  /\ pair \in [Rack -> KeyPair \cup {None}]
  /\ id \in [Rack -> ClaimId \cup {None}]
  /\ key \in [Rack -> Key \cup {None}]
  /\ straggled \subseteq Rack /\ removed \subseteq Rack
  /\ trouble \in 0..MaxTrouble

\* A grant the rack is polling for is sealed to the key pair it still holds,
\* however often it filed, gave up or restarted before the approval, unless a
\* filing it had given up was handled late.  A claim that kept the public key of
\* an earlier filing would be approved in vain.
Openable ==
  \A r \in Rack \ straggled :
    phase[r] = "polling" /\ Granted(id[r]) => claim[id[r]].grant.to = pair[r]

\* The key a rack paired with opens a row until an admin deletes that row, unless
\* a filing this rack had given up was handled late: that one is queued again, and
\* approving it can take the row back.  What other racks of the same name, and
\* their late filings, are approved for never takes it, though a rack that has not
\* dialled in yet looks like one that never collected its key.
PairedIsKnown ==
  \A r \in Rack \ (removed \cup straggled) :
    phase[r] = "paired" => \E n \in Name : daemon[n] # None /\ daemon[n].key = key[r]

\* The queue an admin sees holds no more than its limit, one claim of a rack at
\* most, and nothing of a rack that was denied a while ago, whatever was still
\* on its way when it was.
QueueSound ==
  /\ Cardinality(Queue) <= MaxPending
  /\ \A r \in Rack : Cardinality(PendingOf(r)) <= 1
  /\ \A r \in Rack : Denied(r) => PendingOf(r) = {}

Taken(r) == daemon[hostname[r]] # None /\ daemon[hostname[r]].fingerprint # r

\* Every rack pairs in the end, unless the name of one stays another row's: no
\* lost answer, restart, denial, full queue, refused attempt or expired grant
\* leaves a rack waiting for something that will not come.
Joins ==
  <>[](\/ \A r \in Rack : phase[r] = "paired"
       \/ \E r \in Rack : phase[r] # "paired" /\ Taken(r))

=============================================================================
