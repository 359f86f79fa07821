------------------------------- MODULE Asking -------------------------------
(***************************************************************************)
(* What Hub.request and the routes around it promise whoever asks a rack   *)
(* something (server/src/ors_server: link/hub, api/daemons), without the   *)
(* connections it takes: each question gets one outcome and keeps it, an   *)
(* answer is the one to that question by that rack, a rack is probed for   *)
(* one asker at a time, and nobody waits for ever.                         *)
(***************************************************************************)
EXTENDS Naturals

CONSTANTS Rack, Asker, None

VARIABLES
  question, \* of each asker: the question it waits on, [id, rack, kind], or None
  outcome,  \* and what it has come to: None, the question it answers, or Lost
  asked     \* how many questions there were

vars == <<question, outcome, asked>>

Kind == {"detect", "probe"}
Lost == [type |-> "lost"]

Probed == {r \in Rack : \E a \in Asker :
             question[a] # None /\ question[a].rack = r /\ question[a].kind = "probe"}

\* one_probe_at_a_time and the head of Hub.request.
Ask(a) ==
  /\ question[a] = None
  /\ \E r \in Rack, kind \in Kind :
       /\ kind = "probe" => r \notin Probed
       /\ question' = [question EXCEPT ![a] = [id |-> asked + 1, rack |-> r, kind |-> kind]]
  /\ asked' = asked + 1
  /\ UNCHANGED outcome

\* Hub.deliver_reply.
Answer(a) ==
  /\ question[a] # None /\ outcome[a] = None
  /\ outcome' = [outcome EXCEPT ![a] = question[a]]
  /\ UNCHANGED <<question, asked>>

\* Hub._abandon_waits: of every question of a rack that has none yet.
Lose(r) ==
  /\ outcome' = [a \in Asker |->
                   IF question[a] # None /\ question[a].rack = r /\ outcome[a] = None
                   THEN Lost ELSE outcome[a]]
  /\ UNCHANGED <<question, asked>>

\* The way out of Hub.request: with an outcome, or for want of one in time.  A
\* send that fails drops its connection on the way.
Return(a) ==
  /\ question[a] # None
  /\ question' = [question EXCEPT ![a] = None]
  /\ \/ outcome' = [outcome EXCEPT ![a] = None]
     \/ outcome' = [b \in Asker |->
                      IF b = a THEN None
                      ELSE IF question[b] # None /\ question[b].rack = question[a].rack
                              /\ outcome[b] = None
                           THEN Lost ELSE outcome[b]]
  /\ UNCHANGED asked

Init ==
  /\ question = [a \in Asker |-> None] /\ outcome = [a \in Asker |-> None]
  /\ asked = 0

Next ==
  \/ \E a \in Asker : Ask(a) \/ Answer(a) \/ Return(a)
  \/ \E r \in Rack : Lose(r)

Spec == Init /\ [][Next]_vars /\ \A a \in Asker : WF_vars(Return(a))

=============================================================================
