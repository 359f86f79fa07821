-------------------------- MODULE SupervisorProofs --------------------------
(***************************************************************************)
(* Proofs about Supervisor: types, that no panel is shut twice, that none  *)
(* is left lit, that one worker at most draws on each, that no device is   *)
(* opened twice or under a worker that draws on its bus, and that a rack   *)
(* between calls shows one configuration.                                  *)
(*                                                                         *)
(* A thread's calls are numbered from the outermost, so that a call keeps  *)
(* its number while others are made on top of it and return.               *)
(***************************************************************************)
EXTENDS Supervisor, FiniteSetTheorems, SequenceTheorems, TLAPS

Depth(t) == Len(stack[t])
Levels(t) == 1..Depth(t)
Fr(t, k) == stack[t][Depth(t) + 1 - k]

\* Where each method can be.
Placed(op, at) ==
  \/ op = "start" /\ at \in {"open", "init", "work", "begun", "failed"}
  \/ op = "run" /\ at \in {"loop", "over"}
  \/ op = "tick" /\ at \in {"enter", "check", "begun"}
  \/ op = "stop" /\ at \in {"enter", "join", "blank", "close"}
  \/ op = "apply" /\ at \in {"enter", "join", "pause", "open", "init", "work", "begun", "failed"}
  \/ op = "probe" /\ at \in {"enter", "pause", "open", "init", "lit"}

FrameType ==
  [op : Op, at : At, screens : SUBSET (Screen \cup Candidate),
   slots : SUBSET Slot, kept : SUBSET Slot, retired : SUBSET Slot,
   buses : SUBSET {d[1] : d \in Device}, screen : Screen \cup Candidate \cup {None},
   slot : Slot \cup {None}, worker : Worker \cup {None}, before : Settings \cup {None}]

\* What a call has in hand where it is.
FrameOK(f) ==
  /\ Placed(f.op, f.at)
  /\ f.op \in {"start", "apply"} => f.screens \subseteq Screen
  /\ f.op = "probe" => f.screens \subseteq Candidate
  /\ f.op \in {"start", "apply"} /\ f.at = "init" => f.screen \in Screen
  /\ f.op = "probe" /\ f.at = "init" => f.screen \in Candidate
  /\ f.at \in {"begun", "failed", "lit", "close"} => f.slot \in Slot
  /\ f.at = "begun" => f.worker \in Worker
  /\ f.op = "apply" /\ f.at # "enter" => f.before \in Settings
  /\ f.at = "pause" => \A s \in f.slots : worker[s] # None
  /\ f.op # "tick" /\ f.at \in {"pause", "work", "begun", "failed"} =>
        \A s \in f.slots : screen[s] \in Screen
  /\ f.at = "failed" => screen[f.slot] \in Screen
  /\ f.at = "join" => \A s \in f.kept : screen[s] \in Screen

Stacks == stack \in [Thread -> Seq(FrameType)]
FramesOK == \A t \in Thread : \A k \in Levels(t) : FrameOK(Fr(t, k))

\* The types of all but the calls.
Values ==
  /\ stopped \in BOOLEAN
  /\ config \in Settings
  /\ slots \subseteq Slot /\ unavailable \subseteq Screen
  /\ screen \in [Slot -> Screen \cup Candidate \cup {None}]
  /\ issue \in [Slot -> Nat] /\ lease \in [Slot -> Nat]
  /\ worker \in [Slot -> Worker \cup {None}]
  /\ restarts \in [Slot -> 0..MaxRestarts]
  /\ shut \in [Slot -> BOOLEAN] /\ stop \in [Slot -> BOOLEAN]
  /\ closes \in [Slot -> Nat]
  /\ live \subseteq Slot \X Nat
  /\ doing \in [Worker -> {"parked", "ticking", "writing", "done"}]
  /\ on \in [Worker -> Slot \cup {None}] /\ by \in [Worker -> Nat]
  /\ held \subseteq Worker
  /\ pushes \in 0..MaxPushes /\ signals \in 0..MaxSignals

SlotsShow == \A s \in slots : screen[s] \in Screen

Typed == Stacks /\ FramesOK /\ Values /\ SlotsShow

-----------------------------------------------------------------------------
(* The calls of a thread.                                                  *)

\* t's calls after a step: the n outermost as they were, then those of g.
Below(t, n) ==
  /\ \A u \in Thread \ {t} : Depth(u)' = Depth(u) /\ \A k \in Levels(u) : Fr(u, k)' = Fr(u, k)
  /\ \A k \in 1..n : Fr(t, k)' = Fr(t, k)

LEMMA Numbers ==
  /\ {MaxRestarts, MaxPushes, MaxSignals} \subseteq Nat
  /\ Slot \subseteq Nat /\ Worker \subseteq Nat /\ None \notin Slot /\ None \notin Worker
BY IdAssumption, BoundAssumption, NoneAssumption

LEMMA StackIs ==
  ASSUME Stacks, NEW t \in Thread
  PROVE  /\ Depth(t) \in Nat /\ stack[t] \in Seq(FrameType)
         /\ \A k \in Levels(t) : Fr(t, k) \in FrameType
         /\ stack[t] = <<>> <=> Depth(t) = 0
         /\ stack[t] # <<>> => Depth(t) \in Levels(t) /\ Top(t) = Fr(t, Depth(t))
<1>1. stack[t] \in Seq(FrameType)
  BY DEF Stacks
<1>2. Depth(t) \in Nat /\ (stack[t] = <<>> <=> Depth(t) = 0)
  BY <1>1 DEF Depth
<1>3. ASSUME NEW k \in Levels(t)
      PROVE  Fr(t, k) \in FrameType
  <2>1. Depth(t) + 1 - k \in 1..Len(stack[t])
    BY <1>2, <1>3 DEF Levels, Depth
  <2> QED BY <1>1, <2>1 DEF Fr
<1>4. ASSUME stack[t] # <<>>
      PROVE  Depth(t) \in Levels(t) /\ Top(t) = Fr(t, Depth(t))
  <2>1. Depth(t) >= 1 /\ Depth(t) + 1 - Depth(t) = 1
    BY <1>2, <1>4
  <2> QED BY <1>1, <1>2, <1>4, <2>1 DEF Levels, Top, Fr
<1> QED BY <1>1, <1>2, <1>3, <1>4

LEMMA OthersStay ==
  ASSUME Stacks, NEW t \in Thread, NEW c \in Seq(FrameType), stack' = [stack EXCEPT ![t] = c]
  PROVE  /\ Stacks' /\ stack'[t] = c
         /\ \A u \in Thread \ {t} : /\ stack'[u] = stack[u] /\ Depth(u)' = Depth(u)
                                    /\ \A k \in Levels(u) : Fr(u, k)' = Fr(u, k)
<1>1. Stacks' /\ stack'[t] = c
  BY DEF Stacks
<1>2. ASSUME NEW u \in Thread \ {t}
      PROVE  stack'[u] = stack[u]
  BY DEF Stacks
<1> QED BY <1>1, <1>2 DEF Depth, Fr, Levels

LEMMA GoIs ==
  ASSUME Stacks, NEW t \in Thread, stack[t] # <<>>, NEW f \in FrameType, Go(t, f)
  PROVE  /\ Stacks' /\ Depth(t)' = Depth(t) /\ Fr(t, Depth(t))' = f
         /\ Below(t, Depth(t) - 1)
<1> DEFINE c == <<f>> \o Tail(stack[t])
<1>1. stack[t] \in Seq(FrameType) /\ Len(stack[t]) \in Nat \ {0}
  BY StackIs DEF Depth
<1>2. /\ c \in Seq(FrameType) /\ Len(c) = Len(stack[t]) /\ c[1] = f
      /\ \A i \in 2..Len(stack[t]) : c[i] = stack[t][i]
  <2>1. Tail(stack[t]) \in Seq(FrameType) /\ Len(Tail(stack[t])) = Len(stack[t]) - 1
    BY <1>1
  <2>2. ASSUME NEW i \in 2..Len(stack[t])
        PROVE  c[i] = stack[t][i]
    <3>1. c[i] = Tail(stack[t])[i - 1] /\ i - 1 \in 1..Len(stack[t]) - 1
      BY <1>1, <2>1
    <3>2. Tail(stack[t])[i - 1] = stack[t][i - 1 + 1]
      BY <1>1, <3>1
    <3> QED BY <3>1, <3>2
  <2> QED BY <1>1, <2>1, <2>2
<1>3. stack' = [stack EXCEPT ![t] = c]
  BY DEF Go
<1> HIDE DEF c
<1>4. Stacks' /\ stack'[t] = c
  BY <1>2, <1>3, OthersStay
<1>5. Depth(t)' = Depth(t) /\ Fr(t, Depth(t))' = f
  BY <1>1, <1>2, <1>4 DEF Depth, Fr
<1>6. ASSUME NEW k \in 1..Depth(t) - 1
      PROVE  Fr(t, k)' = Fr(t, k)
  <2>1. Depth(t) + 1 - k \in 2..Len(stack[t])
    BY <1>1, <1>6 DEF Depth
  <2> QED BY <1>2, <1>4, <1>5, <2>1 DEF Fr
<1> QED BY <1>2, <1>3, <1>4, <1>5, <1>6, OthersStay DEF Below

LEMMA CallIs ==
  ASSUME Stacks, NEW t \in Thread, NEW f \in FrameType, Call(t, f)
  PROVE  /\ Stacks' /\ Depth(t)' = Depth(t) + 1 /\ Fr(t, Depth(t))' = f
         /\ Below(t, Depth(t))
<1> DEFINE c == <<f>> \o stack[t]
<1>1. stack[t] \in Seq(FrameType) /\ Len(stack[t]) \in Nat
  BY StackIs DEF Depth
<1>2. /\ c \in Seq(FrameType) /\ Len(c) = Len(stack[t]) + 1 /\ c[1] = f
      /\ \A i \in 1..Len(stack[t]) : c[i + 1] = stack[t][i]
  BY <1>1
<1>3. stack' = [stack EXCEPT ![t] = c]
  BY DEF Call
<1> HIDE DEF c
<1>4. Stacks' /\ stack'[t] = c
  BY <1>2, <1>3, OthersStay
<1>5. Depth(t)' = Depth(t) + 1
  BY <1>2, <1>4 DEF Depth
<1>6. Fr(t, Depth(t))' = f
  <2>1. Depth(t)' + 1 - Depth(t)' = 1
    BY <1>1, <1>5 DEF Depth
  <2> QED BY <1>2, <1>4, <2>1 DEF Fr
<1>7. ASSUME NEW k \in 1..Depth(t)
      PROVE  Fr(t, k)' = Fr(t, k)
  <2>1. /\ Depth(t) + 1 - k \in 1..Len(stack[t])
        /\ Depth(t)' + 1 - k = (Depth(t) + 1 - k) + 1
    BY <1>1, <1>5, <1>7 DEF Depth
  <2> QED BY <1>2, <1>4, <2>1 DEF Fr
<1> QED BY <1>2, <1>3, <1>4, <1>5, <1>6, <1>7, OthersStay DEF Below

LEMMA ReturnIs ==
  ASSUME Stacks, NEW t \in Thread, stack[t] # <<>>, Return(t)
  PROVE  Stacks' /\ Depth(t)' = Depth(t) - 1 /\ Below(t, Depth(t) - 1)
<1> DEFINE c == Tail(stack[t])
<1>1. stack[t] \in Seq(FrameType) /\ Len(stack[t]) \in Nat \ {0}
  BY StackIs DEF Depth
<1>2. /\ c \in Seq(FrameType) /\ Len(c) = Len(stack[t]) - 1
      /\ \A i \in 1..Len(stack[t]) - 1 : c[i] = stack[t][i + 1]
  BY <1>1
<1>3. stack' = [stack EXCEPT ![t] = c]
  BY DEF Return
<1> HIDE DEF c
<1>4. Stacks' /\ stack'[t] = c
  BY <1>2, <1>3, OthersStay
<1>5. Depth(t)' = Depth(t) - 1
  BY <1>2, <1>4 DEF Depth
<1>6. ASSUME NEW k \in 1..Depth(t) - 1
      PROVE  Fr(t, k)' = Fr(t, k)
  <2>1. /\ Depth(t)' + 1 - k \in 1..Len(stack[t]) - 1
        /\ Depth(t)' + 1 - k + 1 = Depth(t) + 1 - k
    BY <1>1, <1>5, <1>6 DEF Depth
  <2> QED BY <1>2, <1>4, <2>1 DEF Fr
<1> QED BY <1>2, <1>3, <1>4, <1>5, <1>6, OthersStay DEF Below

\* The frame of a new call, and of Raise.
LEMMA FrameIs ==
  ASSUME NEW op \in Op, NEW at \in At
  PROVE  /\ Frame(op, at) \in FrameType
         /\ Frame(op, at).op = op /\ Frame(op, at).at = at
         /\ Frame(op, at).screens = {} /\ Frame(op, at).slots = {} /\ Frame(op, at).kept = {}
         /\ Frame(op, at).retired = {} /\ Frame(op, at).buses = {}
         /\ Frame(op, at).screen = None /\ Frame(op, at).slot = None
         /\ Frame(op, at).worker = None /\ Frame(op, at).before = None
BY DEF Frame, FrameType

LEMMA RaiseIs ==
  ASSUME Stacks, Raise
  PROVE  /\ Stacks' /\ Depth("main")' = 2
         /\ Fr("main", 1)' = Frame("run", "over") /\ Fr("main", 2)' = Frame("stop", "enter")
         /\ Below("main", 0)
<1> DEFINE c == <<Frame("stop", "enter"), Frame("run", "over")>>
<1>1. /\ Frame("stop", "enter") \in FrameType /\ Frame("run", "over") \in FrameType
      /\ "main" \in Thread
  BY FrameIs DEF Op, At, Thread
<1>2. c \in Seq(FrameType) /\ Len(c) = 2 /\ c[1] = Frame("stop", "enter") /\ c[2] = Frame("run", "over")
  BY <1>1
<1>3. stack' = [stack EXCEPT !["main"] = c]
  BY DEF Raise
<1> HIDE DEF c
<1>4. Stacks' /\ stack'["main"] = c
  BY <1>1, <1>2, <1>3, OthersStay
<1>5. Depth("main")' = 2
  BY <1>2, <1>4 DEF Depth
<1>6. Fr("main", 1)' = c[2] /\ Fr("main", 2)' = c[1]
  BY <1>2, <1>4, <1>5 DEF Fr
<1>7. \A u \in Thread \ {"main"} :
          Depth(u)' = Depth(u) /\ \A k \in Levels(u) : Fr(u, k)' = Fr(u, k)
  BY <1>1, <1>2, <1>3, OthersStay
<1> QED BY <1>2, <1>4, <1>5, <1>6, <1>7 DEF Below

\* What is asked of a thread's calls, in these numbers.
LEMMA HoldsIs ==
  ASSUME Stacks, NEW t \in Thread
  PROVE  Holds(t) <=> \E k \in Levels(t) : Locked(Fr(t, k))
<1>1. stack[t] \in Seq(FrameType) /\ DOMAIN stack[t] = 1..Len(stack[t]) /\ Len(stack[t]) \in Nat
  BY DEF Stacks
<1>2. \A i \in DOMAIN stack[t] : Depth(t) + 1 - i \in Levels(t) /\ Fr(t, Depth(t) + 1 - i) = stack[t][i]
  BY <1>1 DEF Depth, Levels, Fr
<1>3. \A k \in Levels(t) : Depth(t) + 1 - k \in DOMAIN stack[t] /\ Fr(t, k) = stack[t][Depth(t) + 1 - k]
  BY <1>1 DEF Depth, Levels, Fr
<1> QED BY <1>2, <1>3 DEF Holds

\* A call is where In says when the innermost is.
LEMMA InIs ==
  ASSUME Stacks, NEW t \in Thread, NEW ops, NEW at, In(t, ops, at)
  PROVE  /\ stack[t] # <<>> /\ Depth(t) \in Levels(t) /\ Depth(t) \in Nat /\ Top(t) = Fr(t, Depth(t))
         /\ Top(t) \in FrameType /\ Top(t).op \in ops /\ Top(t).at = at
BY StackIs DEF In

LEMMA VacantIs ==
  ASSUME Stacks, NEW s, Vacant(s)
  PROVE  /\ s \notin slots /\ closes[s] > 0 /\ \A w \in Worker : on[w] # s
         /\ \A t \in Thread : \A k \in Levels(t) : ~Mentions(Fr(t, k), s)
<1>1. ASSUME NEW t \in Thread, NEW k \in Levels(t)
      PROVE  ~Mentions(Fr(t, k), s)
  <2>1. Depth(t) + 1 - k \in DOMAIN stack[t]
    <3>1. stack[t] \in Seq(FrameType)
      BY DEF Stacks
    <3> QED BY <1>1, <3>1 DEF Levels, Depth
  <2> QED BY <2>1 DEF Vacant, InUse, Fr
<1> QED BY <1>1 DEF Vacant

LEMMA SpareIs ==
  ASSUME Stacks, NEW w, Spare(w)
  PROVE  /\ doing[w] = "done" /\ \A s \in Slot : worker[s] = w => Vacant(s)
         /\ \A t \in Thread : \A k \in Levels(t) : Fr(t, k).worker # w
<1>1. ASSUME NEW t \in Thread, NEW k \in Levels(t)
      PROVE  Fr(t, k).worker # w
  <2>1. Depth(t) + 1 - k \in DOMAIN stack[t]
    <3>1. stack[t] \in Seq(FrameType)
      BY DEF Stacks
    <3> QED BY <1>1, <3>1 DEF Levels, Depth
  <2> QED BY <2>1 DEF Spare, Fr
<1> QED BY <1>1 DEF Spare

-----------------------------------------------------------------------------
(* Types.                                                                  *)

\* What a call has in hand stays in order whatever is done meanwhile: no panel
\* that a call mentions is opened again.
Old(f) == \E t \in Thread : \E k \in Levels(t) : f = Fr(t, k)
StillOK == \A f \in FrameType : Old(f) => FrameOK(f)'

LEMMA StillIs ==
  ASSUME Typed,
         \A s \in Slot : ~Vacant(s) => /\ screen[s] \in Screen => screen'[s] \in Screen
                                       /\ worker[s] # None => worker'[s] # None
  PROVE  StillOK
<1>1. ASSUME NEW f \in FrameType, Old(f)
      PROVE  FrameOK(f)'
  <2>1. FrameOK(f)
    BY <1>1 DEF Old, Typed, FramesOK
  <2>2. \A s \in Slot : Vacant(s) => ~Mentions(f, s)
    BY <1>1, VacantIs DEF Old, Typed
  <2>3. /\ f.slots \cup f.kept \subseteq Slot /\ \A s \in f.slots \cup f.kept : ~Vacant(s)
        /\ f.slot \in Slot => ~Vacant(f.slot)
    BY <1>1, <2>2 DEF FrameType, Mentions
  <2> QED BY <2>1, <2>3 DEF FrameOK
<1> QED BY <1>1 DEF StillOK

LEMMA OldOnes ==
  ASSUME Stacks, StillOK, NEW t \in Thread, NEW n \in Nat, n <= Depth(t), Below(t, n)
  PROVE  /\ \A u \in Thread \ {t} : \A k \in Levels(u)' : FrameOK(Fr(u, k))'
         /\ \A k \in 1..n : FrameOK(Fr(t, k))'
<1>1. ASSUME NEW u \in Thread, NEW k \in Levels(u), Fr(u, k)' = Fr(u, k)
      PROVE  FrameOK(Fr(u, k))'
  <2>1. Fr(u, k) \in FrameType /\ Old(Fr(u, k))
    BY StackIs DEF Old
  <2>2. PICK f \in FrameType : f = Fr(u, k) /\ FrameOK(f)'
    BY <2>1 DEF StillOK
  <2>3. f = Fr(u, k)'
    BY <1>1, <2>2
  <2> QED BY <2>2, <2>3
<1>2. \A u \in Thread \ {t} : Levels(u)' = Levels(u)
  BY DEF Below, Levels
<1>3. \A k \in 1..n : k \in Levels(t)
  BY StackIs DEF Levels
<1> QED BY <1>1, <1>2, <1>3 DEF Below

LEMMA Goes ==
  ASSUME Stacks, StillOK, NEW t \in Thread, stack[t] # <<>>,
         NEW f \in FrameType, FrameOK(f)', Go(t, f)
  PROVE  Stacks' /\ FramesOK'
<1>1. /\ Stacks' /\ Depth(t)' = Depth(t) /\ Fr(t, Depth(t))' = f
      /\ Below(t, Depth(t) - 1)
  BY GoIs
<1>2. Depth(t) \in Nat \ {0}
  BY StackIs
<1>3. FrameOK(Fr(t, Depth(t)))'
  BY <1>1
<1>4. /\ \A u \in Thread \ {t} : \A k \in Levels(u)' : FrameOK(Fr(u, k))'
      /\ \A k \in 1..Depth(t) - 1 : FrameOK(Fr(t, k))'
  BY <1>1, <1>2, OldOnes
<1>5. ASSUME NEW k \in Levels(t)'
      PROVE  FrameOK(Fr(t, k))'
  <2>1. k = Depth(t)' \/ k \in 1..Depth(t) - 1
    BY <1>1, <1>2, <1>5 DEF Levels
  <2> QED BY <1>3, <1>4, <2>1
<1> QED BY <1>1, <1>4, <1>5 DEF FramesOK

LEMMA Nests ==
  ASSUME Stacks, StillOK, NEW t \in Thread, NEW f \in FrameType, FrameOK(f)', Call(t, f)
  PROVE  Stacks' /\ FramesOK'
<1>1. /\ Stacks' /\ Depth(t)' = Depth(t) + 1 /\ Fr(t, Depth(t))' = f
      /\ Below(t, Depth(t))
  BY CallIs
<1>2. Depth(t) \in Nat
  BY StackIs
<1>3. FrameOK(Fr(t, Depth(t)))'
  BY <1>1
<1>4. /\ \A u \in Thread \ {t} : \A k \in Levels(u)' : FrameOK(Fr(u, k))'
      /\ \A k \in 1..Depth(t) : FrameOK(Fr(t, k))'
  BY <1>1, <1>2, OldOnes
<1>5. ASSUME NEW k \in Levels(t)'
      PROVE  FrameOK(Fr(t, k))'
  <2>1. k = Depth(t)' \/ k \in 1..Depth(t)
    BY <1>1, <1>2, <1>5 DEF Levels
  <2> QED BY <1>3, <1>4, <2>1
<1> QED BY <1>1, <1>4, <1>5 DEF FramesOK

LEMMA Returns ==
  ASSUME Stacks, StillOK, NEW t \in Thread, stack[t] # <<>>, Return(t)
  PROVE  Stacks' /\ FramesOK'
<1>1. Stacks' /\ Depth(t)' = Depth(t) - 1 /\ Below(t, Depth(t) - 1)
  BY ReturnIs
<1>2. Depth(t) \in Nat \ {0} /\ Levels(t)' = 1..Depth(t) - 1
  BY <1>1, StackIs DEF Levels
<1>3. /\ \A u \in Thread \ {t} : \A k \in Levels(u)' : FrameOK(Fr(u, k))'
      /\ \A k \in 1..Depth(t) - 1 : FrameOK(Fr(t, k))'
  BY <1>1, <1>2, OldOnes
<1> QED BY <1>1, <1>2, <1>3 DEF FramesOK

LEMMA Plain ==
  /\ \A at \in {"enter", "join", "blank"} :
        Frame("stop", at) \in FrameType /\ FrameOK(Frame("stop", at))'
  /\ Frame("tick", "enter") \in FrameType /\ FrameOK(Frame("tick", "enter"))'
  /\ Frame("run", "over") \in FrameType /\ FrameOK(Frame("run", "over"))'
BY FrameIs DEF FrameOK, Placed, Op, At

LEMMA Raises ==
  ASSUME Stacks, StillOK, Raise
  PROVE  Stacks' /\ FramesOK'
<1>1. /\ Stacks' /\ Depth("main")' = 2
      /\ Fr("main", 1)' = Frame("run", "over") /\ Fr("main", 2)' = Frame("stop", "enter")
      /\ Below("main", 0)
  BY RaiseIs
<1>2. "main" \in Thread /\ Depth("main") \in Nat
  BY StackIs DEF Thread
<1>3. FrameOK(Fr("main", 1))' /\ FrameOK(Fr("main", 2))'
  BY <1>1, Plain
<1>4. \A u \in Thread \ {"main"} : \A k \in Levels(u)' : FrameOK(Fr(u, k))'
  BY <1>1, <1>2, OldOnes
<1>5. \A k \in Levels("main")' : k = 1 \/ k = 2
  BY <1>1 DEF Levels
<1> QED BY <1>1, <1>3, <1>4, <1>5 DEF FramesOK

LEMMA Same ==
  ASSUME Typed, UNCHANGED <<screen, worker>>
  PROVE  StillOK
BY StillIs

\* A step of the calls alone.
rest == <<stopped, config, slots, unavailable, slot, live, thread, held, pushes, signals>>

LEMMA RestStays ==
  ASSUME Typed, UNCHANGED rest
  PROVE  StillOK /\ Values' /\ SlotsShow'
<1>1. UNCHANGED <<screen, worker>>
  BY DEF rest, slot
<1>2. StillOK
  BY <1>1, Same
<1>3. Values'
  BY DEF Typed, Values, rest, slot, thread
<1>4. SlotsShow'
  BY DEF Typed, SlotsShow, rest, slot
<1> QED BY <1>2, <1>3, <1>4

LEMMA TypedDrawing ==
  ASSUME Typed, NEW w \in Worker, Drawing(w)
  PROVE  Typed'
<1>1. UNCHANGED <<stack, stopped, config, slots, unavailable, slot, held, pushes, signals>>
  BY DEF Drawing, BeginTick, Show, Shown, Leave
<1>2. Stacks' /\ FramesOK' /\ SlotsShow'
  <2>1. StillOK
    BY <1>1, Same DEF slot
  <2>2. \A t \in Thread : Depth(t)' = Depth(t) /\ Levels(t)' = Levels(t) /\ \A k \in Levels(t) : Fr(t, k)' = Fr(t, k)
    BY <1>1 DEF Depth, Levels, Fr
  <2>3. ASSUME NEW t \in Thread, NEW k \in Levels(t)
        PROVE  FrameOK(Fr(t, k))'
    <3>1. Fr(t, k) \in FrameType /\ Old(Fr(t, k))
      BY StackIs DEF Old, Typed
    <3>2. PICK f \in FrameType : f = Fr(t, k) /\ FrameOK(f)'
      BY <2>1, <3>1 DEF StillOK
    <3>3. f = Fr(t, k)'
      BY <2>2, <3>2
    <3> QED BY <3>2, <3>3
  <2> QED BY <1>1, <2>2, <2>3 DEF Typed, Stacks, FramesOK, SlotsShow, slot
<1>3. /\ doing' \in [Worker -> {"parked", "ticking", "writing", "done"}]
      /\ on' \in [Worker -> Slot \cup {None}] /\ by' \in [Worker -> Nat]
      /\ live' \subseteq Slot \X Nat
  BY DEF Typed, Values, Drawing, BeginTick, Show, Shown, Leave
<1>4. Values'
  BY <1>1, <1>3 DEF Typed, Values, slot
<1> QED BY <1>2, <1>4 DEF Typed

LEMMA TypedBeginOpen ==
  ASSUME Typed, NEW t \in Thread, NEW x \in Screen \cup Candidate, BeginOpen(t, x)
  PROVE  Typed'
<1> SUFFICES ASSUME NEW f, f = [Top(t) EXCEPT !.at = "init", !.screen = x, !.screens = @ \ {x}]
             PROVE  Typed'
  OBVIOUS
<1>1. /\ In(t, {"start", "apply", "probe"}, "open") /\ x \in Top(t).screens /\ Go(t, f)
      /\ UNCHANGED rest
  BY DEF BeginOpen, rest
<1>2. /\ stack[t] # <<>> /\ Top(t) \in FrameType /\ FrameOK(Top(t))
      /\ Top(t).op \in {"start", "apply", "probe"} /\ Top(t).at = "open"
  BY <1>1, InIs DEF Typed, FramesOK
<1>3. /\ f \in FrameType /\ f.op = Top(t).op /\ f.at = "init" /\ f.screen = x
      /\ f.screens \subseteq Top(t).screens /\ f.before = Top(t).before
  BY <1>2 DEF FrameType, At
<1>4. FrameOK(f)'
  BY <1>1, <1>2, <1>3 DEF FrameOK, Placed
<1> QED BY <1>1, <1>2, <1>3, <1>4, RestStays, Goes DEF Typed

LEMMA TypedSkipOpen ==
  ASSUME Typed, NEW t \in Thread, NEW x \in Screen \cup Candidate, SkipOpen(t, x)
  PROVE  Typed'
<1> SUFFICES ASSUME NEW f, f = [Top(t) EXCEPT !.screens = @ \ {x}]
             PROVE  Typed'
  OBVIOUS
<1>1. /\ In(t, {"apply"}, "open") /\ x \in Top(t).screens /\ Go(t, f)
      /\ unavailable' = unavailable \cup {x}
      /\ UNCHANGED <<stopped, config, slots, slot, live, thread, held, pushes, signals>>
  BY DEF SkipOpen
<1>2. /\ stack[t] # <<>> /\ Top(t) \in FrameType /\ FrameOK(Top(t))
      /\ Top(t).op = "apply" /\ Top(t).at = "open"
  BY <1>1, InIs DEF Typed, FramesOK
<1>3. /\ f \in FrameType /\ f.op = Top(t).op /\ f.at = "open"
      /\ f.screens \subseteq Top(t).screens /\ f.before = Top(t).before
  BY <1>2 DEF FrameType, At
<1>4. FrameOK(f)'
  BY <1>1, <1>2, <1>3 DEF FrameOK, Placed
<1>5. StillOK
  BY <1>1, Same DEF slot
<1>6. Values' /\ SlotsShow'
  BY <1>1, <1>2 DEF Typed, Values, SlotsShow, FrameOK, slot, thread
<1> QED BY <1>1, <1>2, <1>3, <1>4, <1>5, <1>6, Goes DEF Typed

LEMMA TypedOpenFails ==
  ASSUME Typed, NEW t \in Thread, OpenFails(t)
  PROVE  Typed'
<1> SUFFICES ASSUME NEW f, f = [Top(t) EXCEPT !.at = "open", !.screen = None]
             PROVE  Typed'
  OBVIOUS
<1>1. /\ In(t, {"start", "apply"}, "init") /\ Go(t, f)
      /\ unavailable' = unavailable \cup {Top(t).screen}
      /\ UNCHANGED <<stopped, config, slots, slot, live, thread, held, pushes, signals>>
  BY DEF OpenFails
<1>2. /\ stack[t] # <<>> /\ Top(t) \in FrameType /\ FrameOK(Top(t))
      /\ Top(t).op \in {"start", "apply"} /\ Top(t).at = "init"
  BY <1>1, InIs DEF Typed, FramesOK
<1>3. /\ f \in FrameType /\ f.op = Top(t).op /\ f.at = "open"
      /\ f.screens = Top(t).screens /\ f.before = Top(t).before
  BY <1>2 DEF FrameType, At
<1>4. FrameOK(f)'
  BY <1>1, <1>2, <1>3 DEF FrameOK, Placed
<1>5. StillOK
  BY <1>1, Same DEF slot
<1>6. Values' /\ SlotsShow'
  BY <1>1, <1>2 DEF Typed, Values, SlotsShow, FrameOK, slot, thread
<1> QED BY <1>1, <1>2, <1>3, <1>4, <1>5, <1>6, Goes DEF Typed

LEMMA TypedOpensDone ==
  ASSUME Typed, NEW t \in Thread, OpensDone(t)
  PROVE  Typed'
<1> SUFFICES ASSUME NEW f, f = [Top(t) EXCEPT !.at = "work", !.slots = slots]
             PROVE  Typed'
  OBVIOUS
<1>1. /\ In(t, {"start", "apply"}, "open") /\ Go(t, f)
      /\ held' = IF Top(t).op = "apply" THEN {} ELSE held
      /\ UNCHANGED <<stopped, config, slots, unavailable, slot, live, thread, pushes, signals>>
  BY DEF OpensDone
<1>2. /\ stack[t] # <<>> /\ Top(t) \in FrameType /\ FrameOK(Top(t))
      /\ Top(t).op \in {"start", "apply"} /\ Top(t).at = "open"
  BY <1>1, InIs DEF Typed, FramesOK
<1>3. /\ f \in FrameType /\ f.op = Top(t).op /\ f.at = "work" /\ f.slots = slots
      /\ f.screens = Top(t).screens /\ f.before = Top(t).before
  BY <1>2 DEF FrameType, At, Typed, Values
<1>4. FrameOK(f)'
  BY <1>1, <1>2, <1>3 DEF FrameOK, Placed, Typed, SlotsShow, slot
<1>5. StillOK
  BY <1>1, Same DEF slot
<1>6. Values' /\ SlotsShow'
  BY <1>1, <1>2 DEF Typed, Values, SlotsShow, FrameOK, slot, thread
<1> QED BY <1>1, <1>2, <1>3, <1>4, <1>5, <1>6, Goes DEF Typed

\* A panel opened in a slot that nothing mentions.
LEMMA OpenedIs ==
  ASSUME Typed, NEW t \in Thread, NEW s \in Slot, Opened(t, s)
  PROVE  /\ Vacant(s) /\ StillOK
         /\ \A o \in Slot \ {s} : /\ screen'[o] = screen[o] /\ issue'[o] = issue[o]
                                  /\ lease'[o] = lease[o] /\ worker'[o] = worker[o]
                                  /\ shut'[o] = shut[o] /\ stop'[o] = stop[o]
                                  /\ closes'[o] = closes[o]
         /\ screen'[s] = Top(t).screen /\ issue'[s] = (IF Top(t).op = "start" THEN 0 ELSE config.issue)
         /\ lease'[s] = 0 /\ worker'[s] = None /\ ~shut'[s] /\ ~stop'[s] /\ closes'[s] = 0
         /\ live' = live \cup {<<s, 0>>}
         /\ issue' \in [Slot -> Nat] /\ lease' \in [Slot -> Nat]
         /\ worker' \in [Slot -> Worker \cup {None}]
         /\ restarts' \in [Slot -> 0..MaxRestarts]
         /\ shut' \in [Slot -> BOOLEAN] /\ stop' \in [Slot -> BOOLEAN]
         /\ closes' \in [Slot -> Nat] /\ live' \subseteq Slot \X Nat
         /\ Top(t).screen \in Screen \cup Candidate \cup {None} =>
               screen' \in [Slot -> Screen \cup Candidate \cup {None}]
<1>1. Vacant(s)
  BY DEF Opened, NewSlot
<1>2. \A o \in Slot \ {s} : /\ screen'[o] = screen[o] /\ issue'[o] = issue[o]
                            /\ lease'[o] = lease[o] /\ worker'[o] = worker[o]
                            /\ shut'[o] = shut[o] /\ stop'[o] = stop[o]
                            /\ closes'[o] = closes[o]
  BY DEF Opened, Typed, Values
<1>3. StillOK
  BY <1>1, <1>2, StillIs
<1>4. /\ screen'[s] = Top(t).screen /\ issue'[s] = (IF Top(t).op = "start" THEN 0 ELSE config.issue)
      /\ lease'[s] = 0 /\ worker'[s] = None /\ ~shut'[s] /\ ~stop'[s] /\ closes'[s] = 0
  BY DEF Opened, Typed, Values
<1>5. /\ lease' \in [Slot -> Nat] /\ worker' \in [Slot -> Worker \cup {None}]
      /\ shut' \in [Slot -> BOOLEAN] /\ stop' \in [Slot -> BOOLEAN]
      /\ closes' \in [Slot -> Nat] /\ live' \subseteq Slot \X Nat
  BY DEF Opened, Typed, Values
<1>6. issue' \in [Slot -> Nat] /\ restarts' \in [Slot -> 0..MaxRestarts]
  <2>1. 0 \in 0..MaxRestarts /\ (IF Top(t).op = "start" THEN 0 ELSE config.issue) \in Nat
    BY Numbers DEF Typed, Values, Settings
  <2> QED BY <2>1 DEF Opened, Typed, Values
<1>7. Top(t).screen \in Screen \cup Candidate \cup {None} =>
        screen' \in [Slot -> Screen \cup Candidate \cup {None}]
  BY DEF Opened, Typed, Values
<1> QED BY <1>1, <1>2, <1>3, <1>4, <1>5, <1>6, <1>7 DEF Opened

LEMMA PairIs ==
  ASSUME NEW M, NEW e \in M, NEW f \in M, NEW q \in Seq(M)
  PROVE  /\ <<e>> \o <<f>> \o q \in Seq(M) /\ Len(<<e>> \o <<f>> \o q) = Len(q) + 2
         /\ (<<e>> \o <<f>> \o q)[1] = e /\ (<<e>> \o <<f>> \o q)[2] = f
         /\ \A i \in 3..Len(q) + 2 : (<<e>> \o <<f>> \o q)[i] = q[i - 2]
<1> DEFINE b == <<e>> \o <<f>>
<1>1. <<e>> \in Seq(M) /\ <<f>> \in Seq(M) /\ Len(<<e>>) = 1 /\ Len(<<f>>) = 1
  OBVIOUS
<1>2. b \in Seq(M) /\ Len(b) = 2 /\ b[1] = e /\ b[2] = f
  BY <1>1
<1> HIDE DEF b
<1>3. /\ b \o q \in Seq(M) /\ Len(b \o q) = Len(b) + Len(q)
      /\ \A i \in 1..Len(b) + Len(q) :
            (b \o q)[i] = IF i <= Len(b) THEN b[i] ELSE q[i - Len(b)]
  BY <1>2, ConcatProperties
<1>4. Len(q) \in Nat
  OBVIOUS
<1>5. Len(b \o q) = Len(q) + 2 /\ (b \o q)[1] = e /\ (b \o q)[2] = f
  BY <1>2, <1>3, <1>4
<1>6. \A i \in 3..Len(q) + 2 : (b \o q)[i] = q[i - 2]
  BY <1>2, <1>3, <1>4
<1> QED BY <1>3, <1>5, <1>6 DEF b

\* A panel recorded, and a stop begun on top if there is one under way.
LEMMA OpenPanelIs ==
  ASSUME Stacks, NEW t \in Thread, NEW s \in Slot, OpenPanel(t, s),
         NEW f \in FrameType, f = [Top(t) EXCEPT !.at = "open", !.screen = None]
  PROVE  \/ ~stopped /\ Go(t, f)
         \/ /\ stopped /\ Stacks' /\ Depth(t)' = Depth(t) + 1 /\ Below(t, Depth(t) - 1)
            /\ Fr(t, Depth(t))' = Frame("stop", "enter")
            /\ \A k : k = Depth(t) => Fr(t, k)' = f
<1> DEFINE c == <<Frame("stop", "enter")>> \o <<f>> \o Tail(stack[t])
           d == <<>> \o <<f>> \o Tail(stack[t])
<1>1. stack[t] \in Seq(FrameType) /\ stack[t] # <<>> /\ Len(stack[t]) \in Nat \ {0} /\ Depth(t) = Len(stack[t])
  BY InIs, StackIs DEF OpenPanel, Depth
<1>2. stack' = [stack EXCEPT ![t] = IF stopped THEN c ELSE d]
  BY DEF OpenPanel
<1>3. d = <<f>> \o Tail(stack[t])
  <2>1. Tail(stack[t]) \in Seq(FrameType)
    BY <1>1
  <2>2. <<>> \o <<f>> = <<f>>
    OBVIOUS
  <2> QED BY <2>1, <2>2
<1>4. CASE ~stopped
  <2>1. stack' = [stack EXCEPT ![t] = d]
    BY <1>2, <1>4
  <2> QED BY <1>3, <1>4, <2>1 DEF Go
<1>5. CASE stopped
  <2>1. Frame("stop", "enter") \in FrameType
    BY Plain
  <2>2. /\ c \in Seq(FrameType) /\ Len(c) = Len(stack[t]) + 1
        /\ c[1] = Frame("stop", "enter") /\ c[2] = f
        /\ \A i \in 3..Len(stack[t]) + 1 : c[i] = stack[t][i - 1]
    <3>1. /\ Tail(stack[t]) \in Seq(FrameType) /\ Len(Tail(stack[t])) = Len(stack[t]) - 1
          /\ \A i \in 1..Len(stack[t]) - 1 : Tail(stack[t])[i] = stack[t][i + 1]
      BY <1>1
    <3>2. /\ c \in Seq(FrameType) /\ Len(c) = Len(stack[t]) + 1
          /\ c[1] = Frame("stop", "enter") /\ c[2] = f
          /\ \A i \in 3..Len(stack[t]) + 1 : c[i] = Tail(stack[t])[i - 2]
      BY <1>1, <2>1, <3>1, PairIs
    <3> HIDE DEF c
    <3>3. \A i \in 3..Len(stack[t]) + 1 : Tail(stack[t])[i - 2] = stack[t][i - 1]
      BY <1>1, <3>1
    <3> QED BY <3>2, <3>3
  <2>3. stack' = [stack EXCEPT ![t] = c]
    BY <1>2, <1>5
  <2> HIDE DEF c
  <2>4. Stacks' /\ stack'[t] = c
    BY <2>2, <2>3, OthersStay
  <2>5. Depth(t)' = Depth(t) + 1
    BY <2>2, <2>4 DEF Depth
  <2>6. Fr(t, Depth(t))' = Frame("stop", "enter")
    <3>1. Depth(t)' + 1 - Depth(t)' = 1
      BY <1>1, <2>5 DEF Depth
    <3> QED BY <2>2, <2>4, <3>1 DEF Fr
  <2>7. ASSUME NEW k, k = Depth(t)
        PROVE  Fr(t, k)' = f
    <3>1. Depth(t)' + 1 - k = 2
      BY <1>1, <2>5, <2>7 DEF Depth
    <3> QED BY <2>2, <2>4, <3>1 DEF Fr
  <2>8. ASSUME NEW k \in 1..Depth(t) - 1
        PROVE  Fr(t, k)' = Fr(t, k)
    <3>1. /\ Depth(t)' + 1 - k \in 3..Len(stack[t]) + 1
          /\ Depth(t)' + 1 - k - 1 = Depth(t) + 1 - k
      BY <1>1, <2>5, <2>8 DEF Depth
    <3>2. PICK i \in 3..Len(stack[t]) + 1 : i = Depth(t)' + 1 - k
      BY <3>1
    <3>3. Depth(t) + 1 - k = i - 1
      BY <1>1, <2>5, <2>8, <3>2
    <3>4. c[i] = stack[t][i - 1]
      BY <2>2
    <3>5. Fr(t, k)' = c[i] /\ Fr(t, k) = stack[t][i - 1]
      BY <2>4, <3>2, <3>3 DEF Fr
    <3> QED BY <3>4, <3>5
  <2> QED BY <1>5, <2>2, <2>3, <2>4, <2>5, <2>6, <2>7, <2>8, OthersStay DEF Below
<1> QED BY <1>4, <1>5

LEMMA TypedOpenPanel ==
  ASSUME Typed, NEW t \in Thread, NEW s \in Slot, OpenPanel(t, s)
  PROVE  Typed'
<1> SUFFICES ASSUME NEW f, f = [Top(t) EXCEPT !.at = "open", !.screen = None]
             PROVE  Typed'
  OBVIOUS
<1>1. /\ In(t, {"start", "apply"}, "init") /\ Opened(t, s) /\ slots' = slots \cup {s}
      /\ UNCHANGED <<stopped, config, unavailable, thread, held, pushes, signals>>
  BY DEF OpenPanel
<1>2. /\ stack[t] # <<>> /\ Top(t) \in FrameType /\ FrameOK(Top(t))
      /\ Top(t).op \in {"start", "apply"} /\ Top(t).at = "init"
  BY <1>1, InIs DEF Typed, FramesOK
<1>3. /\ f \in FrameType /\ f.op = Top(t).op /\ f.at = "open"
      /\ f.screens = Top(t).screens /\ f.before = Top(t).before
  BY <1>2 DEF FrameType, At
<1>4. FrameOK(f)'
  BY <1>1, <1>2, <1>3 DEF FrameOK, Placed
<1>5. StillOK /\ Top(t).screen \in Screen
  BY <1>1, <1>2, OpenedIs DEF FrameOK
<1>6. Values'
  BY <1>1, <1>5, OpenedIs DEF Typed, Values, thread
<1>7. SlotsShow'
  BY <1>1, <1>5, OpenedIs DEF Typed, Values, SlotsShow
<1>8. CASE ~stopped /\ Go(t, f)
  BY <1>2, <1>3, <1>4, <1>5, <1>6, <1>7, <1>8, Goes DEF Typed
<1>9. CASE /\ stopped /\ Stacks' /\ Depth(t)' = Depth(t) + 1 /\ Below(t, Depth(t) - 1)
           /\ Fr(t, Depth(t))' = Frame("stop", "enter")
           /\ \A k : k = Depth(t) => Fr(t, k)' = f
  <2>1. Depth(t) \in Nat \ {0}
    BY <1>2, StackIs DEF Typed
  <2>2. /\ \A u \in Thread \ {t} : \A k \in Levels(u)' : FrameOK(Fr(u, k))'
        /\ \A k \in 1..Depth(t) - 1 : FrameOK(Fr(t, k))'
    BY <1>5, <1>9, <2>1, OldOnes DEF Typed
  <2>3. ASSUME NEW k \in Levels(t)'
        PROVE  FrameOK(Fr(t, k))'
    <3>1. k = Depth(t)' \/ k = Depth(t) \/ k \in 1..Depth(t) - 1
      BY <1>9, <2>1, <2>3 DEF Levels
    <3>2. FrameOK(Fr(t, Depth(t)))'
      BY <1>9, Plain
    <3>3. k = Depth(t) => FrameOK(Fr(t, k))'
      BY <1>4, <1>9
    <3> QED BY <2>2, <3>1, <3>2, <3>3
  <2> QED BY <1>6, <1>7, <1>9, <2>2, <2>3 DEF Typed, FramesOK
<1> QED BY <1>1, <1>3, <1>8, <1>9, OpenPanelIs DEF Typed

LEMMA TypedStartWorker ==
  ASSUME Typed, NEW t \in Thread, NEW s \in Slot, NEW w \in Worker, StartWorker(t, s, w)
  PROVE  Typed'
<1> SUFFICES ASSUME NEW f, f = [Top(t) EXCEPT !.at = "begun", !.slots = @ \ {s}, !.slot = s, !.worker = w]
             PROVE  Typed'
  OBVIOUS
<1>1. /\ In(t, {"start", "apply"}, "work") /\ Go(t, f)
      /\ Spawn(w, s, lease[s])
      /\ UNCHANGED <<stopped, config, slots, unavailable, slot, live, held, pushes, signals>>
  BY DEF StartWorker
<1>2. /\ stack[t] # <<>> /\ Top(t) \in FrameType /\ FrameOK(Top(t)) /\ t \in Thread
      /\ Top(t).op \in {"start", "apply"} /\ Top(t).at = "work"
  BY <1>1, InIs DEF Typed, FramesOK
<1>3. /\ f \in FrameType /\ f.op = Top(t).op /\ f.at = "begun"
      /\ f.slots \subseteq Top(t).slots /\ f.slot = s /\ f.worker = w
      /\ f.screens = Top(t).screens /\ f.before = Top(t).before
  BY <1>2 DEF FrameType, At
<1>4. FrameOK(f)'
  BY <1>1, <1>2, <1>3 DEF FrameOK, Placed, slot
<1>5. StillOK
  BY <1>1, Same DEF slot
<1>6. Values' /\ SlotsShow'
  BY <1>1, <1>2 DEF Typed, Values, SlotsShow, FrameOK, slot, thread, Spawn
<1> QED BY <1>1, <1>2, <1>3, <1>4, <1>5, <1>6, Goes DEF Typed

LEMMA TypedRecordWorker ==
  ASSUME Typed, NEW t \in Thread, RecordWorker(t)
  PROVE  Typed'
<1> SUFFICES ASSUME NEW f, f = [Top(t) EXCEPT !.at = "work", !.slot = None, !.worker = None]
             PROVE  Typed'
  OBVIOUS
<1>1. /\ In(t, {"start", "apply"}, "begun") /\ Go(t, f)
      /\ worker' = [worker EXCEPT ![Top(t).slot] = Top(t).worker]
      /\ UNCHANGED <<stopped, config, slots, unavailable, screen, issue, lease, restarts,
                     shut, stop, closes, live, thread, held, pushes, signals>>
  BY DEF RecordWorker
<1>2. /\ stack[t] # <<>> /\ Top(t) \in FrameType /\ FrameOK(Top(t)) /\ t \in Thread
      /\ Top(t).op \in {"start", "apply"} /\ Top(t).at = "begun"
  BY <1>1, InIs DEF Typed, FramesOK
<1>3. /\ f \in FrameType /\ f.op = Top(t).op /\ f.at = "work"
      /\ f.slots = Top(t).slots
      /\ f.screens = Top(t).screens /\ f.before = Top(t).before
  BY <1>2 DEF FrameType, At
<1>4. FrameOK(f)'
  BY <1>1, <1>2, <1>3 DEF FrameOK, Placed, slot
<1>5. StillOK
  <2>1. Top(t).slot \in Slot /\ Top(t).worker \in Worker
    BY <1>2 DEF FrameOK
  <2>2. \A s \in Slot : worker[s] # None => worker'[s] # None
    BY <1>1, <2>1, Numbers DEF Typed, Values
  <2> QED BY <1>1, <2>2, StillIs
<1>6. Values' /\ SlotsShow'
  BY <1>1, <1>2 DEF Typed, Values, SlotsShow, FrameOK, slot, thread
<1> QED BY <1>1, <1>2, <1>3, <1>4, <1>5, <1>6, Goes DEF Typed

LEMMA TypedStartFails ==
  ASSUME Typed, NEW t \in Thread, NEW s \in Slot, StartFails(t, s)
  PROVE  Typed'
<1> SUFFICES ASSUME NEW f, f = [Top(t) EXCEPT !.at = "failed", !.slots = @ \ {s}, !.slot = s]
             PROVE  Typed'
  OBVIOUS
<1>1. /\ In(t, {"start", "apply"}, "work") /\ Go(t, f) /\ s \in Top(t).slots
      /\ UNCHANGED rest
  BY DEF StartFails, ToStart, In, rest
<1>2. /\ stack[t] # <<>> /\ Top(t) \in FrameType /\ FrameOK(Top(t)) /\ t \in Thread
      /\ Top(t).op \in {"start", "apply"} /\ Top(t).at = "work"
  BY <1>1, InIs DEF Typed, FramesOK
<1>3. /\ f \in FrameType /\ f.op = Top(t).op /\ f.at = "failed"
      /\ f.slots \subseteq Top(t).slots /\ f.slot = s /\ s \in Top(t).slots
      /\ f.screens = Top(t).screens /\ f.before = Top(t).before
  BY <1>1, <1>2 DEF FrameType, At
<1>4. FrameOK(f)'
  BY <1>1, <1>2, <1>3 DEF FrameOK, Placed, rest, slot
<1> QED BY <1>1, <1>2, <1>3, <1>4, RestStays, Goes DEF Typed

LEMMA TypedJoinRetired ==
  ASSUME Typed, JoinRetired
  PROVE  Typed'
<1> SUFFICES ASSUME NEW f, f = [Top("link") EXCEPT !.at = "pause",
                                                !.slots = HasWorker(Top("link").kept)]
             PROVE  Typed'
  OBVIOUS
<1>1. /\ In("link", {"apply"}, "join") /\ Go("link", f)
      /\ slots' = Top("link").kept /\ unavailable' = {}
      /\ UNCHANGED <<stopped, config, slot, live, thread, held, pushes, signals>>
  BY DEF JoinRetired
<1>2. /\ stack["link"] # <<>> /\ Top("link") \in FrameType /\ FrameOK(Top("link")) /\ "link" \in Thread
      /\ Top("link").op \in {"apply"} /\ Top("link").at = "join"
  BY <1>1, InIs DEF Typed, FramesOK, Thread
<1>3. /\ f \in FrameType /\ f.op = Top("link").op /\ f.at = "pause"
      /\ f.slots = HasWorker(Top("link").kept)
      /\ f.screens = Top("link").screens /\ f.before = Top("link").before
  BY <1>2 DEF FrameType, At, HasWorker
<1>4. FrameOK(f)'
  BY <1>1, <1>2, <1>3 DEF FrameOK, Placed, HasWorker, slot
<1>5. StillOK
  BY <1>1, Same DEF slot
<1>6. Values' /\ SlotsShow'
  <2>1. slots' \subseteq Slot
    BY <1>1, <1>2 DEF FrameType
  <2> QED BY <1>1, <1>2, <2>1 DEF Typed, Values, SlotsShow, FrameOK, slot, thread
<1> QED BY <1>1, <1>2, <1>3, <1>4, <1>5, <1>6, Goes DEF Typed

\* The steps that only return, begin a call, or raise.
LEMMA TypedReturns ==
  ASSUME Typed, NEW t \in Thread, stack[t] # <<>>, Return(t), UNCHANGED rest
  PROVE  Typed'
BY RestStays, Returns DEF Typed

LEMMA TypedRaises ==
  ASSUME Typed, Raise, UNCHANGED rest
  PROVE  Typed'
BY RestStays, Raises DEF Typed

LEMMA TypedSimple ==
  ASSUME Typed, StartReturns \/ Lap \/ Exit \/ TickReturns \/ (\E t \in Thread : StopReturns(t))
  PROVE  Typed'
<1>1. "main" \in Thread
  BY DEF Thread
<1>2. ASSUME NEW t \in Thread, StopReturns(t)
      PROVE  Typed'
  <2>1. stack[t] # <<>> /\ Return(t) /\ UNCHANGED rest
    BY <1>2 DEF StopReturns, In, rest
  <2> QED BY <2>1, TypedReturns
<1>3. CASE StartReturns \/ Exit \/ TickReturns
  <2>1. stack["main"] # <<>> /\ Return("main") /\ UNCHANGED rest
    BY <1>3 DEF StartReturns, Exit, TickReturns, In, rest
  <2> QED BY <1>1, <2>1, TypedReturns
<1>4. CASE Lap
  <2>1. UNCHANGED rest
    BY <1>4 DEF Lap, rest
  <2>2. CASE Raise
    BY <2>1, <2>2, TypedRaises
  <2>3. CASE Call("main", Frame("tick", "enter"))
    BY <1>1, <2>1, <2>3, RestStays, Nests, Plain DEF Typed
  <2> QED BY <1>4, <2>2, <2>3 DEF Lap
<1> QED BY <1>2, <1>3, <1>4

LEMMA TypedStops ==
  ASSUME Typed, NEW t \in Thread, EnterStop(t) \/ JoinAll(t)
  PROVE  Typed'
<1>1. /\ stack[t] # <<>> /\ (\E at \in {"join", "blank"} : Go(t, Frame("stop", at)))
      /\ UNCHANGED <<config, slots, unavailable, screen, issue, lease, worker, restarts, shut,
                     closes, live, thread, held, pushes, signals>>
  BY DEF EnterStop, JoinAll, In, slot
<1>2. stop' \in [Slot -> BOOLEAN] /\ stopped' \in BOOLEAN
  BY DEF EnterStop, JoinAll, Typed, Values, slot
<1>3. Values' /\ SlotsShow'
  BY <1>1, <1>2 DEF Typed, Values, SlotsShow, thread
<1> QED BY <1>1, <1>3, Same, Goes, Plain DEF Typed

LEMMA TypedClaims ==
  ASSUME Typed, NEW t \in Thread, NEW s \in Slot, ClaimPanel(t, s)
  PROVE  Typed'
<1> SUFFICES ASSUME NEW f, f = [Frame("stop", "close") EXCEPT !.slot = s]
             PROVE  Typed'
  OBVIOUS
<1>1. /\ stack[t] # <<>> /\ Go(t, f)
      /\ shut' = [shut EXCEPT ![s] = TRUE] /\ live' = live \ {<<s, lease[s]>>}
      /\ UNCHANGED <<stopped, config, slots, unavailable, screen, issue, lease, worker,
                     restarts, stop, closes, thread, held, pushes, signals>>
  BY DEF ClaimPanel, In
<1>2. f \in FrameType /\ f.op = "stop" /\ f.at = "close" /\ f.slot = s
  <2>1. PICK g \in FrameType : g = Frame("stop", "close") /\ g.op = "stop" /\ g.at = "close"
    BY FrameIs DEF Op, At
  <2>2. f = [g EXCEPT !.slot = s]
    BY <2>1
  <2> QED BY <2>1, <2>2 DEF FrameType
<1>3. FrameOK(f)'
  BY <1>2 DEF FrameOK, Placed
<1>4. Values' /\ SlotsShow'
  BY <1>1 DEF Typed, Values, SlotsShow, thread
<1> QED BY <1>1, <1>2, <1>3, <1>4, Same, Goes DEF Typed

LEMMA TypedCloses ==
  ASSUME Typed, NEW t \in Thread, ClosePanel(t)
  PROVE  Typed'
<1>1. /\ stack[t] # <<>> /\ Go(t, Frame("stop", "blank"))
      /\ closes' = [closes EXCEPT ![Top(t).slot] = @ + 1]
      /\ UNCHANGED <<stopped, config, slots, unavailable, screen, issue, lease, worker,
                     restarts, shut, stop, live, thread, held, pushes, signals>>
  BY DEF ClosePanel, In
<1>2. closes' \in [Slot -> Nat]
  <2>1. FrameOK(Top(t)) /\ Top(t).at = "close"
    BY InIs DEF ClosePanel, Typed, FramesOK
  <2> QED BY <1>1, <2>1 DEF FrameOK, Typed, Values
<1>3. Values' /\ SlotsShow'
  BY <1>1, <1>2 DEF Typed, Values, SlotsShow, thread
<1> QED BY <1>1, <1>3, Same, Goes, Plain DEF Typed

LEMMA TypedEnterTick ==
  ASSUME Typed, EnterTick
  PROVE  Typed'
<1> SUFFICES ASSUME NEW f, f = [Frame("tick", "check") EXCEPT !.slots = slots]
             PROVE  Typed'
  OBVIOUS
<1>1. "main" \in Thread /\ stack["main"] # <<>> /\ UNCHANGED rest /\ (Return("main") \/ Go("main", f))
  BY DEF EnterTick, In, rest, Thread
<1>2. f \in FrameType /\ f.op = "tick" /\ f.at = "check"
  <2>1. PICK g \in FrameType : g = Frame("tick", "check") /\ g.op = "tick" /\ g.at = "check"
    BY FrameIs DEF Op, At
  <2>2. f = [g EXCEPT !.slots = slots]
    BY <2>1
  <2> QED BY <2>1, <2>2 DEF FrameType, Typed, Values
<1>3. FrameOK(f)'
  BY <1>2 DEF FrameOK, Placed
<1> QED BY <1>1, <1>2, <1>3, TypedReturns, RestStays, Goes DEF Typed

LEMMA TypedCalls ==
  ASSUME Typed, Calls
  PROVE  Typed'
<1>1. "main" \in Thread /\ "link" \in Thread
  BY DEF Thread
<1>2. ASSUME NEW C \in Config, Push(C)
      PROVE  Typed'
  <2> SUFFICES ASSUME NEW f, f = [Frame("apply", "enter") EXCEPT !.screens = C]
               PROVE  Typed'
    OBVIOUS
  <2>1. /\ Call("link", f) /\ pushes < MaxPushes /\ pushes' = pushes + 1
        /\ UNCHANGED <<stopped, config, slots, unavailable, slot, live, thread, held, signals>>
    BY <1>2 DEF Push
  <2>2. C \subseteq Screen
    BY ConfigAssumption
  <2>3. f \in FrameType /\ f.op = "apply" /\ f.at = "enter" /\ f.screens = C
    <3>1. PICK g \in FrameType : g = Frame("apply", "enter") /\ g.op = "apply" /\ g.at = "enter"
      BY FrameIs DEF Op, At
    <3>2. f = [g EXCEPT !.screens = C]
      BY <3>1
    <3> QED BY <2>2, <3>1, <3>2 DEF FrameType
  <2>4. FrameOK(f)'
    BY <2>2, <2>3 DEF FrameOK, Placed
  <2>5. StillOK
    BY <2>1, Same DEF slot
  <2>6. Values' /\ SlotsShow'
    BY <2>1, Numbers DEF Typed, Values, SlotsShow, slot, thread
  <2> QED BY <1>1, <2>1, <2>3, <2>4, <2>5, <2>6, Nests DEF Typed
<1>3. ASSUME NEW x \in Candidate, Probe(x)
      PROVE  Typed'
  <2> SUFFICES ASSUME NEW f, f = [Frame("probe", "enter") EXCEPT !.screens = {x}]
               PROVE  Typed'
    OBVIOUS
  <2>1. Call("link", f) /\ UNCHANGED rest
    BY <1>3 DEF Probe, rest
  <2>2. f \in FrameType /\ f.op = "probe" /\ f.at = "enter" /\ f.screens = {x}
    <3>1. PICK g \in FrameType : g = Frame("probe", "enter") /\ g.op = "probe" /\ g.at = "enter"
      BY FrameIs DEF Op, At
    <3>2. f = [g EXCEPT !.screens = {x}]
      BY <3>1
    <3> QED BY <3>1, <3>2 DEF FrameType
  <2>3. FrameOK(f)'
    BY <2>2 DEF FrameOK, Placed
  <2> QED BY <1>1, <2>1, <2>2, <2>3, RestStays, Nests DEF Typed
<1>4. CASE Reclock
  <2>1. Call("link", Frame("stop", "enter")) /\ UNCHANGED rest
    BY <1>4 DEF Reclock, rest
  <2> QED BY <1>1, <2>1, RestStays, Nests, Plain DEF Typed
<1>5. CASE Signal
  <2>1. /\ Call("main", Frame("stop", "enter")) /\ signals < MaxSignals /\ signals' = signals + 1
        /\ UNCHANGED <<stopped, config, slots, unavailable, slot, live, thread, held, pushes>>
    BY <1>5 DEF Signal
  <2>2. StillOK
    BY <2>1, Same DEF slot
  <2>3. Values' /\ SlotsShow'
    BY <2>1, Numbers DEF Typed, Values, SlotsShow, slot, thread
  <2> QED BY <1>1, <2>1, <2>2, <2>3, Nests, Plain DEF Typed
<1> QED BY <1>2, <1>3, <1>4, <1>5 DEF Calls

LEMMA ShutDownTypes ==
  ASSUME Typed, NEW S \in SUBSET Slot, ShutDown(S)
  PROVE  /\ shut' \in [Slot -> BOOLEAN] /\ closes' \in [Slot -> Nat]
         /\ live' \subseteq Slot \X Nat /\ live' \subseteq live
         /\ \A s \in Slot : shut'[s] = (shut[s] \/ s \in S)
         /\ \A s \in S : closes'[s] = closes[s] + 1
         /\ \A s \in Slot \ S : closes'[s] = closes[s]
<1>1. shut' \in [Slot -> BOOLEAN] /\ live' \subseteq Slot \X Nat /\ live' \subseteq live
  BY DEF ShutDown, Typed, Values
<1>2. closes' \in [Slot -> Nat]
  <2>1. \A s \in Slot : closes[s] \in Nat /\ closes[s] + 1 \in Nat
    BY DEF Typed, Values
  <2> QED BY <2>1 DEF ShutDown
<1>3. \A s \in Slot : shut'[s] = (shut[s] \/ s \in S)
  BY DEF ShutDown
<1>4. /\ \A s \in S : closes'[s] = closes[s] + 1
      /\ \A s \in Slot \ S : closes'[s] = closes[s]
  BY DEF ShutDown
<1> QED BY <1>1, <1>2, <1>3, <1>4

LEMMA TypedDropSlot ==
  ASSUME Typed, NEW t \in Thread, DropSlot(t)
  PROVE  Typed'
<1> SUFFICES ASSUME NEW f, f = [Top(t) EXCEPT !.at = "work", !.slot = None]
             PROVE  Typed'
  OBVIOUS
<1>1. /\ In(t, {"start", "apply"}, "failed") /\ ShutDown({Top(t).slot})
      /\ slots' = slots \ {Top(t).slot}
      /\ unavailable' = unavailable \cup {screen[Top(t).slot]}
      /\ (Top(t).op = "start" /\ Raise) \/ Go(t, f)
      /\ UNCHANGED <<stopped, config, screen, issue, lease, worker, restarts, stop, thread,
                     held, pushes, signals>>
  BY DEF DropSlot
<1>2. /\ stack[t] # <<>> /\ Top(t) \in FrameType /\ FrameOK(Top(t))
      /\ Top(t).op \in {"start", "apply"} /\ Top(t).at = "failed"
  BY <1>1, InIs DEF Typed, FramesOK
<1>3. /\ f \in FrameType /\ f.op = Top(t).op /\ f.at = "work" /\ f.slots = Top(t).slots
      /\ f.screens = Top(t).screens /\ f.before = Top(t).before
  BY <1>2 DEF FrameType, At
<1>4. FrameOK(f)'
  BY <1>1, <1>2, <1>3 DEF FrameOK, Placed
<1>5. StillOK /\ Top(t).slot \in Slot /\ screen[Top(t).slot] \in Screen
  BY <1>1, <1>2, Same DEF FrameOK
<1>6. Values' /\ SlotsShow'
  <2>1. shut' \in [Slot -> BOOLEAN] /\ closes' \in [Slot -> Nat] /\ live' \subseteq Slot \X Nat
    BY <1>1, <1>5, ShutDownTypes
  <2> QED BY <1>1, <1>5, <2>1 DEF Typed, Values, SlotsShow, thread
<1> QED BY <1>1, <1>2, <1>3, <1>4, <1>5, <1>6, Goes, Raises DEF Typed

LEMMA TypedReplace ==
  ASSUME Typed, NEW s \in Slot, NEW w \in Worker, Replace(s, w)
  PROVE  Typed'
<1> SUFFICES ASSUME NEW f, f = [Top("main") EXCEPT !.at = "begun", !.slots = @ \ {s}, !.slot = s,
                                                !.worker = w]
             PROVE  Typed'
  OBVIOUS
<1>1. /\ In("main", {"tick"}, "check") /\ Go("main", f)
      /\ Spawn(w, s, lease[s] + 1) /\ restarts[s] < MaxRestarts
      /\ restarts' = [restarts EXCEPT ![s] = @ + 1]
      /\ live' = (live \ {<<s, lease[s]>>}) \cup {<<s, lease[s] + 1>>}
      /\ UNCHANGED <<stopped, config, slots, unavailable, screen, issue, lease, worker, shut,
                     stop, closes, held, pushes, signals>>
  BY DEF Replace
<1>2. /\ stack["main"] # <<>> /\ Top("main") \in FrameType /\ FrameOK(Top("main")) /\ "main" \in Thread
      /\ Top("main").op \in {"tick"} /\ Top("main").at = "check"
  BY <1>1, InIs DEF Typed, FramesOK, Thread
<1>3. /\ f \in FrameType /\ f.op = Top("main").op /\ f.at = "begun"
      /\ f.slot = s /\ f.worker = w /\ f.slots \subseteq Top("main").slots
  BY <1>2 DEF FrameType, At
<1>4. FrameOK(f)'
  BY <1>1, <1>2, <1>3 DEF FrameOK, Placed
<1>5. StillOK
  BY <1>1, Same DEF slot
<1>6. Values' /\ SlotsShow'
  <2>1. restarts' \in [Slot -> 0..MaxRestarts]
    BY <1>1, Numbers DEF Typed, Values
  <2>2. lease[s] + 1 \in Nat
    BY DEF Typed, Values
  <2>3. /\ live' \subseteq Slot \X Nat
        /\ doing' \in [Worker -> {"parked", "ticking", "writing", "done"}]
        /\ on' \in [Worker -> Slot \cup {None}] /\ by' \in [Worker -> Nat]
    BY <1>1, <2>2 DEF Typed, Values, Spawn
  <2> QED BY <1>1, <2>1, <2>3 DEF Typed, Values, SlotsShow
<1> QED BY <1>1, <1>2, <1>3, <1>4, <1>5, <1>6, Goes DEF Typed

LEMMA TypedRecordReplacement ==
  ASSUME Typed, RecordReplacement
  PROVE  Typed'
<1> SUFFICES ASSUME NEW f, f = [Top("main") EXCEPT !.at = "check", !.slot = None, !.worker = None]
             PROVE  Typed'
  OBVIOUS
<1>1. /\ In("main", {"tick"}, "begun") /\ Go("main", f)
      /\ worker' = [worker EXCEPT ![Top("main").slot] = Top("main").worker]
      /\ lease' = [lease EXCEPT ![Top("main").slot] = @ + 1]
      /\ UNCHANGED <<stopped, config, slots, unavailable, screen, issue, restarts, shut,
                     stop, closes, live, thread, held, pushes, signals>>
  BY DEF RecordReplacement
<1>2. /\ stack["main"] # <<>> /\ Top("main") \in FrameType /\ FrameOK(Top("main"))
      /\ "main" \in Thread /\ Top("main").op = "tick" /\ Top("main").at = "begun"
  BY <1>1, InIs DEF Typed, FramesOK, Thread
<1>3. f \in FrameType /\ f.op = "tick" /\ f.at = "check"
  BY <1>2 DEF FrameType, At
<1>4. FrameOK(f)'
  BY <1>3 DEF FrameOK, Placed
<1>5. Top("main").slot \in Slot /\ Top("main").worker \in Worker
  BY <1>2 DEF FrameOK
<1>6. StillOK
  <2>1. \A s \in Slot : worker[s] # None => worker'[s] # None
    BY <1>1, <1>5, Numbers DEF Typed, Values
  <2> QED BY <1>1, <2>1, StillIs
<1>7. Values' /\ SlotsShow'
  <2>1. worker' \in [Slot -> Worker \cup {None}] /\ lease' \in [Slot -> Nat]
    BY <1>1, <1>5 DEF Typed, Values
  <2> QED BY <1>1, <2>1 DEF Typed, Values, SlotsShow, thread
<1> QED BY <1>1, <1>2, <1>3, <1>4, <1>6, <1>7, Goes DEF Typed

LEMMA TypedReplaceFails ==
  ASSUME Typed, NEW s \in Slot, ReplaceFails(s)
  PROVE  Typed'
<1>1. /\ Raise /\ restarts[s] < MaxRestarts /\ restarts' = [restarts EXCEPT ![s] = @ + 1]
      /\ live' \subseteq live
      /\ UNCHANGED <<stopped, config, slots, unavailable, screen, issue, lease, worker, shut,
                     stop, closes, thread, held, pushes, signals>>
  BY DEF ReplaceFails
<1>2. Values' /\ SlotsShow'
  BY <1>1, Numbers DEF Typed, Values, SlotsShow, thread
<1> QED BY <1>1, <1>2, Same, Raises DEF Typed

LEMMA TypedPause ==
  ASSUME Typed, NEW s \in Slot, Pause(s)
  PROVE  Typed'
<1> SUFFICES ASSUME NEW f, f = [Top("link") EXCEPT !.slots = @ \ {s}]
             PROVE  Typed'
  OBVIOUS
<1>1. /\ In("link", {"apply", "probe"}, "pause") /\ Go("link", f)
      /\ s \in Top("link").slots /\ held' = held \cup {worker[s]}
      /\ UNCHANGED <<stopped, config, slots, unavailable, slot, live, thread, pushes, signals>>
  BY DEF Pause
<1>2. /\ stack["link"] # <<>> /\ Top("link") \in FrameType /\ FrameOK(Top("link"))
      /\ "link" \in Thread /\ Top("link").op \in {"apply", "probe"} /\ Top("link").at = "pause"
  BY <1>1, InIs DEF Typed, FramesOK, Thread
<1>3. /\ f \in FrameType /\ f.op = Top("link").op /\ f.at = "pause"
      /\ f.slots \subseteq Top("link").slots
      /\ f.screens = Top("link").screens /\ f.before = Top("link").before
  BY <1>2 DEF FrameType
<1>4. FrameOK(f)'
  BY <1>1, <1>2, <1>3 DEF FrameOK, Placed, slot
<1>5. StillOK
  BY <1>1, Same DEF slot
<1>6. Values' /\ SlotsShow'
  <2>1. worker[s] \in Worker
    BY <1>1, <1>2 DEF FrameOK, Typed, Values
  <2> QED BY <1>1, <2>1 DEF Typed, Values, SlotsShow, slot, thread
<1> QED BY <1>1, <1>2, <1>3, <1>4, <1>5, <1>6, Goes DEF Typed

LEMMA TypedPauseFails ==
  ASSUME Typed, NEW s \in Slot, PauseFails(s)
  PROVE  Typed'
<1> SUFFICES ASSUME NEW f, f = [Top("link") EXCEPT !.slots = @ \ {s},
                                                !.buses = @ \cup {BusOf(screen[s])}]
             PROVE  Typed'
  OBVIOUS
<1>1. /\ In("link", {"apply", "probe"}, "pause") /\ Go("link", f)
      /\ s \in Top("link").slots /\ UNCHANGED rest
  BY DEF PauseFails, rest
<1>2. /\ stack["link"] # <<>> /\ Top("link") \in FrameType /\ FrameOK(Top("link"))
      /\ "link" \in Thread /\ Top("link").op \in {"apply", "probe"} /\ Top("link").at = "pause"
  BY <1>1, InIs DEF Typed, FramesOK, Thread
<1>3. BusOf(screen[s]) \in {d[1] : d \in Device}
  BY <1>1, <1>2 DEF FrameOK, Screen, BusOf
<1>4. /\ f \in FrameType /\ f.op = Top("link").op /\ f.at = "pause"
      /\ f.slots \subseteq Top("link").slots
      /\ f.screens = Top("link").screens /\ f.before = Top("link").before
  BY <1>2, <1>3 DEF FrameType
<1>5. FrameOK(f)'
  BY <1>1, <1>2, <1>4 DEF FrameOK, Placed, slot, rest
<1> QED BY <1>1, <1>2, <1>4, <1>5, RestStays, Goes DEF Typed

LEMMA TypedBlankRetired ==
  ASSUME Typed, BlankRetired
  PROVE  Typed'
<1> SUFFICES ASSUME NEW f, f = [Top("link") EXCEPT !.at = "open", !.retired = {}]
             PROVE  Typed'
  OBVIOUS
<1>1. /\ In("link", {"apply"}, "pause") /\ Go("link", f) /\ ShutDown(Top("link").retired)
      /\ UNCHANGED <<stopped, config, slots, unavailable, screen, issue, lease, worker,
                     restarts, stop, thread, held, pushes, signals>>
  BY DEF BlankRetired
<1>2. /\ stack["link"] # <<>> /\ Top("link") \in FrameType /\ FrameOK(Top("link"))
      /\ "link" \in Thread /\ Top("link").op = "apply" /\ Top("link").at = "pause"
  BY <1>1, InIs DEF Typed, FramesOK, Thread
<1>3. /\ f \in FrameType /\ f.op = "apply" /\ f.at = "open"
      /\ f.screens = Top("link").screens /\ f.before = Top("link").before
      /\ Top("link").retired \in SUBSET Slot
  BY <1>2 DEF FrameType, At
<1>4. FrameOK(f)'
  BY <1>1, <1>2, <1>3 DEF FrameOK, Placed
<1>5. shut' \in [Slot -> BOOLEAN] /\ closes' \in [Slot -> Nat] /\ live' \subseteq Slot \X Nat
  BY <1>1, <1>3, ShutDownTypes
<1>6. Values' /\ SlotsShow'
  BY <1>1, <1>5 DEF Typed, Values, SlotsShow, thread
<1> QED BY <1>1, <1>2, <1>3, <1>4, <1>6, Same, Goes DEF Typed

LEMMA TypedEnterApply ==
  ASSUME Typed, EnterApply
  PROVE  Typed'
<1> DEFINE C == Top("link").screens
           kept == Keeps(C)
           retired == slots \ kept
           fresh == C \ {screen[s] : s \in kept}
<1>1. /\ In("link", {"apply"}, "enter")
      /\ UNCHANGED <<stopped, slots, unavailable, screen, lease, worker, restarts, shut,
                     closes, thread, held, pushes, signals>>
  BY DEF EnterApply
<1>2. /\ stack["link"] # <<>> /\ Top("link") \in FrameType /\ FrameOK(Top("link"))
      /\ "link" \in Thread /\ Top("link").op = "apply" /\ Top("link").at = "enter"
  BY <1>1, InIs DEF Typed, FramesOK, Thread
<1>3. C \subseteq Screen /\ kept \subseteq slots /\ retired \subseteq slots /\ fresh \subseteq Screen
  BY <1>2 DEF FrameOK, Keeps
<1>4. slots \subseteq Slot /\ config \in Settings /\ pushes \in Nat
  BY Numbers DEF Typed, Values
<1>5. StillOK
  BY <1>1, Same
<1>6. CASE Return("link") /\ UNCHANGED <<config, issue, live, stop>>
  <2>1. UNCHANGED rest
    BY <1>1, <1>6 DEF rest, slot
  <2> QED BY <1>2, <1>6, <2>1, TypedReturns
<1>7. CASE /\ config' = [screens |-> C, issue |-> pushes]
           /\ issue' = [s \in Slot |-> IF s \in kept THEN pushes ELSE issue[s]]
           /\ live' = {l \in live : \A s \in retired : l # <<s, lease[s]>>}
           /\ stop' = [s \in Slot |-> stop[s] \/ s \in retired]
           /\ \/ Return("link")
              \/ Go("link", [Frame("apply", "join") EXCEPT !.screens = fresh, !.kept = kept,
                                !.retired = retired, !.before = config])
  <2>1. config' \in Settings
    BY <1>3, <1>4, <1>7 DEF Settings
  <2>2. issue' \in [Slot -> Nat] /\ stop' \in [Slot -> BOOLEAN] /\ live' \subseteq Slot \X Nat
    BY <1>4, <1>7 DEF Typed, Values
  <2>3. Values' /\ SlotsShow'
    BY <1>1, <2>1, <2>2 DEF Typed, Values, SlotsShow, thread
  <2>4. CASE Return("link")
    BY <1>2, <1>5, <2>3, <2>4, Returns DEF Typed
  <2>5. ASSUME NEW f, f = [Frame("apply", "join") EXCEPT !.screens = fresh, !.kept = kept,
                             !.retired = retired, !.before = config],
               Go("link", f)
        PROVE  Typed'
    <3>1. PICK g \in FrameType : /\ g = Frame("apply", "join") /\ g.op = "apply" /\ g.at = "join"
                                 /\ g.slots = {}
      BY FrameIs DEF Op, At
    <3>2. /\ f \in FrameType /\ f.op = "apply" /\ f.at = "join" /\ f.screens = fresh
          /\ f.kept = kept /\ f.before = config
      <4> HIDE DEF C, kept, retired, fresh
      <4> QED BY <1>3, <1>4, <2>5, <3>1 DEF FrameType
    <3>3. \A s \in kept : screen[s] \in Screen
      BY <1>3 DEF Typed, SlotsShow
    <3>4. FrameOK(f)'
      BY <1>1, <1>3, <1>4, <3>2, <3>3 DEF FrameOK, Placed
    <3> QED BY <1>2, <1>5, <2>3, <2>5, <3>2, <3>4, Goes DEF Typed
  <2> QED BY <1>7, <2>4, <2>5
<1> QED BY <1>6, <1>7 DEF EnterApply

LEMMA TypedApplyReturns ==
  ASSUME Typed, ApplyReturns
  PROVE  Typed'
<1>1. /\ In("link", {"apply"}, "work") /\ Return("link")
      /\ config' \in {config, Top("link").before}
      /\ UNCHANGED <<stopped, slots, unavailable, slot, live, thread, held, pushes, signals>>
  BY DEF ApplyReturns
<1>2. stack["link"] # <<>> /\ "link" \in Thread /\ Top("link").before \in Settings
  <2>1. /\ FrameOK(Top("link")) /\ Top("link").op = "apply" /\ Top("link").at = "work"
        /\ stack["link"] # <<>> /\ "link" \in Thread
    BY <1>1, InIs DEF Typed, FramesOK, Thread
  <2> QED BY <2>1 DEF FrameOK
<1>3. StillOK
  BY <1>1, Same DEF slot
<1>4. Values' /\ SlotsShow'
  BY <1>1, <1>2 DEF Typed, Values, SlotsShow, slot, thread
<1> QED BY <1>1, <1>2, <1>3, <1>4, Returns DEF Typed

LEMMA TypedEnterProbe ==
  ASSUME Typed, EnterProbe
  PROVE  Typed'
<1> SUFFICES ASSUME NEW f, f = [Top("link") EXCEPT !.at = "pause", !.slots = HasWorker(slots)]
             PROVE  Typed'
  OBVIOUS
<1>1. In("link", {"probe"}, "enter") /\ UNCHANGED rest /\ (Return("link") \/ Go("link", f))
  BY DEF EnterProbe, rest
<1>2. /\ stack["link"] # <<>> /\ Top("link") \in FrameType /\ FrameOK(Top("link"))
      /\ "link" \in Thread /\ Top("link").op = "probe" /\ Top("link").at = "enter"
  BY <1>1, InIs DEF Typed, FramesOK, Thread
<1>3. /\ f \in FrameType /\ f.op = "probe" /\ f.at = "pause" /\ f.slots = HasWorker(slots)
      /\ f.screens = Top("link").screens
  BY <1>2 DEF FrameType, At, HasWorker, Typed, Values
<1>4. FrameOK(f)'
  BY <1>1, <1>2, <1>3 DEF FrameOK, Placed, HasWorker, Typed, SlotsShow, rest, slot
<1> QED BY <1>1, <1>2, <1>3, <1>4, TypedReturns, RestStays, Goes DEF Typed

LEMMA TypedProbePaused ==
  ASSUME Typed, ProbePaused
  PROVE  Typed'
<1> SUFFICES ASSUME NEW f, f = [Top("link") EXCEPT !.at = "open"]
             PROVE  Typed'
  OBVIOUS
<1>1. /\ In("link", {"probe"}, "pause") /\ held' \in {held, {}} /\ (Return("link") \/ Go("link", f))
      /\ UNCHANGED <<stopped, config, slots, unavailable, slot, live, thread, pushes, signals>>
  BY DEF ProbePaused
<1>2. /\ stack["link"] # <<>> /\ Top("link") \in FrameType /\ FrameOK(Top("link"))
      /\ "link" \in Thread /\ Top("link").op = "probe" /\ Top("link").at = "pause"
  BY <1>1, InIs DEF Typed, FramesOK, Thread
<1>3. f \in FrameType /\ f.op = "probe" /\ f.at = "open" /\ f.screens = Top("link").screens
  BY <1>2 DEF FrameType, At
<1>4. FrameOK(f)'
  BY <1>2, <1>3 DEF FrameOK, Placed
<1>5. StillOK
  BY <1>1, Same DEF slot
<1>6. Values' /\ SlotsShow'
  BY <1>1 DEF Typed, Values, SlotsShow, slot, thread
<1> QED BY <1>1, <1>2, <1>3, <1>4, <1>5, <1>6, Goes, Returns DEF Typed

LEMMA TypedProbeLights ==
  ASSUME Typed, NEW s \in Slot, ProbeLights(s)
  PROVE  Typed'
<1> SUFFICES ASSUME NEW f, f = [Top("link") EXCEPT !.at = "lit", !.slot = s]
             PROVE  Typed'
  OBVIOUS
<1>1. /\ In("link", {"probe"}, "init") /\ Go("link", f) /\ Opened("link", s)
      /\ UNCHANGED <<stopped, config, slots, unavailable, thread, held, pushes, signals>>
  BY DEF ProbeLights
<1>2. /\ stack["link"] # <<>> /\ Top("link") \in FrameType /\ FrameOK(Top("link"))
      /\ "link" \in Thread /\ Top("link").op = "probe" /\ Top("link").at = "init"
  BY <1>1, InIs DEF Typed, FramesOK, Thread
<1>3. /\ f \in FrameType /\ f.op = "probe" /\ f.at = "lit" /\ f.slot = s
      /\ f.screens = Top("link").screens
  BY <1>2 DEF FrameType, At
<1>4. FrameOK(f)'
  BY <1>2, <1>3 DEF FrameOK, Placed
<1>5. StillOK /\ Top("link").screen \in Candidate /\ s \notin slots
  BY <1>1, <1>2, OpenedIs, VacantIs DEF FrameOK, Typed
<1>6. Values'
  BY <1>1, <1>2, <1>5, OpenedIs DEF Typed, Values, thread
<1>7. SlotsShow'
  <2>1. \A o \in slots : o \in Slot \ {s}
    BY <1>5 DEF Typed, Values
  <2>2. \A o \in Slot \ {s} : screen'[o] = screen[o]
    BY <1>1, <1>2, OpenedIs
  <2> QED BY <1>1, <2>1, <2>2 DEF Typed, SlotsShow
<1> QED BY <1>1, <1>2, <1>3, <1>4, <1>5, <1>6, <1>7, Goes DEF Typed

LEMMA TypedProbeReturns ==
  ASSUME Typed, ProbeReturns
  PROVE  Typed'
<1> SUFFICES ASSUME NEW S, S = IF Top("link").at = "lit" THEN {Top("link").slot} ELSE {}
             PROVE  Typed'
  OBVIOUS
<1>1. /\ In("link", {"probe"}, "init") \/ In("link", {"probe"}, "lit")
      /\ ShutDown(S) /\ held' = {} /\ Return("link")
      /\ UNCHANGED <<stopped, config, slots, unavailable, screen, issue, lease, worker,
                     restarts, stop, thread, pushes, signals>>
  BY DEF ProbeReturns
<1>2. stack["link"] # <<>> /\ FrameOK(Top("link")) /\ "link" \in Thread
  BY <1>1, InIs DEF Typed, FramesOK, Thread
<1>3. S \in SUBSET Slot
  BY <1>2 DEF FrameOK
<1>4. Values' /\ SlotsShow'
  BY <1>1, <1>3, ShutDownTypes DEF Typed, Values, SlotsShow, thread
<1> QED BY <1>1, <1>2, <1>4, Same, Returns DEF Typed

LEMMA TypeStep ==
  ASSUME Typed, Next
  PROVE  Typed'
<1>1. CASE \E w \in Worker : Drawing(w)
  BY <1>1, TypedDrawing
<1>2. CASE \E t \in Thread : Opening(t)
  BY <1>2, TypedBeginOpen, TypedSkipOpen, TypedOpenFails, TypedOpensDone, TypedOpenPanel,
     TypedStartFails, TypedStartWorker, TypedRecordWorker, TypedDropSlot DEF Opening
<1>3. CASE \E t \in Thread : Stopping(t)
  BY <1>3, TypedStops, TypedClaims, TypedCloses, TypedSimple DEF Stopping
<1>4. CASE Main
  BY <1>4, TypedSimple, TypedEnterTick, TypedRecordReplacement, TypedReplaceFails, TypedReplace
  DEF Main
<1>5. CASE Link
  BY <1>5, TypedEnterApply, TypedJoinRetired, TypedBlankRetired, TypedApplyReturns,
     TypedEnterProbe, TypedProbePaused, TypedProbeReturns, TypedPause, TypedPauseFails,
     TypedProbeLights DEF Link
<1>6. CASE Calls
  BY <1>6, TypedCalls
<1> QED BY <1>1, <1>2, <1>3, <1>4, <1>5, <1>6 DEF Next

LEMMA TypedInit ==
  ASSUME Init
  PROVE  Typed
<1>1. PICK C \in Boot :
        /\ config = [screens |-> C, issue |-> 0]
        /\ stack = [t \in Thread |->
                      IF t = "main"
                        THEN <<[Frame("start", "open") EXCEPT !.screens = C], Frame("run", "loop")>>
                        ELSE <<>>]
  BY DEF Init
<1>2. C \subseteq Screen
  BY ConfigAssumption
<1> SUFFICES ASSUME NEW f, f = [Frame("start", "open") EXCEPT !.screens = C],
                    NEW g, g = Frame("run", "loop")
             PROVE  Typed
  OBVIOUS
<1>3. f \in FrameType /\ f.op = "start" /\ f.at = "open" /\ f.screens = C
  <2>1. PICK h \in FrameType : h = Frame("start", "open") /\ h.op = "start" /\ h.at = "open"
    BY FrameIs DEF Op, At
  <2>2. f = [h EXCEPT !.screens = C]
    BY <2>1
  <2> QED BY <1>2, <2>1, <2>2 DEF FrameType
<1>4. g \in FrameType /\ g.op = "run" /\ g.at = "loop"
  BY FrameIs DEF Op, At
<1>5. FrameOK(f) /\ FrameOK(g)
  BY <1>2, <1>3, <1>4 DEF FrameOK, Placed
<1>6. stack = [t \in Thread |-> IF t = "main" THEN <<f, g>> ELSE <<>>]
  BY <1>1
<1>7. <<f, g>> \in Seq(FrameType) /\ Len(<<f, g>>) = 2 /\ <<f, g>>[1] = f /\ <<f, g>>[2] = g
  BY <1>3, <1>4
<1>8. Stacks
  BY <1>6, <1>7 DEF Stacks
<1>9. FramesOK
  <2>1. ASSUME NEW t \in Thread, NEW k \in Levels(t)
        PROVE  FrameOK(Fr(t, k))
    <3>1. stack[t] = IF t = "main" THEN <<f, g>> ELSE <<>>
      BY <1>6
    <3>2. t = "main" /\ k \in 1..2 /\ Depth(t) = 2
      BY <1>7, <2>1, <3>1 DEF Levels, Depth
    <3>3. Fr(t, k) = f \/ Fr(t, k) = g
      BY <1>7, <3>1, <3>2 DEF Fr
    <3> QED BY <1>5, <3>3
  <2> QED BY <2>1 DEF FramesOK
<1>10. Values
  <2>1. config \in Settings
    BY <1>1, <1>2 DEF Settings
  <2>2. pushes \in 0..MaxPushes /\ signals \in 0..MaxSignals /\ restarts \in [Slot -> 0..MaxRestarts]
    BY Numbers DEF Init
  <2> QED BY <2>1, <2>2 DEF Init, Values
<1>11. SlotsShow
  BY DEF Init, SlotsShow
<1> QED BY <1>8, <1>9, <1>10, <1>11 DEF Typed

LEMMA TypedTypeOK ==
  ASSUME Typed
  PROVE  TypeOK
<1>1. ASSUME NEW t \in Thread, NEW i \in DOMAIN stack[t]
      PROVE  IsFrame(stack[t][i])
  <2>1. stack[t][i] \in FrameType
    BY <1>1 DEF Typed, Stacks
  <2> QED BY <2>1 DEF FrameType, IsFrame
<1>2. DOMAIN stack = Thread
  BY DEF Typed, Stacks
<1> QED BY <1>1, <1>2 DEF TypeOK, Typed, Values

LEMMA TypesStay == Typed /\ [Next]_vars => Typed'
<1>1. ASSUME Typed, UNCHANGED vars
      PROVE  Typed'
  <2>1. /\ UNCHANGED rest
        /\ stack' = stack
    BY <1>1 DEF vars, rest
  <2>2. \A t \in Thread : Depth(t)' = Depth(t) /\ Levels(t)' = Levels(t)
                          /\ \A k \in Levels(t) : Fr(t, k)' = Fr(t, k)
    BY <2>1 DEF Depth, Levels, Fr
  <2>3. UNCHANGED <<screen, worker>>
    BY <2>1 DEF rest, slot
  <2>4. ASSUME NEW f, FrameOK(f)
        PROVE  FrameOK(f)'
    BY <2>3, <2>4 DEF FrameOK
  <2>5. ASSUME NEW t \in Thread, NEW k \in Levels(t)
        PROVE  FrameOK(Fr(t, k))'
    BY <1>1, <2>2, <2>4, <2>5 DEF Typed, FramesOK
  <2> QED BY <1>1, <2>1, <2>2, <2>5, RestStays DEF Typed, Stacks, FramesOK
<1> QED BY <1>1, TypeStep

\* Every variable keeps its type and every call's locals are screens, slots and
\* workers, whatever the stacks of both threads hold: what a call has in hand
\* is still there when the calls made on top of it return.
THEOREM TypeCorrect == Spec => []TypeOK
<1>1. Init => Typed
  BY TypedInit
<1>2. Typed => TypeOK
  BY TypedTypeOK
<1> QED BY <1>1, <1>2, TypesStay, PTL DEF Spec

-----------------------------------------------------------------------------
(* What the threads are in the middle of.                                  *)

\* The outermost call that is not run_forever.
MainCall == Fr("main", 2)
LinkCall == Fr("link", 1)

\* Who calls what: the main thread start() or tick() under run_forever, the link
\* thread one method at a time, and anything can be under a stop().
MainShape ==
  /\ Depth("main") >= 1 => Fr("main", 1).op = "run"
  /\ Depth("main") >= 2 => MainCall.op \in {"start", "tick", "stop"}
  /\ Depth("main") >= 2 /\ Fr("main", 1).at = "over" => MainCall.op = "stop"
  /\ \A k \in Levels("main") : k >= 3 => Fr("main", k).op = "stop"
LinkShape ==
  /\ Depth("link") <= 1
  /\ Depth("link") = 1 => LinkCall.op \in {"apply", "probe", "stop"}

\* The call of another method than stop() that a thread is in, if it is in one.
Idle == Frame("run", "loop")
Work(t) ==
  IF t = "main" THEN IF Depth("main") >= 2 /\ MainCall.op # "stop" THEN MainCall ELSE Idle
                ELSE IF Depth("link") >= 1 /\ LinkCall.op # "stop" THEN LinkCall ELSE Idle

\* A stop() that has the lock, and one that has claimed slot s.
InStop(t, k) == k \in Levels(t) /\ Fr(t, k).op = "stop" /\ Fr(t, k).at # "enter"
Claims(t, k, s) == InStop(t, k) /\ Fr(t, k).at = "close" /\ Fr(t, k).slot = s

\* The rack is down, or has nothing left to do but end.
Ended == Depth("main") = 0 \/ (Depth("main") = 1 /\ Fr("main", 1).at = "over")

\* run_forever has not left its loop; start() and tick() are called in it.
Looping == Depth("main") >= 1 /\ Fr("main", 1).at = "loop"

SameStops(t) ==
  \A k \in Nat : /\ InStop(t, k)' <=> InStop(t, k)
                 /\ \A s \in Slot : Claims(t, k, s)' <=> Claims(t, k, s)

\* A step in which t's work goes on, to f, and every stop() stays where it is.
Moves(t) ==
  /\ Stacks' /\ MainShape' /\ LinkShape'
  /\ \A u \in Thread \ {t} : Work(u)' = Work(u)
  /\ \A u \in Thread : SameStops(u)
  /\ Ended' => Ended
  /\ Looping' => Looping
Moved(t, f) == Moves(t) /\ Work(t)' = f

Untouched(t) == Depth(t)' = Depth(t) /\ \A k \in Levels(t) : Fr(t, k)' = Fr(t, k)

LEMMA UntouchedIs ==
  ASSUME Stacks, NEW t \in Thread, Untouched(t)
  PROVE  /\ Work(t)' = Work(t) /\ SameStops(t)
         /\ t = "main" => (MainShape => MainShape') /\ (Ended' <=> Ended) /\ (Looping' <=> Looping)
         /\ t = "link" => (LinkShape => LinkShape')
<1>1. Depth(t) \in Nat /\ Levels(t)' = Levels(t) /\ Levels(t) = 1..Depth(t)
  BY StackIs DEF Untouched, Levels
<1>2. SameStops(t)
  BY <1>1 DEF Untouched, SameStops, InStop, Claims
<1>3. CASE t = "main"
  <2>1. /\ Depth("main") >= 1 => Fr("main", 1)' = Fr("main", 1)
        /\ Depth("main") >= 2 => MainCall' = MainCall
    BY <1>1, <1>3 DEF Untouched, MainCall
  <2>2. Work(t)' = Work(t)
    BY <1>1, <1>3, <2>1 DEF Untouched, Work
  <2>3. (Ended' <=> Ended) /\ (Looping' <=> Looping)
    BY <1>1, <1>3, <2>1 DEF Untouched, Ended, Looping
  <2>4. MainShape => MainShape'
    BY <1>1, <1>3, <2>1 DEF Untouched, MainShape
  <2> QED BY <1>2, <1>3, <2>2, <2>3, <2>4
<1>4. CASE t = "link"
  <2>1. Depth("link") >= 1 => LinkCall' = LinkCall
    BY <1>1, <1>4 DEF Untouched, LinkCall
  <2>2. Work(t)' = Work(t)
    BY <1>1, <1>4, <2>1 DEF Untouched, Work
  <2>3. LinkShape => LinkShape'
    BY <1>1, <1>4, <2>1 DEF Untouched, LinkShape
  <2> QED BY <1>2, <1>4, <2>2, <2>3
<1> QED BY <1>3, <1>4 DEF Thread

\* A call of a method that is not stop() or run_forever is its thread's work.
LEMMA WorkIs ==
  ASSUME Stacks, MainShape, LinkShape, NEW t \in Thread, NEW ops, NEW at, In(t, ops, at),
         ops \subseteq {"start", "tick", "apply", "probe"}
  PROVE  /\ Top(t) = Work(t) /\ Work(t).op \in ops /\ Work(t).at = at /\ Work(t) \in FrameType
         /\ t = "main" => Depth(t) = 2 /\ Work(t) = MainCall /\ Work(t).op \in {"start", "tick"}
         /\ t = "link" => Depth(t) = 1 /\ Work(t) = LinkCall /\ Work(t).op \in {"apply", "probe"}
<1>1. /\ Depth(t) \in Levels(t) /\ Depth(t) \in Nat /\ Top(t) = Fr(t, Depth(t))
      /\ Top(t) \in FrameType /\ Top(t).op \in ops /\ Top(t).at = at
      /\ Top(t).op # "stop" /\ Top(t).op # "run"
  BY InIs
<1>2. CASE t = "main"
  <2>1. Depth("main") = 2
    BY <1>1, <1>2 DEF MainShape, Levels
  <2> QED BY <1>1, <1>2, <2>1 DEF MainShape, Work, MainCall
<1>3. CASE t = "link"
  <2>1. Depth("link") = 1
    BY <1>1, <1>3 DEF LinkShape, Levels
  <2> QED BY <1>1, <1>3, <2>1 DEF LinkShape, Work, LinkCall
<1> QED BY <1>2, <1>3 DEF Thread

LEMMA WorkGoes ==
  ASSUME Stacks, MainShape, LinkShape, NEW t \in Thread, NEW ops, NEW at, In(t, ops, at),
         ops \subseteq {"start", "tick", "apply", "probe"},
         NEW f \in FrameType, f.op = Top(t).op, Go(t, f)
  PROVE  Moved(t, f)
<1>1. /\ Stacks' /\ Depth(t)' = Depth(t) /\ Fr(t, Depth(t))' = f /\ Below(t, Depth(t) - 1)
  BY InIs, GoIs
<1>2. \A u \in Thread \ {t} : Untouched(u)
  BY <1>1 DEF Below, Untouched
<1>3. f.op \in ops /\ Top(t) = Work(t) /\ f.op # "stop" /\ Work(t).op # "stop"
  BY WorkIs
<1>4. CASE t = "main"
  <2>1. Depth("main") = 2 /\ Work("main") = MainCall /\ Work("main").op \in {"start", "tick"}
    BY <1>4, WorkIs
  <2>2. Depth("main")' = 2 /\ MainCall' = f /\ Fr("main", 1)' = Fr("main", 1)
    BY <1>1, <1>4, <2>1 DEF Below, MainCall
  <2>3. MainShape' /\ Work("main")' = f /\ (Ended' => Ended) /\ (Looping' => Looping)
    BY <1>3, <1>4, <2>1, <2>2 DEF MainShape, Work, Ended, Looping, Levels
  <2>4. SameStops("main")
    <3>1. Levels("main") = 1..2 /\ Levels("main")' = 1..2 /\ Fr("main", 1).op = "run"
      BY <2>1, <2>2 DEF Levels, MainShape
    <3>2. \A k \in Nat : ~InStop("main", k)
      BY <1>3, <1>4, <2>1, <3>1 DEF InStop, MainCall
    <3>3. \A k \in Nat : ~InStop("main", k)'
      BY <1>3, <1>4, <2>2, <3>1 DEF InStop, MainCall
    <3> QED BY <3>2, <3>3 DEF SameStops, Claims
  <2> QED BY <1>1, <1>2, <1>4, <2>3, <2>4, UntouchedIs DEF Moved, Moves, Thread
<1>5. CASE t = "link"
  <2>1. Depth("link") = 1 /\ Work("link") = LinkCall /\ Work("link").op \in {"apply", "probe"}
    BY <1>5, WorkIs
  <2>2. Depth("link")' = 1 /\ LinkCall' = f
    BY <1>1, <1>5, <2>1 DEF LinkCall
  <2>3. LinkShape' /\ Work("link")' = f
    BY <1>3, <1>5, <2>1, <2>2 DEF LinkShape, Work
  <2>4. SameStops("link")
    <3>1. Levels("link") = 1..1 /\ Levels("link")' = 1..1
      BY <2>1, <2>2 DEF Levels
    <3>2. \A k \in Nat : ~InStop("link", k)
      BY <1>3, <1>5, <2>1, <3>1 DEF InStop, LinkCall
    <3>3. \A k \in Nat : ~InStop("link", k)'
      BY <1>3, <1>5, <2>2, <3>1 DEF InStop, LinkCall
    <3> QED BY <3>2, <3>3 DEF SameStops, Claims
  <2> QED BY <1>1, <1>2, <1>5, <2>3, <2>4, UntouchedIs DEF Moved, Moves, Thread
<1> QED BY <1>4, <1>5 DEF Thread

LEMMA WorkReturns ==
  ASSUME Stacks, MainShape, LinkShape, NEW t \in Thread, NEW ops, NEW at, In(t, ops, at),
         ops \subseteq {"start", "tick", "apply", "probe"}, FramesOK, Return(t)
  PROVE  Moved(t, Idle)
<1>1. /\ Stacks' /\ Depth(t)' = Depth(t) - 1 /\ Below(t, Depth(t) - 1)
  BY InIs, ReturnIs
<1>2. \A u \in Thread \ {t} : Untouched(u)
  BY <1>1 DEF Below, Untouched
<1>3. Work(t).op # "stop"
  BY WorkIs
<1>4. CASE t = "main"
  <2>1. Depth("main") = 2 /\ Work("main") = MainCall /\ Work("main").op \in {"start", "tick"}
    BY <1>4, WorkIs
  <2>2. Depth("main")' = 1 /\ Fr("main", 1)' = Fr("main", 1)
    BY <1>1, <1>4, <2>1 DEF Below
  <2>3. MainShape' /\ Work("main")' = Idle /\ ~Ended' /\ (Looping' => Looping)
    BY <1>4, <2>1, <2>2 DEF MainShape, Work, Ended, Looping, Levels
  <2>4. SameStops("main")
    <3>1. Levels("main") = 1..2 /\ Levels("main")' = 1..1 /\ Fr("main", 1).op = "run"
      BY <2>1, <2>2 DEF Levels, MainShape
    <3>2. \A k \in Nat : ~InStop("main", k)
      BY <1>3, <1>4, <2>1, <3>1 DEF InStop, MainCall
    <3>3. \A k \in Nat : ~InStop("main", k)'
      BY <2>2, <3>1 DEF InStop
    <3> QED BY <3>2, <3>3 DEF SameStops, Claims
  <2> QED BY <1>1, <1>2, <1>4, <2>3, <2>4, UntouchedIs DEF Moved, Moves, Thread
<1>5. CASE t = "link"
  <2>1. Depth("link") = 1 /\ Work("link") = LinkCall /\ Work("link").op \in {"apply", "probe"}
    BY <1>5, WorkIs
  <2>2. Depth("link")' = 0
    BY <1>1, <1>5, <2>1
  <2>3. LinkShape' /\ Work("link")' = Idle
    BY <1>5, <2>2 DEF LinkShape, Work
  <2>4. SameStops("link")
    <3>1. Levels("link") = 1..1 /\ Levels("link")' = {}
      BY <2>1, <2>2 DEF Levels
    <3>2. \A k \in Nat : ~InStop("link", k)
      BY <1>3, <1>5, <2>1, <3>1 DEF InStop, LinkCall
    <3>3. \A k \in Nat : ~InStop("link", k)'
      BY <3>1 DEF InStop
    <3> QED BY <3>2, <3>3 DEF SameStops, Claims
  <2> QED BY <1>1, <1>2, <1>5, <2>3, <2>4, UntouchedIs DEF Moved, Moves, Thread
<1> QED BY <1>4, <1>5 DEF Thread

\* A method called from where nothing else is being done.
LEMMA WorkCalls ==
  ASSUME Stacks, MainShape, LinkShape, NEW t \in Thread, NEW f \in FrameType, Call(t, f),
         \/ t = "main" /\ In("main", {"run"}, "loop") /\ f.op = "tick"
         \/ t = "link" /\ stack["link"] = <<>> /\ f.op \in {"apply", "probe"}
  PROVE  Moved(t, f) /\ Work(t) = Idle
<1>1. /\ Stacks' /\ Depth(t)' = Depth(t) + 1 /\ Fr(t, Depth(t))' = f /\ Below(t, Depth(t))
  BY CallIs
<1>2. \A u \in Thread \ {t} : Untouched(u)
  BY <1>1, StackIs DEF Below, Untouched, Levels
<1>3. CASE t = "main"
  <2>1. Depth("main") = 1 /\ Fr("main", 1).op = "run" /\ Fr("main", 1).at = "loop"
    <3>1. /\ Depth("main") \in Levels("main") /\ Depth("main") \in Nat
          /\ Fr("main", Depth("main")).op = "run" /\ Fr("main", Depth("main")).at = "loop"
      BY <1>3, InIs
    <3>2. Depth("main") < 2
      <4>1. Depth("main") >= 2 => Fr("main", Depth("main")).op # "run"
        BY <3>1 DEF MainShape, MainCall
      <4> QED BY <3>1, <4>1
    <3> QED BY <3>1, <3>2 DEF Levels
  <2>2. Depth("main")' = 2 /\ MainCall' = f /\ Fr("main", 1)' = Fr("main", 1)
    BY <1>1, <1>3, <2>1 DEF Below, MainCall
  <2>3. /\ MainShape' /\ Work("main")' = f /\ Work("main") = Idle
        /\ (Ended' => Ended) /\ (Looping' => Looping)
    BY <1>3, <2>1, <2>2 DEF MainShape, Work, Ended, Looping, Levels
  <2>4. SameStops("main")
    <3>1. Levels("main") = 1..1 /\ Levels("main")' = 1..2
      BY <2>1, <2>2 DEF Levels
    <3>2. \A k \in Nat : ~InStop("main", k)
      BY <2>1, <3>1 DEF InStop
    <3>3. \A k \in Nat : ~InStop("main", k)'
      BY <1>3, <2>1, <2>2, <3>1 DEF InStop, MainCall
    <3> QED BY <3>2, <3>3 DEF SameStops, Claims
  <2> QED BY <1>1, <1>2, <1>3, <2>3, <2>4, UntouchedIs DEF Moved, Moves, Thread
<1>4. CASE t = "link"
  <2>1. Depth("link") = 0
    BY <1>3, <1>4, StackIs
  <2>2. Depth("link")' = 1 /\ LinkCall' = f
    BY <1>1, <1>4, <2>1 DEF LinkCall
  <2>3. LinkShape' /\ Work("link")' = f /\ Work("link") = Idle
    BY <1>4, <2>1, <2>2 DEF LinkShape, Work
  <2>4. SameStops("link")
    <3>1. Levels("link") = {} /\ Levels("link")' = 1..1
      BY <2>1, <2>2 DEF Levels
    <3>2. \A k \in Nat : ~InStop("link", k)
      BY <3>1 DEF InStop
    <3>3. \A k \in Nat : ~InStop("link", k)'
      BY <1>4, <2>2, <3>1 DEF InStop, LinkCall
    <3> QED BY <3>2, <3>3 DEF SameStops, Claims
  <2> QED BY <1>1, <1>2, <1>4, <2>3, <2>4, UntouchedIs DEF Moved, Moves, Thread
<1> QED BY <1>3, <1>4 DEF Thread

\* An exception that leaves run_forever takes the call it came from with it.
LEMMA WorkRaises ==
  ASSUME Stacks, MainShape, LinkShape, Raise, NEW ops, NEW at, In("main", ops, at),
         ops \subseteq {"run", "start", "tick"}
  PROVE  Moved("main", Idle) /\ ~Looping'
<1>1. /\ Stacks' /\ Depth("main")' = 2 /\ Below("main", 0)
      /\ Fr("main", 1)' = Frame("run", "over") /\ Fr("main", 2)' = Frame("stop", "enter")
  BY RaiseIs
<1>2. "main" \in Thread /\ Untouched("link")
  BY <1>1 DEF Below, Untouched, Thread
<1>3. /\ Frame("run", "over").op = "run" /\ Frame("run", "over").at = "over"
      /\ Frame("stop", "enter").op = "stop" /\ Frame("stop", "enter").at = "enter"
  BY FrameIs DEF Op, At
<1>4. MainShape' /\ Work("main")' = Idle /\ ~Ended' /\ ~Looping'
  BY <1>1, <1>3 DEF MainShape, Work, Ended, Looping, Levels, MainCall
<1>5. SameStops("main")
  <2>1. \A k \in Nat : ~InStop("main", k)'
    <3>1. Levels("main")' = 1..2
      BY <1>1 DEF Levels
    <3> QED BY <1>1, <1>3, <3>1 DEF InStop
  <2>2. \A k \in Levels("main") : Fr("main", k).op # "stop"
    <3>1. /\ Depth("main") \in Nat /\ Fr("main", Depth("main")).op # "stop"
          /\ Depth("main") \in Levels("main")
      BY <1>2, InIs
    <3>2. Depth("main") < 3
      BY <3>1 DEF MainShape
    <3>3. Levels("main") \subseteq {1, 2} /\ (Depth("main") = 1 \/ Depth("main") = 2)
      BY <3>1, <3>2 DEF Levels
    <3>4. Fr("main", 1).op = "run"
      BY <3>3 DEF MainShape
    <3> QED BY <3>1, <3>3, <3>4 DEF Levels
  <2>3. \A k \in Nat : ~InStop("main", k)
    BY <2>2 DEF InStop
  <2> QED BY <2>1, <2>3 DEF SameStops, Claims
<1> QED BY <1>1, <1>2, <1>4, <1>5, UntouchedIs DEF Moved, Moves, Thread

\* stop() called on top of anything, and not yet with the lock.
LEMMA StopCalls ==
  ASSUME Stacks, MainShape, LinkShape, NEW t \in Thread, Call(t, Frame("stop", "enter")),
         (t = "main" /\ stack["main"] # <<>>) \/ (t = "link" /\ stack["link"] = <<>>)
  PROVE  Moved(t, Work(t))
<1> SUFFICES ASSUME NEW f \in FrameType, f = Frame("stop", "enter"), f.op = "stop", f.at = "enter"
             PROVE  Moved(t, Work(t))
  BY FrameIs DEF Op, At
<1>1. /\ Stacks' /\ Depth(t)' = Depth(t) + 1 /\ Fr(t, Depth(t))' = f /\ Below(t, Depth(t))
  BY CallIs
<1>2. \A u \in Thread \ {t} : Untouched(u)
  BY <1>1, StackIs DEF Below, Untouched, Levels
<1>3. Depth(t) \in Nat
  BY StackIs
<1>4. SameStops(t)
  <2>1. \A k \in Nat : k \in Levels(t)' <=> k \in Levels(t) \/ k = Depth(t)'
    BY <1>1, <1>3 DEF Levels
  <2>2. \A k \in Levels(t) : Fr(t, k)' = Fr(t, k) /\ k # Depth(t)'
    BY <1>1, <1>3 DEF Below, Levels
  <2>3. ~InStop(t, Depth(t))'
    BY <1>1 DEF InStop
  <2>4. \A k \in Nat : k = Depth(t)' => ~InStop(t, k)' /\ ~InStop(t, k)
    <3>1. \A k \in Nat : k = Depth(t)' => Fr(t, k)' = f
      BY <1>1
    <3>2. \A k \in Nat : k = Depth(t)' => k \notin Levels(t)
      BY <1>1, <1>3 DEF Levels
    <3> QED BY <3>1, <3>2 DEF InStop
  <2>5. \A k \in Levels(t) : (InStop(t, k)' <=> InStop(t, k))
                             /\ \A s \in Slot : Claims(t, k, s)' <=> Claims(t, k, s)
    BY <2>1, <2>2, <1>3 DEF InStop, Claims, Levels
  <2>6. \A k \in Nat : k \notin Levels(t) /\ k # Depth(t)' => ~InStop(t, k)' /\ ~InStop(t, k)
    BY <2>1 DEF InStop
  <2> QED BY <2>4, <2>5, <2>6 DEF SameStops, Claims
<1>5. CASE t = "main"
  <2>1. Depth("main") >= 1 /\ Fr("main", 1)' = Fr("main", 1)
    BY <1>1, <1>3, <1>5, StackIs DEF Below
  <2>2. IF Depth("main") = 1 THEN MainCall' = f ELSE MainCall' = MainCall
    BY <1>1, <1>3, <1>5, <2>1 DEF Below, MainCall
  <2>3. MainShape'
    <3>1. \A k \in Levels("main")' : k >= 3 => Fr("main", k)'.op = "stop"
      <4>1. \A k \in Levels("main") : k >= 3 => Fr("main", k)'.op = "stop"
        BY <1>1, <1>3, <1>5 DEF MainShape, Below, Levels
      <4>2. \A k \in Levels("main")' : k \in Levels("main") \/ k = Depth("main")'
        BY <1>1, <1>3, <1>5 DEF Levels
      <4>3. \A k : k = Depth("main")' => Fr("main", k)'.op = "stop"
        BY <1>1, <1>5
      <4> QED BY <4>1, <4>2, <4>3
    <3> QED BY <1>1, <1>3, <1>5, <2>1, <2>2, <3>1 DEF MainShape
  <2>4. Work("main")' = Work("main")
    BY <1>1, <1>3, <1>5, <2>1, <2>2 DEF Work
  <2>5. ~Ended' /\ (Looping' => Looping)
    BY <1>1, <1>3, <1>5, <2>1 DEF Ended, Looping
  <2> QED BY <1>1, <1>2, <1>4, <1>5, <2>3, <2>4, <2>5, UntouchedIs DEF Moved, Moves, Thread
<1>6. CASE t = "link"
  <2>1. Depth("link") = 0
    BY <1>5, <1>6, StackIs
  <2>2. Depth("link")' = 1 /\ LinkCall' = f
    BY <1>1, <1>6, <2>1 DEF LinkCall
  <2>3. LinkShape' /\ Work("link")' = Work("link")
    BY <1>6, <2>1, <2>2 DEF LinkShape, Work
  <2> QED BY <1>1, <1>2, <1>4, <1>6, <2>3, UntouchedIs DEF Moved, Moves, Thread
<1> QED BY <1>5, <1>6 DEF Thread

\* A panel recorded: the work goes on, under a new stop() if there is one already.
LEMMA WorkOpens ==
  ASSUME Typed, MainShape, LinkShape, NEW t \in Thread, NEW s \in Slot, OpenPanel(t, s),
         t = "link" => ~stopped,
         NEW f \in FrameType, f = [Top(t) EXCEPT !.at = "open", !.screen = None]
  PROVE  Moved(t, f)
<1>1. /\ In(t, {"start", "apply"}, "init") /\ f.op = Top(t).op /\ Stacks /\ Top(t) = Work(t)
      /\ f.op \in {"start", "apply"}
  BY InIs, WorkIs DEF OpenPanel, Typed, FrameType
<1>2. CASE Go(t, f)
  BY <1>1, <1>2, WorkGoes
<1>3. CASE /\ stopped /\ Stacks' /\ Depth(t)' = Depth(t) + 1 /\ Below(t, Depth(t) - 1)
           /\ Fr(t, Depth(t))' = Frame("stop", "enter")
           /\ \A k : k = Depth(t) => Fr(t, k)' = f
  <2>1. t = "main" /\ Depth("main") = 2 /\ Work("main") = MainCall
    BY <1>1, <1>3, WorkIs DEF Thread
  <2>2. Untouched("link")
    BY <1>3, <2>1 DEF Below, Untouched, Thread
  <2>3. /\ Depth("main")' = 3 /\ Fr("main", 1)' = Fr("main", 1) /\ MainCall' = f
        /\ Fr("main", 3)' = Frame("stop", "enter")
    BY <1>3, <2>1 DEF Below, MainCall
  <2>4. Frame("stop", "enter").op = "stop" /\ Frame("stop", "enter").at = "enter"
    BY FrameIs DEF Op, At
  <2>5. MainShape' /\ Work("main")' = f /\ ~Ended' /\ (Looping' => Looping)
    <3>1. /\ Fr("main", 1).op = "run" /\ MainCall.op # "stop" /\ f.op = "start"
          /\ Fr("main", 1).at # "over"
      BY <1>1, <2>1, WorkIs DEF MainShape, Levels
    <3>2. \A k \in Levels("main")' : k >= 3 => Fr("main", k)'.op = "stop"
      BY <2>3, <2>4 DEF Levels
    <3> QED BY <2>1, <2>3, <2>4, <3>1, <3>2 DEF MainShape, Work, Ended, Looping
  <2>6. SameStops("main")
    <3>1. Levels("main") = 1..2 /\ Levels("main")' = 1..3 /\ Fr("main", 1).op = "run"
      BY <2>1, <2>3 DEF Levels, MainShape
    <3>2. \A k \in Nat : ~InStop("main", k)
      BY <1>1, <2>1, <3>1 DEF InStop, MainCall
    <3>3. \A k \in Nat : ~InStop("main", k)'
      <4>1. Fr("main", 1)'.op # "stop" /\ Fr("main", 2)'.op # "stop"
            /\ Fr("main", 3)'.at = "enter"
        BY <1>1, <2>3, <2>4, <3>1 DEF MainCall
      <4>2. \A k \in Levels("main")' : k = 1 \/ k = 2 \/ k = 3
        BY <3>1
      <4> QED BY <4>1, <4>2 DEF InStop
    <3> QED BY <3>2, <3>3 DEF SameStops, Claims
  <2> QED BY <1>1, <1>3, <2>1, <2>2, <2>5, <2>6, UntouchedIs DEF Moved, Moves, Thread
<1> QED BY <1>1, <1>2, <1>3, OpenPanelIs

\* A step of a stop(), below which everything stays where it is.
StopMoved(t) ==
  /\ Stacks' /\ MainShape' /\ LinkShape'
  /\ \A u \in Thread : Work(u)' = Work(u)
  /\ \A u \in Thread \ {t} : SameStops(u)
  /\ Looping' => Looping

LEMMA StopGoes ==
  ASSUME Stacks, MainShape, LinkShape, NEW t \in Thread, NEW at, In(t, {"stop"}, at),
         NEW f \in FrameType, f.op = "stop", Go(t, f)
  PROVE  /\ StopMoved(t) /\ (Ended' <=> Ended) /\ Depth(t) \in Nat
         /\ InStop(t, Depth(t)) <=> at # "enter"
         /\ \A s \in Slot : Claims(t, Depth(t), s) <=> at = "close" /\ Top(t).slot = s
         /\ \A k \in Nat :
              /\ InStop(t, k)' <=> IF k = Depth(t) THEN f.at # "enter" ELSE InStop(t, k)
              /\ \A s \in Slot : Claims(t, k, s)' <=>
                    IF k = Depth(t) THEN f.at = "close" /\ f.slot = s ELSE Claims(t, k, s)
<1>1. /\ Stacks' /\ Depth(t)' = Depth(t) /\ Fr(t, Depth(t))' = f /\ Below(t, Depth(t) - 1)
      /\ Depth(t) \in Levels(t) /\ Depth(t) \in Nat /\ Top(t) = Fr(t, Depth(t))
      /\ Top(t).op = "stop" /\ Top(t).at = at
  BY InIs, GoIs
<1>2. \A u \in Thread \ {t} : Untouched(u)
  BY <1>1 DEF Below, Untouched
<1>3. Levels(t)' = Levels(t) /\ \A k \in Levels(t) : k # Depth(t) => Fr(t, k)' = Fr(t, k)
  BY <1>1 DEF Below, Levels
<1>4. /\ InStop(t, Depth(t)) <=> at # "enter"
      /\ \A s \in Slot : Claims(t, Depth(t), s) <=> at = "close" /\ Top(t).slot = s
  BY <1>1 DEF InStop, Claims
<1>5. ASSUME NEW k \in Nat
      PROVE  /\ InStop(t, k)' <=> IF k = Depth(t) THEN f.at # "enter" ELSE InStop(t, k)
             /\ \A s \in Slot : Claims(t, k, s)' <=>
                    IF k = Depth(t) THEN f.at = "close" /\ f.slot = s ELSE Claims(t, k, s)
  <2>1. CASE k = Depth(t)
    <3>1. Fr(t, k)' = f /\ k \in Levels(t)'
      BY <1>1, <1>3, <2>1
    <3> QED BY <2>1, <3>1 DEF InStop, Claims
  <2>2. CASE k # Depth(t)
    BY <1>3, <2>2 DEF InStop, Claims
  <2> QED BY <2>1, <2>2
<1>6. CASE t = "main"
  <2>1. Depth("main") >= 2 /\ Fr("main", 1)' = Fr("main", 1)
    BY <1>1, <1>3, <1>6 DEF MainShape, Levels
  <2>2. IF Depth("main") = 2 THEN MainCall' = f /\ MainCall.op = "stop" ELSE MainCall' = MainCall
    BY <1>1, <1>3, <1>6, <2>1 DEF MainCall, Levels
  <2>3. MainShape'
    <3>1. \A k \in Levels("main")' : k >= 3 => Fr("main", k)'.op = "stop"
      <4>1. \A k : k = Depth("main") => Fr("main", k)'.op = "stop"
        BY <1>1, <1>6
      <4> QED BY <1>3, <1>6, <4>1 DEF MainShape
    <3> QED BY <1>1, <1>6, <2>1, <2>2, <3>1 DEF MainShape
  <2>4. Work("main")' = Work("main") /\ (Ended' <=> Ended) /\ (Looping' => Looping)
    BY <1>1, <1>6, <2>1, <2>2 DEF Work, Ended, Looping
  <2> QED BY <1>1, <1>2, <1>4, <1>5, <1>6, <2>3, <2>4, UntouchedIs DEF StopMoved, Thread
<1>7. CASE t = "link"
  <2>1. Depth("link") = 1
    BY <1>1, <1>7 DEF LinkShape, Levels
  <2>2. LinkCall' = f /\ LinkCall.op = "stop"
    BY <1>1, <1>7, <2>1 DEF LinkCall
  <2>3. LinkShape' /\ Work("link")' = Work("link")
    BY <1>1, <1>7, <2>1, <2>2 DEF LinkShape, Work
  <2> QED BY <1>1, <1>2, <1>4, <1>5, <1>7, <2>3, UntouchedIs DEF StopMoved, Thread
<1> QED BY <1>6, <1>7 DEF Thread

LEMMA StopEnds ==
  ASSUME Stacks, MainShape, LinkShape, NEW t \in Thread, NEW at, In(t, {"stop"}, at), Return(t)
  PROVE  /\ StopMoved(t) /\ (t = "link" => (Ended' <=> Ended))
         /\ InStop(t, Depth(t)) <=> at # "enter"
         /\ \A k \in Nat :
              /\ InStop(t, k)' <=> k # Depth(t) /\ InStop(t, k)
              /\ \A s \in Slot : Claims(t, k, s)' <=> k # Depth(t) /\ Claims(t, k, s)
         /\ t = "main" /\ Ended' => Depth(t) = 2
<1>1. /\ Stacks' /\ Depth(t)' = Depth(t) - 1 /\ Below(t, Depth(t) - 1)
      /\ Depth(t) \in Levels(t) /\ Depth(t) \in Nat /\ Top(t) = Fr(t, Depth(t))
      /\ Top(t).op = "stop" /\ Top(t).at = at
  BY InIs, ReturnIs
<1>2. \A u \in Thread \ {t} : Untouched(u)
  BY <1>1 DEF Below, Untouched
<1>3. Levels(t)' = Levels(t) \ {Depth(t)} /\ \A k \in Levels(t)' : Fr(t, k)' = Fr(t, k)
  BY <1>1 DEF Below, Levels
<1>4. InStop(t, Depth(t)) <=> at # "enter"
  BY <1>1 DEF InStop
<1>5. ASSUME NEW k \in Nat
      PROVE  /\ InStop(t, k)' <=> k # Depth(t) /\ InStop(t, k)
             /\ \A s \in Slot : Claims(t, k, s)' <=> k # Depth(t) /\ Claims(t, k, s)
  BY <1>3 DEF InStop, Claims
<1>6. CASE t = "main"
  <2>1. Depth("main") >= 2 /\ Fr("main", 1)' = Fr("main", 1) /\ Depth("main")' = Depth("main") - 1
    BY <1>1, <1>3, <1>6 DEF MainShape, Levels
  <2>2. IF Depth("main") = 2 THEN MainCall.op = "stop" ELSE MainCall' = MainCall
    BY <1>1, <1>3, <1>6, <2>1 DEF MainCall, Levels
  <2>3. MainShape'
    <3>1. \A k \in Levels("main")' : k >= 3 => Fr("main", k)'.op = "stop"
      BY <1>3, <1>6 DEF MainShape
    <3> QED BY <1>1, <1>6, <2>1, <2>2, <3>1 DEF MainShape
  <2>4. Work("main")' = Work("main") /\ (Ended' => Depth("main") = 2) /\ (Looping' => Looping)
    BY <1>1, <1>6, <2>1, <2>2 DEF Work, Ended, Looping
  <2> QED BY <1>1, <1>2, <1>4, <1>5, <1>6, <2>3, <2>4, UntouchedIs DEF StopMoved, Thread
<1>7. CASE t = "link"
  <2>1. Depth("link") = 1 /\ Depth("link")' = 0
    BY <1>1, <1>7 DEF LinkShape, Levels
  <2>2. LinkCall.op = "stop"
    BY <1>1, <1>7, <2>1 DEF LinkCall
  <2>3. LinkShape' /\ Work("link")' = Work("link")
    BY <1>1, <1>7, <2>1, <2>2 DEF LinkShape, Work
  <2> QED BY <1>1, <1>2, <1>4, <1>5, <1>7, <2>3, UntouchedIs DEF StopMoved, Thread
<1> QED BY <1>6, <1>7 DEF Thread

LEMMA ExitIs ==
  ASSUME Stacks, MainShape, LinkShape, Exit
  PROVE  Moved("main", Work("main")) /\ Ended
<1>1. /\ In("main", {"run"}, "over") /\ "main" \in Thread /\ Return("main")
      /\ UNCHANGED <<stopped, slots>>
  BY DEF Exit, Thread
<1>2. /\ Stacks' /\ Depth("main")' = Depth("main") - 1 /\ Below("main", Depth("main") - 1)
      /\ Depth("main") \in Levels("main") /\ Depth("main") \in Nat
      /\ Fr("main", Depth("main")).op = "run" /\ Fr("main", Depth("main")).at = "over"
  BY <1>1, InIs, ReturnIs
<1>3. Untouched("link")
  BY <1>2 DEF Below, Untouched, Thread
<1>4. Depth("main") = 1 /\ Depth("main")' = 0
  <2>1. Depth("main") < 2
    <3>1. Depth("main") >= 2 => Fr("main", Depth("main")).op # "run"
      BY <1>2 DEF MainShape, MainCall
    <3> QED BY <1>2, <3>1
  <2> QED BY <1>2, <2>1 DEF Levels
<1>5. Ended /\ MainShape' /\ Work("main")' = Work("main") /\ ~Looping'
  BY <1>2, <1>4 DEF Ended, Looping, MainShape, Work, Levels
<1>6. SameStops("main")
  <2>1. Levels("main") = 1..1 /\ Levels("main")' = {} /\ Fr("main", 1).op = "run"
    BY <1>2, <1>4 DEF Levels
  <2>2. \A k \in Nat : ~InStop("main", k) /\ ~InStop("main", k)'
    BY <2>1 DEF InStop
  <2> QED BY <2>2 DEF SameStops, Claims
<1> QED BY <1>2, <1>3, <1>5, <1>6, UntouchedIs DEF Moved, Moves, Thread

\* A step of a method that is not stop(): it goes on, from one place to another.
Steps(t, ops, from, to) ==
  /\ Moves(t) /\ Work(t) \in FrameType /\ Work(t)' \in FrameType
  /\ Work(t).op \in ops /\ Work(t)'.op = Work(t).op
  /\ Work(t).at = from /\ Work(t)'.at = to
  /\ t = "main" => Work(t).op \in {"start", "tick"}
  /\ t = "link" => Work(t).op \in {"apply", "probe"}
Carries(t) == Work(t)'.kept = Work(t).kept /\ Work(t)'.retired = Work(t).retired

LEMMA Walks ==
  ASSUME Typed, Stacks', MainShape, LinkShape, NEW t \in Thread, NEW ops, NEW at, In(t, ops, at),
         ops \subseteq {"start", "tick", "apply", "probe"}, NEW f, Go(t, f), f.op = Top(t).op
  PROVE  /\ Top(t) = Work(t) /\ Work(t)' = f /\ f \in FrameType
         /\ Steps(t, ops, at, f.at)
<1>1. f \in FrameType
  <2> DEFINE A == FrameType \cup {f}
             c == <<f>> \o Tail(stack[t])
  <2>1. stack[t] \in Seq(FrameType) /\ stack[t] # <<>> /\ stack \in [Thread -> Seq(FrameType)]
    BY InIs, StackIs DEF Typed, Stacks
  <2>2. Tail(stack[t]) \in Seq(FrameType)
    BY <2>1
  <2>3. Tail(stack[t]) \in Seq(A)
    <3>1. FrameType \subseteq A
      OBVIOUS
    <3> HIDE DEF A
    <3> QED BY <2>2, <3>1
  <2>4. f \in A
    OBVIOUS
  <2>5. c[1] = f /\ 1 \in DOMAIN c
    <3> HIDE DEF A
    <3> QED BY <2>3, <2>4
  <2>6. stack'[t] = c
    BY <2>1 DEF Go
  <2>7. c \in Seq(FrameType)
    BY <2>6 DEF Stacks
  <2> HIDE DEF c
  <2> QED BY <2>5, <2>7
<1>2. Moved(t, f)
  BY <1>1, WorkGoes DEF Typed
<1>3. /\ Top(t) = Work(t) /\ Work(t).op \in ops /\ Work(t).at = at /\ Work(t) \in FrameType
      /\ t = "main" => Work(t).op \in {"start", "tick"}
      /\ t = "link" => Work(t).op \in {"apply", "probe"}
  BY WorkIs DEF Typed
<1>4. Work(t)' = f
  BY <1>2 DEF Moved, Moves
<1>5. Moves(t)
  BY <1>2 DEF Moved
<1> QED BY <1>1, <1>3, <1>4, <1>5 DEF Steps

-----------------------------------------------------------------------------
(* The lock.                                                               *)

Held(t) == Locked(Work(t)) \/ \E k \in Nat : InStop(t, k)

\* _shutdown_lock excludes the other thread, a stop() that has it has said so,
\* and no configuration is applied and no panel probed from then on.
Locks ==
  /\ ~(Held("main") /\ Held("link"))
  /\ Work("link").op \in {"apply", "probe"} /\ Work("link").at # "enter" => ~stopped
  /\ \A t \in Thread : \A k \in Nat : InStop(t, k) => stopped
  /\ ~EarlyPush /\ Work("main").op = "start" => Work("link") = Idle
  /\ "start" \notin MayRefuse => ~(Work("main").op = "start" /\ Work("main").at = "failed")

\* The calls of both threads, and what they hold.
Called == Typed /\ MainShape /\ LinkShape /\ Locks

LEMMA IdleIs == Idle \in FrameType /\ Idle.op = "run" /\ Idle.at = "loop" /\ ~Locked(Idle)
                /\ Idle.slot = None /\ Idle.slots = {} /\ Idle.kept = {} /\ Idle.retired = {}
BY FrameIs DEF Idle, Locked, Op, At

LEMMA HeldIs ==
  ASSUME Stacks, NEW t \in Thread, Lock(t), NEW u \in Thread \ {t}
  PROVE  ~Held(u)
<1>1. \A k \in Levels(u) : ~Locked(Fr(u, k))
  BY HoldsIs DEF Lock
<1>2. \A k \in Nat : ~InStop(u, k)
  BY <1>1 DEF InStop, Locked
<1>3. Depth(u) \in Nat
  BY StackIs
<1>4. ~Locked(Work(u))
  <2>1. CASE u = "main"
    BY <1>1, <1>3, <2>1, IdleIs DEF Work, MainCall, Levels
  <2>2. CASE u = "link"
    BY <1>1, <1>3, <2>2, IdleIs DEF Work, LinkCall, Levels
  <2> QED BY <2>1, <2>2 DEF Thread
<1> QED BY <1>2, <1>4 DEF Held

LEMMA LocksGo ==
  ASSUME Locks, NEW t \in Thread, NEW ops, NEW from, NEW to, Steps(t, ops, from, to),
         from # "enter", to # "enter", UNCHANGED stopped,
         Work(t).op = "start" /\ to = "failed" => "start" \in MayRefuse
  PROVE  Locks'
<1>1. /\ \A u \in Thread \ {t} : Work(u)' = Work(u)
      /\ \A u \in Thread : \A k \in Nat : InStop(u, k)' <=> InStop(u, k)
  BY DEF Steps, Moved, Moves, SameStops
<1>2. Locked(Work(t))' <=> Locked(Work(t))
  BY DEF Steps, Locked
<1>3. CASE t = "main"
  <2>1. Work("link")' = Work("link") /\ Idle' = Idle
    BY <1>1, <1>3 DEF Thread, Idle, Frame
  <2>2. (Held("main")' <=> Held("main")) /\ (Held("link")' <=> Held("link"))
    BY <1>1, <1>2, <1>3, <2>1 DEF Held, Locked, Thread
  <2> QED BY <1>1, <1>3, <2>1, <2>2 DEF Locks, Steps
<1>4. CASE t = "link"
  <2>1. Work("main")' = Work("main")
    BY <1>1, <1>4 DEF Thread
  <2>2. (Held("main")' <=> Held("main")) /\ (Held("link")' <=> Held("link"))
    BY <1>1, <1>2, <1>4, <2>1 DEF Held, Locked, Thread
  <2>3. Work("link") # Idle
    BY <1>4, IdleIs DEF Steps
  <2> QED BY <1>1, <1>4, <2>1, <2>2, <2>3 DEF Locks, Steps
<1> QED BY <1>3, <1>4 DEF Thread

LEMMA LocksIdle ==
  ASSUME Locks, NEW t \in Thread, Moved(t, Idle), UNCHANGED stopped
  PROVE  Locks'
<1>1. /\ \A u \in Thread \ {t} : Work(u)' = Work(u)
      /\ \A u \in Thread : \A k \in Nat : InStop(u, k)' <=> InStop(u, k)
      /\ Work(t)' = Idle /\ Idle' = Idle
  BY DEF Moved, Moves, SameStops, Idle, Frame
<1>2. ~Locked(Work(t))'
  <2>1. Locked(Work(t))' <=> Locked(Idle)
    BY <1>1 DEF Locked
  <2> QED BY <2>1, IdleIs
<1>3. CASE t = "main"
  <2>1. Work("link")' = Work("link")
    BY <1>1, <1>3 DEF Thread
  <2>2. (Held("main")' => Held("main")) /\ (Held("link")' <=> Held("link"))
    BY <1>1, <1>2, <1>3, <2>1 DEF Held, Locked, Thread
  <2> QED BY <1>1, <1>3, <2>1, <2>2, IdleIs DEF Locks
<1>4. CASE t = "link"
  <2>1. Work("main")' = Work("main")
    BY <1>1, <1>4 DEF Thread
  <2>2. (Held("link")' => Held("link")) /\ (Held("main")' <=> Held("main"))
    BY <1>1, <1>2, <1>4, <2>1 DEF Held, Locked, Thread
  <2> QED BY <1>1, <1>4, <2>1, <2>2, IdleIs DEF Locks
<1> QED BY <1>3, <1>4 DEF Thread

LEMMA LocksSame ==
  ASSUME Locks, UNCHANGED stopped, \A u \in Thread : Work(u)' = Work(u) /\ SameStops(u)
  PROVE  Locks'
<1>1. Work("main")' = Work("main") /\ Work("link")' = Work("link") /\ Idle' = Idle
  BY DEF Thread, Idle, Frame
<1>2. \A u \in Thread : \A k \in Nat : InStop(u, k)' <=> InStop(u, k)
  BY DEF SameStops
<1>3. (Held("main")' <=> Held("main")) /\ (Held("link")' <=> Held("link"))
  BY <1>1, <1>2 DEF Held, Locked, Thread
<1> QED BY <1>1, <1>2, <1>3 DEF Locks

\* A method that takes the lock, or starts to wait for it.
LEMMA LocksTake ==
  ASSUME Locks, NEW t \in Thread, NEW f, Moved(t, f), UNCHANGED stopped,
         Locked(f) => \A u \in Thread \ {t} : ~Held(u),
         t = "main" => f.op = "tick",
         t = "link" => /\ f.op \in {"apply", "probe"} /\ (f.at # "enter" => ~stopped)
                       /\ ~EarlyPush => Work("main").op # "start"
  PROVE  Locks'
<1>1. /\ \A u \in Thread \ {t} : Work(u)' = Work(u)
      /\ \A u \in Thread : \A k \in Nat : InStop(u, k)' <=> InStop(u, k)
      /\ Work(t)' = f /\ Idle' = Idle
  BY DEF Moved, Moves, SameStops, Idle, Frame
<1>2. Locked(Work(t))' <=> Locked(f)
  BY <1>1 DEF Locked
<1>3. CASE t = "main"
  <2>1. Work("link")' = Work("link")
    BY <1>1, <1>3 DEF Thread
  <2>2. (Held("main")' => Held("main") \/ Locked(f)) /\ (Held("link")' <=> Held("link"))
    BY <1>1, <1>2, <1>3, <2>1 DEF Held, Locked, Thread
  <2>3. ~(Held("main")' /\ Held("link")')
    BY <1>3, <2>2 DEF Locks, Thread
  <2> QED BY <1>1, <1>3, <2>1, <2>3 DEF Locks
<1>4. CASE t = "link"
  <2>1. Work("main")' = Work("main")
    BY <1>1, <1>4 DEF Thread
  <2>2. (Held("link")' => Held("link") \/ Locked(f)) /\ (Held("main")' <=> Held("main"))
    BY <1>1, <1>2, <1>4, <2>1 DEF Held, Locked, Thread
  <2>3. ~(Held("main")' /\ Held("link")')
    BY <1>4, <2>2 DEF Locks, Thread
  <2> QED BY <1>1, <1>4, <2>1, <2>3 DEF Locks
<1> QED BY <1>3, <1>4 DEF Thread

-----------------------------------------------------------------------------
(* Where each step of a method leaves it.                                  *)

LEMMA SeesBeginOpen ==
  ASSUME Called, Stacks', NEW t \in Thread, NEW x, BeginOpen(t, x)
  PROVE  /\ Steps(t, {"start", "apply", "probe"}, "open", "init") /\ Carries(t)
<1> SUFFICES ASSUME NEW f, f = [Top(t) EXCEPT !.at = "init", !.screen = x, !.screens = @ \ {x}]
             PROVE  /\ Steps(t, {"start", "apply", "probe"}, "open", "init") /\ Carries(t)
  OBVIOUS
<1>1. In(t, {"start", "apply", "probe"}, "open") /\ Go(t, f)
  BY DEF BeginOpen
<1>2. Top(t) \in FrameType /\ Top(t).at = "open" /\ t \in Thread
  BY <1>1, InIs DEF Called, Typed, Thread
<1>3. /\ f.op = Top(t).op /\ f.at = "init"
      /\ f.kept = Top(t).kept
      /\ f.retired = Top(t).retired
  BY <1>2 DEF FrameType
<1>4. Steps(t, {"start", "apply", "probe"}, "open", f.at) /\ Work(t)' = f /\ Top(t) = Work(t)
  BY <1>1, <1>2, <1>3, Walks DEF Called
<1> QED BY <1>3, <1>4 DEF Carries

LEMMA SeesSkipOpen ==
  ASSUME Called, Stacks', NEW t \in Thread, NEW x, SkipOpen(t, x)
  PROVE  /\ Steps(t, {"apply"}, "open", "open") /\ Carries(t)
<1> SUFFICES ASSUME NEW f, f = [Top(t) EXCEPT !.screens = @ \ {x}]
             PROVE  /\ Steps(t, {"apply"}, "open", "open") /\ Carries(t)
  OBVIOUS
<1>1. In(t, {"apply"}, "open") /\ Go(t, f)
  BY DEF SkipOpen
<1>2. Top(t) \in FrameType /\ Top(t).at = "open" /\ t \in Thread
  BY <1>1, InIs DEF Called, Typed, Thread
<1>3. /\ f.op = Top(t).op /\ f.at = "open"
      /\ f.kept = Top(t).kept
      /\ f.retired = Top(t).retired
  BY <1>2 DEF FrameType
<1>4. Steps(t, {"apply"}, "open", f.at) /\ Work(t)' = f /\ Top(t) = Work(t)
  BY <1>1, <1>2, <1>3, Walks DEF Called
<1> QED BY <1>3, <1>4 DEF Carries

LEMMA SeesOpenFails ==
  ASSUME Called, Stacks', NEW t \in Thread, OpenFails(t)
  PROVE  /\ Steps(t, {"start", "apply"}, "init", "open") /\ Carries(t)
<1> SUFFICES ASSUME NEW f, f = [Top(t) EXCEPT !.at = "open", !.screen = None]
             PROVE  /\ Steps(t, {"start", "apply"}, "init", "open") /\ Carries(t)
  OBVIOUS
<1>1. In(t, {"start", "apply"}, "init") /\ Go(t, f)
  BY DEF OpenFails
<1>2. Top(t) \in FrameType /\ Top(t).at = "init" /\ t \in Thread
  BY <1>1, InIs DEF Called, Typed, Thread
<1>3. /\ f.op = Top(t).op /\ f.at = "open"
      /\ f.kept = Top(t).kept
      /\ f.retired = Top(t).retired
  BY <1>2 DEF FrameType
<1>4. Steps(t, {"start", "apply"}, "init", f.at) /\ Work(t)' = f /\ Top(t) = Work(t)
  BY <1>1, <1>2, <1>3, Walks DEF Called
<1> QED BY <1>3, <1>4 DEF Carries

LEMMA SeesOpensDone ==
  ASSUME Called, Stacks', NEW t \in Thread, OpensDone(t)
  PROVE  /\ Steps(t, {"start", "apply"}, "open", "work") /\ Carries(t)
         /\ Work(t)'.slots = slots
<1> SUFFICES ASSUME NEW f, f = [Top(t) EXCEPT !.at = "work", !.slots = slots]
             PROVE  /\ Steps(t, {"start", "apply"}, "open", "work") /\ Carries(t)
                    /\ Work(t)'.slots = slots
  OBVIOUS
<1>1. In(t, {"start", "apply"}, "open") /\ Go(t, f)
  BY DEF OpensDone
<1>2. Top(t) \in FrameType /\ Top(t).at = "open" /\ t \in Thread
  BY <1>1, InIs DEF Called, Typed, Thread
<1>3. /\ f.op = Top(t).op /\ f.at = "work"
      /\ f.kept = Top(t).kept
      /\ f.retired = Top(t).retired
      /\ f.slots = slots
  BY <1>2 DEF FrameType
<1>4. Steps(t, {"start", "apply"}, "open", f.at) /\ Work(t)' = f /\ Top(t) = Work(t)
  BY <1>1, <1>2, <1>3, Walks DEF Called
<1> QED BY <1>3, <1>4 DEF Carries

LEMMA SeesStartWorker ==
  ASSUME Called, Stacks', NEW t \in Thread, NEW s, NEW w, StartWorker(t, s, w)
  PROVE  /\ Steps(t, {"start", "apply"}, "work", "begun") /\ Carries(t)
         /\ Work(t)'.slots = Work(t).slots \ {s} /\ s \in Work(t).slots
         /\ Work(t)'.slot = s
         /\ Work(t)'.worker = w
<1> SUFFICES ASSUME NEW f, f = [Top(t) EXCEPT !.at = "begun", !.slots = @ \ {s}, !.slot = s, !.worker = w]
             PROVE  /\ Steps(t, {"start", "apply"}, "work", "begun") /\ Carries(t)
                    /\ Work(t)'.slots = Work(t).slots \ {s} /\ s \in Work(t).slots
                    /\ Work(t)'.slot = s
                    /\ Work(t)'.worker = w
  OBVIOUS
<1>1. In(t, {"start", "apply"}, "work") /\ Go(t, f) /\ s \in Top(t).slots
  BY DEF StartWorker, ToStart
<1>2. Top(t) \in FrameType /\ Top(t).at = "work" /\ t \in Thread
  BY <1>1, InIs DEF Called, Typed, Thread
<1>3. /\ f.op = Top(t).op /\ f.at = "begun"
      /\ f.kept = Top(t).kept
      /\ f.retired = Top(t).retired
      /\ f.slots = Top(t).slots \ {s}
      /\ f.slot = s
      /\ f.worker = w
  BY <1>2 DEF FrameType
<1>4. Steps(t, {"start", "apply"}, "work", f.at) /\ Work(t)' = f /\ Top(t) = Work(t)
  BY <1>1, <1>2, <1>3, Walks DEF Called
<1> QED BY <1>1, <1>3, <1>4 DEF Carries

LEMMA SeesRecordWorker ==
  ASSUME Called, Stacks', NEW t \in Thread, RecordWorker(t)
  PROVE  /\ Steps(t, {"start", "apply"}, "begun", "work") /\ Carries(t)
         /\ Work(t)'.slots = Work(t).slots
<1> SUFFICES ASSUME NEW f, f = [Top(t) EXCEPT !.at = "work", !.slot = None, !.worker = None]
             PROVE  /\ Steps(t, {"start", "apply"}, "begun", "work") /\ Carries(t)
                    /\ Work(t)'.slots = Work(t).slots
  OBVIOUS
<1>1. In(t, {"start", "apply"}, "begun") /\ Go(t, f)
  BY DEF RecordWorker
<1>2. Top(t) \in FrameType /\ Top(t).at = "begun" /\ t \in Thread
  BY <1>1, InIs DEF Called, Typed, Thread
<1>3. /\ f.op = Top(t).op /\ f.at = "work"
      /\ f.kept = Top(t).kept
      /\ f.retired = Top(t).retired
      /\ f.slots = Top(t).slots
  BY <1>2 DEF FrameType
<1>4. Steps(t, {"start", "apply"}, "begun", f.at) /\ Work(t)' = f /\ Top(t) = Work(t)
  BY <1>1, <1>2, <1>3, Walks DEF Called
<1> QED BY <1>3, <1>4 DEF Carries

LEMMA SeesReplace ==
  ASSUME Called, Stacks', NEW s, NEW w, Replace(s, w)
  PROVE  /\ Steps("main", {"tick"}, "check", "begun") /\ Carries("main")
         /\ Work("main")'.slot = s
<1> SUFFICES ASSUME NEW f, f = [Top("main") EXCEPT !.at = "begun", !.slots = @ \ {s}, !.slot = s, !.worker = w]
             PROVE  /\ Steps("main", {"tick"}, "check", "begun") /\ Carries("main")
                    /\ Work("main")'.slot = s
  OBVIOUS
<1>1. In("main", {"tick"}, "check") /\ Go("main", f)
  BY DEF Replace
<1>2. Top("main") \in FrameType /\ Top("main").at = "check" /\ "main" \in Thread
  BY <1>1, InIs DEF Called, Typed, Thread
<1>3. /\ f.op = Top("main").op /\ f.at = "begun"
      /\ f.kept = Top("main").kept
      /\ f.retired = Top("main").retired
      /\ f.slot = s
  BY <1>2 DEF FrameType
<1>4. Steps("main", {"tick"}, "check", f.at) /\ Work("main")' = f /\ Top("main") = Work("main")
  BY <1>1, <1>2, <1>3, Walks DEF Called
<1> QED BY <1>3, <1>4 DEF Carries

LEMMA SeesRecordReplacement ==
  ASSUME Called, Stacks', RecordReplacement
  PROVE  /\ Steps("main", {"tick"}, "begun", "check") /\ Carries("main")
<1> SUFFICES ASSUME NEW f, f = [Top("main") EXCEPT !.at = "check", !.slot = None, !.worker = None]
             PROVE  /\ Steps("main", {"tick"}, "begun", "check") /\ Carries("main")
  OBVIOUS
<1>1. In("main", {"tick"}, "begun") /\ Go("main", f)
  BY DEF RecordReplacement
<1>2. Top("main") \in FrameType /\ Top("main").at = "begun" /\ "main" \in Thread
  BY <1>1, InIs DEF Called, Typed, Thread
<1>3. /\ f.op = Top("main").op /\ f.at = "check"
      /\ f.kept = Top("main").kept
      /\ f.retired = Top("main").retired
  BY <1>2 DEF FrameType
<1>4. Steps("main", {"tick"}, "begun", f.at) /\ Work("main")' = f /\ Top("main") = Work("main")
  BY <1>1, <1>2, <1>3, Walks DEF Called
<1> QED BY <1>3, <1>4 DEF Carries

LEMMA SeesJoinRetired ==
  ASSUME Called, Stacks', JoinRetired
  PROVE  /\ Steps("link", {"apply"}, "join", "pause") /\ Carries("link")
<1> SUFFICES ASSUME NEW f, f = [Top("link") EXCEPT !.at = "pause", !.slots = HasWorker(Top("link").kept)]
             PROVE  /\ Steps("link", {"apply"}, "join", "pause") /\ Carries("link")
  OBVIOUS
<1>1. In("link", {"apply"}, "join") /\ Go("link", f)
  BY DEF JoinRetired
<1>2. Top("link") \in FrameType /\ Top("link").at = "join" /\ "link" \in Thread
  BY <1>1, InIs DEF Called, Typed, Thread
<1>3. /\ f.op = Top("link").op /\ f.at = "pause"
      /\ f.kept = Top("link").kept
      /\ f.retired = Top("link").retired
  BY <1>2 DEF FrameType
<1>4. Steps("link", {"apply"}, "join", f.at) /\ Work("link")' = f /\ Top("link") = Work("link")
  BY <1>1, <1>2, <1>3, Walks DEF Called
<1> QED BY <1>3, <1>4 DEF Carries

LEMMA SeesPause ==
  ASSUME Called, Stacks', NEW s, Pause(s)
  PROVE  /\ Steps("link", {"apply", "probe"}, "pause", "pause") /\ Carries("link")
<1> SUFFICES ASSUME NEW f, f = [Top("link") EXCEPT !.slots = @ \ {s}]
             PROVE  /\ Steps("link", {"apply", "probe"}, "pause", "pause") /\ Carries("link")
  OBVIOUS
<1>1. In("link", {"apply", "probe"}, "pause") /\ Go("link", f)
  BY DEF Pause
<1>2. Top("link") \in FrameType /\ Top("link").at = "pause" /\ "link" \in Thread
  BY <1>1, InIs DEF Called, Typed, Thread
<1>3. /\ f.op = Top("link").op /\ f.at = "pause"
      /\ f.kept = Top("link").kept
      /\ f.retired = Top("link").retired
  BY <1>2 DEF FrameType
<1>4. Steps("link", {"apply", "probe"}, "pause", f.at) /\ Work("link")' = f /\ Top("link") = Work("link")
  BY <1>1, <1>2, <1>3, Walks DEF Called
<1> QED BY <1>3, <1>4 DEF Carries

LEMMA SeesPauseFails ==
  ASSUME Called, Stacks', NEW s, PauseFails(s)
  PROVE  /\ Steps("link", {"apply", "probe"}, "pause", "pause") /\ Carries("link")
<1> SUFFICES ASSUME NEW f, f = [Top("link") EXCEPT !.slots = @ \ {s}, !.buses = @ \cup {BusOf(screen[s])}]
             PROVE  /\ Steps("link", {"apply", "probe"}, "pause", "pause") /\ Carries("link")
  OBVIOUS
<1>1. In("link", {"apply", "probe"}, "pause") /\ Go("link", f)
  BY DEF PauseFails
<1>2. Top("link") \in FrameType /\ Top("link").at = "pause" /\ "link" \in Thread
  BY <1>1, InIs DEF Called, Typed, Thread
<1>3. /\ f.op = Top("link").op /\ f.at = "pause"
      /\ f.kept = Top("link").kept
      /\ f.retired = Top("link").retired
  BY <1>2 DEF FrameType
<1>4. Steps("link", {"apply", "probe"}, "pause", f.at) /\ Work("link")' = f /\ Top("link") = Work("link")
  BY <1>1, <1>2, <1>3, Walks DEF Called
<1> QED BY <1>3, <1>4 DEF Carries

LEMMA SeesBlankRetired ==
  ASSUME Called, Stacks', BlankRetired
  PROVE  /\ Steps("link", {"apply"}, "pause", "open")
<1> SUFFICES ASSUME NEW f, f = [Top("link") EXCEPT !.at = "open", !.retired = {}]
             PROVE  /\ Steps("link", {"apply"}, "pause", "open")
  OBVIOUS
<1>1. In("link", {"apply"}, "pause") /\ Go("link", f)
  BY DEF BlankRetired
<1>2. Top("link") \in FrameType /\ Top("link").at = "pause" /\ "link" \in Thread
  BY <1>1, InIs DEF Called, Typed, Thread
<1>3. /\ f.op = Top("link").op /\ f.at = "open"
  BY <1>2 DEF FrameType
<1>4. Steps("link", {"apply"}, "pause", f.at) /\ Work("link")' = f /\ Top("link") = Work("link")
  BY <1>1, <1>2, <1>3, Walks DEF Called
<1> QED BY <1>3, <1>4 DEF Carries

LEMMA SeesProbeLights ==
  ASSUME Called, Stacks', NEW s, ProbeLights(s)
  PROVE  /\ Steps("link", {"probe"}, "init", "lit") /\ Carries("link")
         /\ Work("link")'.slot = s
<1> SUFFICES ASSUME NEW f, f = [Top("link") EXCEPT !.at = "lit", !.slot = s]
             PROVE  /\ Steps("link", {"probe"}, "init", "lit") /\ Carries("link")
                    /\ Work("link")'.slot = s
  OBVIOUS
<1>1. In("link", {"probe"}, "init") /\ Go("link", f)
  BY DEF ProbeLights
<1>2. Top("link") \in FrameType /\ Top("link").at = "init" /\ "link" \in Thread
  BY <1>1, InIs DEF Called, Typed, Thread
<1>3. /\ f.op = Top("link").op /\ f.at = "lit"
      /\ f.kept = Top("link").kept
      /\ f.retired = Top("link").retired
      /\ f.slot = s
  BY <1>2 DEF FrameType
<1>4. Steps("link", {"probe"}, "init", f.at) /\ Work("link")' = f /\ Top("link") = Work("link")
  BY <1>1, <1>2, <1>3, Walks DEF Called
<1> QED BY <1>3, <1>4 DEF Carries

LEMMA SeesStartFails ==
  ASSUME Called, Stacks', NEW t \in Thread, NEW s, StartFails(t, s)
  PROVE  /\ Steps(t, {"start", "apply"} \cap MayRefuse, "work", "failed") /\ Carries(t)
         /\ s \in Work(t).slots
         /\ Work(t)'.slots = Work(t).slots \ {s} /\ Work(t)'.slot = s
<1> DEFINE ops == {"start", "apply"} \cap MayRefuse
<1> SUFFICES ASSUME NEW f, f = [Top(t) EXCEPT !.at = "failed", !.slots = @ \ {s}, !.slot = s]
             PROVE  /\ Steps(t, ops, "work", "failed") /\ Carries(t) /\ s \in Work(t).slots
                    /\ Work(t)'.slots = Work(t).slots \ {s} /\ Work(t)'.slot = s
  OBVIOUS
<1>1. In(t, ops, "work") /\ Go(t, f) /\ s \in Top(t).slots
  BY DEF StartFails, ToStart
<1>2. Top(t) \in FrameType
  BY <1>1, InIs DEF Called, Typed
<1>3. /\ f.op = Top(t).op /\ f.at = "failed" /\ f.slots = Top(t).slots \ {s} /\ f.slot = s
      /\ f.kept = Top(t).kept /\ f.retired = Top(t).retired
  BY <1>2 DEF FrameType
<1>4. Steps(t, ops, "work", f.at) /\ Work(t)' = f /\ Top(t) = Work(t)
  BY <1>1, <1>2, <1>3, Walks DEF Called
<1> QED BY <1>1, <1>3, <1>4 DEF Carries

LEMMA SeesOpenPanel ==
  ASSUME Called, NEW t \in Thread, NEW s \in Slot, OpenPanel(t, s)
  PROVE  Steps(t, {"start", "apply"}, "init", "open") /\ Carries(t) /\ Top(t) = Work(t)
<1> SUFFICES ASSUME NEW f, f = [Top(t) EXCEPT !.at = "open", !.screen = None]
             PROVE  Steps(t, {"start", "apply"}, "init", "open") /\ Carries(t) /\ Top(t) = Work(t)
  OBVIOUS
<1>1. In(t, {"start", "apply"}, "init")
  BY DEF OpenPanel
<1>2. /\ Top(t) = Work(t) /\ Work(t).op \in {"start", "apply"} /\ Work(t).at = "init"
      /\ Work(t) \in FrameType
      /\ t = "main" => Work(t).op \in {"start", "tick"}
      /\ t = "link" => Work(t).op \in {"apply", "probe"}
  BY <1>1, WorkIs DEF Called, Typed
<1>3. /\ f \in FrameType /\ f.op = Work(t).op /\ f.at = "open"
      /\ f.kept = Work(t).kept /\ f.retired = Work(t).retired
  BY <1>2 DEF FrameType, At
<1>4. t = "link" => ~stopped
  BY <1>2 DEF Called, Locks
<1>5. Moved(t, f)
  BY <1>3, <1>4, WorkOpens DEF Called
<1> QED BY <1>2, <1>3, <1>5 DEF Steps, Carries, Moved

\* Out of apply() a slot without a worker is dropped; out of start() it is too,
\* and the exception goes on.
LEMMA SeesDropSlot ==
  ASSUME Called, Stacks', NEW t \in Thread, DropSlot(t)
  PROVE  /\ Top(t) = Work(t) /\ Work(t) \in FrameType /\ Work(t).at = "failed"
         /\ \/ Work(t).op = "start" /\ t = "main" /\ Moved(t, Idle) /\ ~Looping'
            \/ /\ Steps(t, {"apply"}, "failed", "work") /\ Carries(t) /\ t = "link"
               /\ Work(t)'.slots = Work(t).slots
<1> SUFFICES ASSUME NEW f, f = [Top(t) EXCEPT !.at = "work", !.slot = None]
             PROVE  /\ Top(t) = Work(t) /\ Work(t) \in FrameType /\ Work(t).at = "failed"
                    /\ \/ Work(t).op = "start" /\ t = "main" /\ Moved(t, Idle) /\ ~Looping'
                       \/ /\ Steps(t, {"apply"}, "failed", "work") /\ Carries(t) /\ t = "link"
                          /\ Work(t)'.slots = Work(t).slots
  OBVIOUS
<1>1. /\ In(t, {"start", "apply"}, "failed")
      /\ IF Top(t).op = "start" THEN Raise ELSE Go(t, f)
  BY DEF DropSlot
<1>2. /\ Top(t) = Work(t) /\ Work(t).op \in {"start", "apply"} /\ Work(t).at = "failed"
      /\ Work(t) \in FrameType
      /\ t = "main" => Work(t).op \in {"start", "tick"}
      /\ t = "link" => Work(t).op \in {"apply", "probe"}
  BY <1>1, WorkIs DEF Called, Typed
<1>3. CASE Work(t).op = "start"
  <2>1. t = "main" /\ Raise
    BY <1>1, <1>2, <1>3 DEF Thread
  <2>2. In("main", {"start", "apply"} \cap {"start"}, "failed")
    BY <1>1, <1>2, <1>3, <2>1 DEF In
  <2> QED BY <1>2, <1>3, <2>1, <2>2, WorkRaises DEF Called, Typed
<1>4. CASE Work(t).op = "apply"
  <2>1. t = "link" /\ Go(t, f) /\ In(t, {"apply"}, "failed")
    BY <1>1, <1>2, <1>4 DEF Thread, In
  <2>2. /\ f.op = Top(t).op /\ f.at = "work" /\ f.slots = Top(t).slots
        /\ f.kept = Top(t).kept /\ f.retired = Top(t).retired
    BY <1>2 DEF FrameType
  <2>3. Steps(t, {"apply"}, "failed", f.at) /\ Work(t)' = f
    BY <2>1, <2>2, Walks DEF Called
  <2> QED BY <1>2, <2>1, <2>2, <2>3 DEF Carries
<1> QED BY <1>2, <1>3, <1>4

LEMMA SeesReturns ==
  ASSUME Called, NEW t \in Thread, NEW ops, NEW at, In(t, ops, at),
         ops \subseteq {"start", "tick", "apply", "probe"}, Return(t)
  PROVE  Moved(t, Idle) /\ Top(t) = Work(t) /\ Work(t).op \in ops /\ Work(t).at = at
BY WorkReturns, WorkIs DEF Called, Typed

LEMMA SeesEnterTick ==
  ASSUME Called, Stacks', EnterTick
  PROVE  /\ Work("main").op = "tick" /\ Work("main").at = "enter" /\ Lock("main")
         /\ Moved("main", Idle) \/ Steps("main", {"tick"}, "enter", "check")
<1> SUFFICES ASSUME NEW f, f = [Frame("tick", "check") EXCEPT !.slots = slots]
             PROVE  /\ Work("main").op = "tick" /\ Work("main").at = "enter" /\ Lock("main")
                    /\ Moved("main", Idle) \/ Steps("main", {"tick"}, "enter", "check")
  OBVIOUS
<1>1. /\ In("main", {"tick"}, "enter") /\ Lock("main") /\ "main" \in Thread
      /\ Return("main") \/ Go("main", f)
  BY DEF EnterTick, Thread
<1>2. Top("main").op = "tick" /\ Top("main") = Work("main") /\ Work("main").at = "enter"
  BY <1>1, WorkIs DEF Called, Typed
<1>3. f.op = "tick" /\ f.at = "check"
  <2>1. PICK g \in FrameType : g = Frame("tick", "check") /\ g.op = "tick" /\ g.at = "check"
    BY FrameIs DEF Op, At
  <2>2. f = [g EXCEPT !.slots = slots]
    BY <2>1
  <2> QED BY <2>1, <2>2 DEF FrameType
<1>4. CASE Return("main")
  BY <1>1, <1>2, <1>4, SeesReturns
<1>5. CASE Go("main", f)
  <2>1. Steps("main", {"tick"}, "enter", f.at)
    BY <1>1, <1>2, <1>3, <1>5, Walks DEF Called
  <2> QED BY <1>1, <1>2, <1>3, <2>1
<1> QED BY <1>1, <1>4, <1>5

\* What apply() has in hand once it has adopted the configuration.
LEMMA SeesEnterApply ==
  ASSUME Called, Stacks', EnterApply
  PROVE  /\ Work("link").op = "apply" /\ Work("link").at = "enter" /\ Lock("link")
         /\ \/ Moved("link", Idle)
            \/ /\ Steps("link", {"apply"}, "enter", "join") /\ ~stopped
               /\ Work("link")'.kept \subseteq slots
               /\ Work("link")'.retired = slots \ Work("link")'.kept
<1> DEFINE K == Keeps(Top("link").screens)
           C == Top("link").screens \ {screen[s] : s \in K}
<1> SUFFICES ASSUME NEW f, f = [Frame("apply", "join") EXCEPT !.screens = C, !.kept = K,
                                   !.retired = slots \ K, !.before = config]
             PROVE  /\ Work("link").op = "apply" /\ Work("link").at = "enter" /\ Lock("link")
                    /\ \/ Moved("link", Idle)
                       \/ /\ Steps("link", {"apply"}, "enter", "join") /\ ~stopped
                          /\ Work("link")'.kept \subseteq slots
                          /\ Work("link")'.retired = slots \ Work("link")'.kept
  OBVIOUS
<1>1. /\ In("link", {"apply"}, "enter") /\ Lock("link") /\ "link" \in Thread
      /\ Return("link") \/ (~stopped /\ Go("link", f))
  BY DEF EnterApply, Thread
<1>2. Top("link").op = "apply" /\ Top("link") = Work("link") /\ Work("link").at = "enter"
  BY <1>1, WorkIs DEF Called, Typed
<1>3. f.op = "apply" /\ f.at = "join" /\ f.kept = K /\ f.retired = slots \ K /\ K \subseteq slots
  <2>1. PICK g \in FrameType : g = Frame("apply", "join") /\ g.op = "apply" /\ g.at = "join"
    BY FrameIs DEF Op, At
  <2>2. f = [g EXCEPT !.screens = C, !.kept = K, !.retired = slots \ K, !.before = config]
    BY <2>1
  <2>3. K \subseteq slots
    BY DEF Keeps
  <2> HIDE DEF K, C
  <2> QED BY <2>1, <2>2, <2>3 DEF FrameType
<1> HIDE DEF K, C
<1>4. CASE Return("link")
  BY <1>1, <1>2, <1>4, SeesReturns
<1>5. CASE ~stopped /\ Go("link", f)
  <2>1. Steps("link", {"apply"}, "enter", f.at) /\ Work("link")' = f
    BY <1>1, <1>2, <1>3, <1>5, Walks DEF Called
  <2> QED BY <1>1, <1>2, <1>3, <1>5, <2>1
<1> QED BY <1>1, <1>4, <1>5

LEMMA SeesEnterProbe ==
  ASSUME Called, Stacks', EnterProbe
  PROVE  /\ Work("link").op = "probe" /\ Work("link").at = "enter" /\ Lock("link")
         /\ Moved("link", Idle) \/ (Steps("link", {"probe"}, "enter", "pause") /\ ~stopped)
<1> SUFFICES ASSUME NEW f, f = [Top("link") EXCEPT !.at = "pause", !.slots = HasWorker(slots)]
             PROVE  /\ Work("link").op = "probe" /\ Work("link").at = "enter" /\ Lock("link")
                    /\ Moved("link", Idle) \/ (Steps("link", {"probe"}, "enter", "pause") /\ ~stopped)
  OBVIOUS
<1>1. /\ In("link", {"probe"}, "enter") /\ Lock("link") /\ "link" \in Thread
      /\ Return("link") \/ (~stopped /\ Go("link", f))
  BY DEF EnterProbe, Thread
<1>2. /\ Top("link").op = "probe" /\ Top("link") = Work("link") /\ Work("link").at = "enter"
      /\ Top("link") \in FrameType
  BY <1>1, WorkIs DEF Called, Typed
<1>3. f.op = Top("link").op /\ f.at = "pause"
  BY <1>2 DEF FrameType
<1>4. CASE Return("link")
  BY <1>1, <1>2, <1>4, SeesReturns
<1>5. CASE ~stopped /\ Go("link", f)
  <2>1. Steps("link", {"probe"}, "enter", f.at)
    BY <1>1, <1>3, <1>5, Walks DEF Called
  <2> QED BY <1>1, <1>2, <1>3, <1>5, <2>1
<1> QED BY <1>1, <1>4, <1>5

LEMMA SeesProbePaused ==
  ASSUME Called, Stacks', ProbePaused
  PROVE  Moved("link", Idle) \/ Steps("link", {"probe"}, "pause", "open")
<1> SUFFICES ASSUME NEW f, f = [Top("link") EXCEPT !.at = "open"]
             PROVE  Moved("link", Idle) \/ Steps("link", {"probe"}, "pause", "open")
  OBVIOUS
<1>1. In("link", {"probe"}, "pause") /\ "link" \in Thread /\ (Return("link") \/ Go("link", f))
  BY DEF ProbePaused, Thread
<1>2. Top("link") \in FrameType
  BY <1>1, InIs DEF Called, Typed
<1>3. f.op = Top("link").op /\ f.at = "open"
  BY <1>2 DEF FrameType
<1>4. CASE Return("link")
  BY <1>1, <1>4, SeesReturns
<1>5. CASE Go("link", f)
  <2>1. Steps("link", {"probe"}, "pause", f.at)
    BY <1>1, <1>3, <1>5, Walks DEF Called
  <2> QED BY <1>3, <2>1
<1> QED BY <1>1, <1>4, <1>5

\* The link calls in while it does nothing, and not into start() unless the
\* rack lets it.
LEMMA SeesCalls ==
  ASSUME Called, LinkMayCall, NEW f \in FrameType, f.op \in {"apply", "probe"}, Call("link", f)
  PROVE  /\ Moved("link", f) /\ Work("link") = Idle
         /\ ~EarlyPush => Work("main").op # "start"
<1>1. Moved("link", f) /\ Work("link") = Idle
  BY WorkCalls DEF LinkMayCall, Called, Typed, Thread
<1>2. ASSUME ~EarlyPush, Work("main").op = "start"
      PROVE  FALSE
  <2>1. Depth("main") >= 2 /\ MainCall.op = "start" /\ Depth("main") \in Nat
    BY <1>2, IdleIs, StackIs DEF Work, Called, Typed, Thread
  <2>2. Depth("main") - 1 \in DOMAIN stack["main"] /\ stack["main"][Depth("main") - 1] = MainCall
    <3>1. stack["main"] \in Seq(FrameType)
      BY DEF Called, Typed, Stacks, Thread
    <3>2. Depth("main") + 1 - 2 = Depth("main") - 1
      BY <2>1
    <3> QED BY <2>1, <3>1, <3>2 DEF MainCall, Fr, Depth
  <2> QED BY <1>2, <2>1, <2>2 DEF LinkMayCall
<1> QED BY <1>1, <1>2

LEMMA SeesStop ==
  ASSUME Called, NEW at, In("link", {"stop"}, at)
  PROVE  Work("link") = Idle
<1>1. Depth("link") \in Levels("link") /\ Top("link") = Fr("link", Depth("link")) /\ Top("link").op = "stop"
  BY InIs DEF Called, Typed, Thread
<1>2. Depth("link") = 1
  BY <1>1, StackIs DEF Called, LinkShape, Levels, Typed, Thread
<1> QED BY <1>1, <1>2 DEF Work, LinkCall

\* A step of which a method's work is all that the calls see.
LEMMA CalledGo ==
  ASSUME Called, Typed', NEW t \in Thread, NEW ops, NEW from, NEW to, Steps(t, ops, from, to),
         from # "enter", to # "enter", UNCHANGED stopped,
         Work(t).op = "start" /\ to = "failed" => "start" \in MayRefuse
  PROVE  Called'
BY LocksGo DEF Called, Steps, Moves

LEMMA CalledIdle ==
  ASSUME Called, Typed', NEW t \in Thread, Moved(t, Idle), UNCHANGED stopped
  PROVE  Called'
BY LocksIdle DEF Called, Moved, Moves

LEMMA CalledSame ==
  ASSUME Called, Typed', NEW t \in Thread, Moved(t, Work(t)), UNCHANGED stopped
  PROVE  Called'
<1>1. \A u \in Thread : Work(u)' = Work(u) /\ SameStops(u)
  BY DEF Moved, Moves
<1> QED BY <1>1, LocksSame DEF Called, Moved, Moves

LEMMA AllUntouched ==
  ASSUME Called, UNCHANGED stack
  PROVE  Moved("main", Work("main"))
<1>1. \A t \in Thread : Untouched(t)
  BY DEF Untouched, Depth, Fr, Levels
<1> QED BY <1>1, UntouchedIs DEF Moved, Moves, Called, Typed, Stacks, Thread

LEMMA CalledOpening ==
  ASSUME Called, Typed', NEW t \in Thread, Opening(t)
  PROVE  Called'
<1> Stacks'
  BY DEF Typed
<1>1. ASSUME NEW x, BeginOpen(t, x)
      PROVE  Called'
  BY <1>1, SeesBeginOpen, CalledGo DEF BeginOpen
<1>2. ASSUME NEW x, SkipOpen(t, x)
      PROVE  Called'
  BY <1>2, SeesSkipOpen, CalledGo DEF SkipOpen
<1>3. CASE OpenFails(t)
  BY <1>3, SeesOpenFails, CalledGo DEF OpenFails
<1>4. CASE OpensDone(t)
  BY <1>4, SeesOpensDone, CalledGo DEF OpensDone
<1>5. ASSUME NEW s \in Slot, OpenPanel(t, s)
      PROVE  Called'
  BY <1>5, SeesOpenPanel, CalledGo DEF OpenPanel
<1>6. ASSUME NEW s \in Slot, StartFails(t, s)
      PROVE  Called'
  <2>1. Steps(t, {"start", "apply"} \cap MayRefuse, "work", "failed")
    BY <1>6, SeesStartFails
  <2>2. Work(t).op \in MayRefuse
    BY <2>1 DEF Steps
  <2> QED BY <1>6, <2>1, <2>2, CalledGo DEF StartFails
<1>7. ASSUME NEW s \in Slot, NEW w \in Worker, StartWorker(t, s, w)
      PROVE  Called'
  BY <1>7, SeesStartWorker, CalledGo DEF StartWorker
<1>8. CASE RecordWorker(t)
  BY <1>8, SeesRecordWorker, CalledGo DEF RecordWorker
<1>9. CASE DropSlot(t)
  <2>1. UNCHANGED stopped
    BY <1>9 DEF DropSlot
  <2>2. CASE Work(t).op = "start" /\ t = "main" /\ Moved(t, Idle)
    BY <2>1, <2>2, CalledIdle
  <2>3. CASE Steps(t, {"apply"}, "failed", "work")
    BY <2>1, <2>3, CalledGo
  <2> QED BY <1>9, <2>2, <2>3, SeesDropSlot
<1> QED BY <1>1, <1>2, <1>3, <1>4, <1>5, <1>6, <1>7, <1>8, <1>9 DEF Opening

\* EnterStop: from here on the rack is stopped, and nothing is applied or probed.
LEMMA EnterStopIs ==
  ASSUME Called, Typed', NEW t \in Thread, EnterStop(t)
  PROVE  /\ Called' /\ StopMoved(t) /\ (Ended' <=> Ended)
         /\ SameStops(t) \/ \A k \in Nat : \A s \in Slot : Claims(t, k, s)' <=> Claims(t, k, s)
<1>1. /\ In(t, {"stop"}, "enter") /\ Lock(t) /\ Go(t, Frame("stop", "join")) /\ stopped'
  BY DEF EnterStop
<1> SUFFICES ASSUME NEW f \in FrameType, f = Frame("stop", "join"), f.op = "stop", f.at = "join"
             PROVE  /\ Called' /\ StopMoved(t) /\ (Ended' <=> Ended)
                    /\ \/ SameStops(t)
                       \/ \A k \in Nat : \A s \in Slot : Claims(t, k, s)' <=> Claims(t, k, s)
  BY FrameIs DEF Op, At
<1>2. /\ StopMoved(t) /\ (Ended' <=> Ended) /\ Depth(t) \in Nat
      /\ \A s \in Slot : ~Claims(t, Depth(t), s)
      /\ \A k \in Nat :
           /\ InStop(t, k)' <=> k = Depth(t) \/ InStop(t, k)
           /\ \A s \in Slot : Claims(t, k, s)' <=> k # Depth(t) /\ Claims(t, k, s)
  <2>1. Go(t, f)
    BY <1>1
  <2> QED BY <1>1, <2>1, StopGoes DEF Called, Typed
<1>3. \A k \in Nat : \A s \in Slot : Claims(t, k, s)' <=> Claims(t, k, s)
  BY <1>2
<1>4. \A u \in Thread \ {t} : ~Held(u) /\ ~Held(u)'
  <2>1. ASSUME NEW u \in Thread \ {t}
        PROVE  ~Held(u) /\ ~Held(u)'
    <3>1. ~Held(u) /\ Work(u)' = Work(u) /\ \A k \in Nat : InStop(u, k)' <=> InStop(u, k)
      BY <1>1, <1>2, HeldIs DEF Called, Typed, StopMoved, SameStops
    <3> QED BY <3>1 DEF Held, Locked
  <2> QED BY <2>1
<1>5. Locks'
  <2>1. ~(Held("main")' /\ Held("link")')
    BY <1>4 DEF Thread
  <2>2. ~(Work("link")'.op \in {"apply", "probe"} /\ Work("link")'.at # "enter")
    <3>1. Work("link")' = Work("link")
      BY <1>2 DEF StopMoved, Thread
    <3>2. CASE t = "link"
      BY <1>1, <3>1, <3>2, SeesStop, IdleIs
    <3>3. CASE t = "main"
      <4>1. ~Locked(Work("link"))
        BY <1>4, <3>3 DEF Held, Thread
      <4> QED BY <3>1, <4>1 DEF Locked
    <3> QED BY <3>2, <3>3 DEF Thread
  <2>3. Work("main")' = Work("main") /\ Work("link")' = Work("link") /\ Idle' = Idle
    BY <1>2 DEF StopMoved, Thread, Idle, Frame
  <2> QED BY <1>1, <2>1, <2>2, <2>3 DEF Locks, Called
<1> QED BY <1>2, <1>3, <1>5 DEF Called, StopMoved

\* The other steps of a stop() are those of one that has the lock.
LEMMA CalledStop ==
  ASSUME Called, Typed', NEW t \in Thread, StopMoved(t), UNCHANGED stopped,
         \A k \in Nat : InStop(t, k)' => InStop(t, k)
  PROVE  Called'
<1>1. Work("main")' = Work("main") /\ Work("link")' = Work("link") /\ Idle' = Idle
  BY DEF StopMoved, Thread, Idle, Frame
<1>2. \A u \in Thread : \A k \in Nat : InStop(u, k)' => InStop(u, k)
  BY DEF StopMoved, SameStops
<1>3. (Held("main")' => Held("main")) /\ (Held("link")' => Held("link"))
  BY <1>1, <1>2 DEF Held, Locked, Thread
<1> QED BY <1>1, <1>2, <1>3 DEF Called, Locks, StopMoved

\* A stop() that goes on to join, to claim a panel, to close it or to return.
LEMMA JoinAllIs ==
  ASSUME Called, Typed', NEW t \in Thread, JoinAll(t)
  PROVE  /\ Called' /\ StopMoved(t) /\ (Ended' <=> Ended) /\ InStop(t, Depth(t)) /\ Depth(t) \in Nat
         /\ \A k \in Nat : \A s \in Slot : Claims(t, k, s)' <=> Claims(t, k, s)
<1> SUFFICES ASSUME NEW f \in FrameType, f = Frame("stop", "blank"), f.op = "stop", f.at = "blank"
             PROVE  /\ Called' /\ StopMoved(t) /\ (Ended' <=> Ended) /\ InStop(t, Depth(t)) /\ Depth(t) \in Nat
                    /\ \A k \in Nat : \A s \in Slot : Claims(t, k, s)' <=> Claims(t, k, s)
  BY FrameIs DEF Op, At
<1>1. In(t, {"stop"}, "join") /\ Go(t, f) /\ UNCHANGED stopped
  BY DEF JoinAll
<1>2. /\ StopMoved(t) /\ (Ended' <=> Ended) /\ Depth(t) \in Nat /\ InStop(t, Depth(t))
      /\ \A s \in Slot : ~Claims(t, Depth(t), s)
      /\ \A k \in Nat :
           /\ InStop(t, k)' <=> k = Depth(t) \/ InStop(t, k)
           /\ \A s \in Slot : Claims(t, k, s)' <=> k # Depth(t) /\ Claims(t, k, s)
  BY <1>1, StopGoes DEF Called, Typed
<1> QED BY <1>1, <1>2, CalledStop

LEMMA ClaimPanelIs ==
  ASSUME Called, Typed', NEW t \in Thread, NEW s \in Slot, ClaimPanel(t, s)
  PROVE  /\ Called' /\ StopMoved(t) /\ (Ended' <=> Ended) /\ InStop(t, Depth(t)) /\ Depth(t) \in Nat
         /\ \A k \in Nat : \A o \in Slot :
              Claims(t, k, o)' <=> (k = Depth(t) /\ o = s) \/ (k # Depth(t) /\ Claims(t, k, o))
         /\ \A o \in Slot : ~Claims(t, Depth(t), o)
<1>1. PICK f \in FrameType : Go(t, f) /\ f.op = "stop" /\ f.at = "close" /\ f.slot = s
  <2>1. PICK g \in FrameType : g = Frame("stop", "close") /\ g.op = "stop" /\ g.at = "close"
    BY FrameIs DEF Op, At
  <2> DEFINE h == [g EXCEPT !.slot = s]
  <2>2. h \in FrameType /\ h.op = "stop" /\ h.at = "close" /\ h.slot = s
    BY <2>1 DEF FrameType
  <2> QED BY <2>1, <2>2 DEF ClaimPanel
<1>2. In(t, {"stop"}, "blank") /\ UNCHANGED stopped
  BY DEF ClaimPanel
<1>3. /\ StopMoved(t) /\ (Ended' <=> Ended) /\ Depth(t) \in Nat /\ InStop(t, Depth(t))
      /\ \A o \in Slot : ~Claims(t, Depth(t), o)
      /\ \A k \in Nat :
           /\ InStop(t, k)' <=> k = Depth(t) \/ InStop(t, k)
           /\ \A o \in Slot : Claims(t, k, o)' <=>
                 IF k = Depth(t) THEN s = o ELSE Claims(t, k, o)
  <2>1. Stacks /\ MainShape /\ LinkShape
    BY DEF Called, Typed
  <2>2. /\ StopMoved(t) /\ (Ended' <=> Ended) /\ Depth(t) \in Nat
        /\ InStop(t, Depth(t)) <=> "blank" # "enter"
        /\ \A o \in Slot : Claims(t, Depth(t), o) <=> "blank" = "close" /\ Top(t).slot = o
        /\ \A k \in Nat :
             /\ InStop(t, k)' <=> IF k = Depth(t) THEN f.at # "enter" ELSE InStop(t, k)
             /\ \A o \in Slot : Claims(t, k, o)' <=>
                   IF k = Depth(t) THEN f.at = "close" /\ f.slot = o ELSE Claims(t, k, o)
    BY <1>1, <1>2, <2>1, StopGoes
  <2>3. InStop(t, Depth(t)) /\ \A o \in Slot : ~Claims(t, Depth(t), o)
    BY <2>2
  <2> QED BY <1>1, <2>2, <2>3
<1> QED BY <1>2, <1>3, CalledStop

LEMMA ClosePanelIs ==
  ASSUME Called, Typed', NEW t \in Thread, ClosePanel(t)
  PROVE  /\ Called' /\ StopMoved(t) /\ (Ended' <=> Ended) /\ InStop(t, Depth(t)) /\ Depth(t) \in Nat
         /\ Top(t).slot \in Slot /\ Claims(t, Depth(t), Top(t).slot)
         /\ \A k \in Nat : \A s \in Slot : Claims(t, k, s)' <=> k # Depth(t) /\ Claims(t, k, s)
<1> SUFFICES ASSUME NEW f \in FrameType, f = Frame("stop", "blank"), f.op = "stop", f.at = "blank"
             PROVE  /\ Called' /\ StopMoved(t) /\ (Ended' <=> Ended) /\ InStop(t, Depth(t)) /\ Depth(t) \in Nat
                    /\ Top(t).slot \in Slot /\ Claims(t, Depth(t), Top(t).slot)
                    /\ \A k \in Nat : \A s \in Slot : Claims(t, k, s)' <=> k # Depth(t) /\ Claims(t, k, s)
  BY FrameIs DEF Op, At
<1>1. In(t, {"stop"}, "close") /\ Go(t, f) /\ UNCHANGED stopped
  BY DEF ClosePanel
<1>2. Top(t).slot \in Slot
  BY <1>1, InIs DEF Called, Typed, FramesOK, FrameOK
<1>3. /\ StopMoved(t) /\ (Ended' <=> Ended) /\ Depth(t) \in Nat /\ InStop(t, Depth(t))
      /\ Claims(t, Depth(t), Top(t).slot)
      /\ \A k \in Nat :
           /\ InStop(t, k)' <=> k = Depth(t) \/ InStop(t, k)
           /\ \A s \in Slot : Claims(t, k, s)' <=> k # Depth(t) /\ Claims(t, k, s)
  BY <1>1, <1>2, StopGoes DEF Called, Typed
<1> QED BY <1>1, <1>2, <1>3, CalledStop

LEMMA StopReturnsIs ==
  ASSUME Called, Typed', NEW t \in Thread, StopReturns(t)
  PROVE  /\ Called' /\ StopMoved(t) /\ (t = "link" => (Ended' <=> Ended))
         /\ InStop(t, Depth(t)) /\ Depth(t) \in Nat
         /\ \A k \in Nat : \A s \in Slot : Claims(t, k, s)' <=> Claims(t, k, s)
         /\ \A s \in Slot : ~Claims(t, Depth(t), s)
         /\ t = "main" /\ Ended' => Depth(t) = 2
<1>1. In(t, {"stop"}, "blank") /\ Return(t) /\ UNCHANGED stopped
  BY DEF StopReturns
<1>2. /\ StopMoved(t) /\ (t = "link" => (Ended' <=> Ended)) /\ InStop(t, Depth(t))
      /\ \A k \in Nat :
           /\ InStop(t, k)' <=> k # Depth(t) /\ InStop(t, k)
           /\ \A s \in Slot : Claims(t, k, s)' <=> k # Depth(t) /\ Claims(t, k, s)
      /\ t = "main" /\ Ended' => Depth(t) = 2
  BY <1>1, StopEnds DEF Called, Typed
<1>3. /\ Depth(t) \in Nat /\ Top(t) = Fr(t, Depth(t)) /\ Top(t).at = "blank"
  BY <1>1, InIs DEF Called, Typed
<1>4. \A s \in Slot : ~Claims(t, Depth(t), s)
  BY <1>3 DEF Claims
<1> QED BY <1>1, <1>2, <1>3, <1>4, CalledStop

LEMMA CalledMain ==
  ASSUME Called, Typed', Main
  PROVE  Called'
<1> Stacks' /\ "main" \in Thread
  BY DEF Typed, Thread
<1>1. CASE StartReturns \/ TickReturns
  <2>1. /\ In("main", {"start"}, "open") \/ In("main", {"start"}, "work") \/ In("main", {"tick"}, "check")
        /\ Return("main") /\ UNCHANGED stopped
    BY <1>1 DEF StartReturns, TickReturns
  <2> QED BY <2>1, SeesReturns, CalledIdle
<1>2. CASE Lap
  <2>1. In("main", {"run"}, "loop") /\ UNCHANGED stopped
    BY <1>2 DEF Lap
  <2>2. CASE Raise
    BY <2>1, <2>2, WorkRaises, CalledIdle DEF Called, Typed
  <2>3. CASE Call("main", Frame("tick", "enter"))
    <3>1. PICK f \in FrameType : f = Frame("tick", "enter") /\ f.op = "tick" /\ f.at = "enter"
      BY FrameIs DEF Op, At
    <3>2. Moved("main", f) /\ ~Locked(f)
      BY <2>1, <2>3, <3>1, WorkCalls DEF Called, Typed, Locked
    <3>3. Locks'
      BY <2>1, <3>1, <3>2, LocksTake DEF Called
    <3> QED BY <3>2, <3>3 DEF Called, Moved, Moves
  <2> QED BY <1>2, <2>2, <2>3 DEF Lap
<1>3. CASE Exit
  BY <1>3, ExitIs, CalledSame DEF Called, Typed, Exit
<1>4. CASE EnterTick
  <2>1. UNCHANGED stopped
    BY <1>4 DEF EnterTick
  <2>2. CASE Moved("main", Idle)
    BY <2>1, <2>2, CalledIdle
  <2>3. CASE Steps("main", {"tick"}, "enter", "check")
    <3>1. \A u \in Thread \ {"main"} : ~Held(u)
      BY <1>4, SeesEnterTick, HeldIs DEF Called, Typed
    <3> SUFFICES ASSUME NEW f, f = Work("main")'
                 PROVE  Called'
      OBVIOUS
    <3>2. Moved("main", f) /\ f.op = "tick"
      BY <2>3 DEF Steps, Moved
    <3>3. Locks'
      BY <2>1, <3>1, <3>2, LocksTake DEF Called
    <3> QED BY <3>2, <3>3 DEF Called, Moved, Moves
  <2> QED BY <1>4, <2>2, <2>3, SeesEnterTick
<1>5. CASE RecordReplacement
  BY <1>5, SeesRecordReplacement, CalledGo DEF RecordReplacement
<1>6. ASSUME NEW s \in Slot, ReplaceFails(s)
      PROVE  Called'
  BY <1>6, WorkRaises, CalledIdle DEF ReplaceFails, Called, Typed
<1>7. ASSUME NEW s \in Slot, NEW w \in Worker, Replace(s, w)
      PROVE  Called'
  BY <1>7, SeesReplace, CalledGo DEF Replace
<1> QED BY <1>1, <1>2, <1>3, <1>4, <1>5, <1>6, <1>7 DEF Main

LEMMA CalledLink ==
  ASSUME Called, Typed', Link
  PROVE  Called'
<1> Stacks' /\ "link" \in Thread
  BY DEF Typed, Thread
<1>1. CASE EnterApply
  <2>1. UNCHANGED stopped
    BY <1>1 DEF EnterApply
  <2>2. CASE Moved("link", Idle)
    BY <2>1, <2>2, CalledIdle
  <2>3. CASE Steps("link", {"apply"}, "enter", "join") /\ ~stopped
    <3>1. (\A u \in Thread \ {"link"} : ~Held(u)) /\ (~EarlyPush => Work("main").op # "start")
      BY <1>1, <2>3, SeesEnterApply, HeldIs, IdleIs DEF Called, Typed, Locks, Steps
    <3> SUFFICES ASSUME NEW f, f = Work("link")'
                 PROVE  Called'
      OBVIOUS
    <3>2. Moved("link", f) /\ f.op = "apply"
      BY <2>3 DEF Steps, Moved
    <3>3. Locks'
      BY <2>1, <2>3, <3>1, <3>2, LocksTake DEF Called
    <3> QED BY <3>2, <3>3 DEF Called, Moved, Moves
  <2> QED BY <1>1, <2>2, <2>3, SeesEnterApply
<1>2. CASE EnterProbe
  <2>1. UNCHANGED stopped
    BY <1>2 DEF EnterProbe
  <2>2. CASE Moved("link", Idle)
    BY <2>1, <2>2, CalledIdle
  <2>3. CASE Steps("link", {"probe"}, "enter", "pause") /\ ~stopped
    <3>1. (\A u \in Thread \ {"link"} : ~Held(u)) /\ (~EarlyPush => Work("main").op # "start")
      BY <1>2, <2>3, SeesEnterProbe, HeldIs, IdleIs DEF Called, Typed, Locks, Steps
    <3> SUFFICES ASSUME NEW f, f = Work("link")'
                 PROVE  Called'
      OBVIOUS
    <3>2. Moved("link", f) /\ f.op = "probe"
      BY <2>3 DEF Steps, Moved
    <3>3. Locks'
      BY <2>1, <2>3, <3>1, <3>2, LocksTake DEF Called
    <3> QED BY <3>2, <3>3 DEF Called, Moved, Moves
  <2> QED BY <1>2, <2>2, <2>3, SeesEnterProbe
<1>3. CASE JoinRetired
  BY <1>3, SeesJoinRetired, CalledGo DEF JoinRetired
<1>4. CASE BlankRetired
  BY <1>4, SeesBlankRetired, CalledGo DEF BlankRetired
<1>5. CASE ApplyReturns \/ ProbeReturns
  <2>1. /\ \/ In("link", {"apply"}, "work") \/ In("link", {"probe"}, "init")
           \/ In("link", {"probe"}, "lit")
        /\ Return("link") /\ UNCHANGED stopped
    BY <1>5 DEF ApplyReturns, ProbeReturns
  <2> QED BY <2>1, SeesReturns, CalledIdle
<1>6. CASE ProbePaused
  BY <1>6, SeesProbePaused, CalledGo, CalledIdle DEF ProbePaused
<1>7. ASSUME NEW s \in Slot, Pause(s)
      PROVE  Called'
  BY <1>7, SeesPause, CalledGo DEF Pause
<1>8. ASSUME NEW s \in Slot, PauseFails(s)
      PROVE  Called'
  BY <1>8, SeesPauseFails, CalledGo DEF PauseFails
<1>9. ASSUME NEW s \in Slot, ProbeLights(s)
      PROVE  Called'
  BY <1>9, SeesProbeLights, CalledGo DEF ProbeLights
<1> QED BY <1>1, <1>2, <1>3, <1>4, <1>5, <1>6, <1>7, <1>8, <1>9 DEF Link

\* The calls that begin: the link's, and a stop() on either thread.
LEMMA BeginIs ==
  ASSUME Called, Typed', Calls
  PROVE  /\ Called' /\ (Ended' => Ended) /\ (Looping' => Looping) /\ \A t \in Thread : SameStops(t)
         /\ Work("main")' = Work("main")
         /\ \/ Work("link")' = Work("link")
            \/ Work("link") = Idle /\ Work("link")'.at = "enter"
         /\ UNCHANGED <<stopped, config, slots, unavailable, slot, live, thread, held>>
<1>1. UNCHANGED <<stopped, config, slots, unavailable, slot, live, thread, held>>
  BY DEF Calls, Push, Probe, Reclock, Signal
<1>2. ASSUME NEW f \in FrameType, f.op \in {"apply", "probe"}, f.at = "enter", Call("link", f),
             LinkMayCall
      PROVE  /\ Called' /\ (Ended' => Ended) /\ (Looping' => Looping) /\ \A t \in Thread : SameStops(t)
             /\ Work("main")' = Work("main") /\ Work("link") = Idle /\ Work("link")'.at = "enter"
  <2>1. /\ Moved("link", f) /\ Work("link") = Idle
        /\ ~EarlyPush => Work("main").op # "start"
    BY <1>2, SeesCalls
  <2>2. Locks'
    BY <1>1, <1>2, <2>1, LocksTake DEF Called, Locked, Thread
  <2> QED BY <1>2, <2>1, <2>2 DEF Called, Moved, Moves, Thread
<1>3. CASE \E C \in Config : Push(C)
  <2>1. PICK C \in Config : Push(C)
    BY <1>3
  <2> SUFFICES ASSUME NEW f, f = [Frame("apply", "enter") EXCEPT !.screens = C]
               PROVE  /\ Called' /\ (Ended' => Ended) /\ (Looping' => Looping) /\ \A t \in Thread : SameStops(t)
                      /\ Work("main")' = Work("main") /\ Work("link") = Idle /\ Work("link")'.at = "enter"
    BY <1>1
  <2>2. f \in FrameType /\ f.op = "apply" /\ f.at = "enter"
    <3>1. PICK g \in FrameType : g = Frame("apply", "enter") /\ g.op = "apply" /\ g.at = "enter"
      BY FrameIs DEF Op, At
    <3>2. f = [g EXCEPT !.screens = C]
      BY <3>1
    <3>3. C \subseteq Screen
      BY ConfigAssumption
    <3> QED BY <3>1, <3>2, <3>3 DEF FrameType
  <2> QED BY <1>2, <2>1, <2>2 DEF Push
<1>4. CASE \E x \in Candidate : Probe(x)
  <2>1. PICK x \in Candidate : Probe(x)
    BY <1>4
  <2> SUFFICES ASSUME NEW f, f = [Frame("probe", "enter") EXCEPT !.screens = {x}]
               PROVE  /\ Called' /\ (Ended' => Ended) /\ (Looping' => Looping) /\ \A t \in Thread : SameStops(t)
                      /\ Work("main")' = Work("main") /\ Work("link") = Idle /\ Work("link")'.at = "enter"
    BY <1>1
  <2>2. f \in FrameType /\ f.op = "probe" /\ f.at = "enter"
    <3>1. PICK g \in FrameType : g = Frame("probe", "enter") /\ g.op = "probe" /\ g.at = "enter"
      BY FrameIs DEF Op, At
    <3>2. f = [g EXCEPT !.screens = {x}]
      BY <3>1
    <3> QED BY <3>1, <3>2 DEF FrameType
  <2> QED BY <1>2, <2>1, <2>2 DEF Probe
<1>5. CASE Reclock \/ Signal
  <2>1. PICK t \in Thread :
          /\ Call(t, Frame("stop", "enter"))
          /\ (t = "main" /\ stack["main"] # <<>>) \/ (t = "link" /\ stack["link"] = <<>>)
    BY <1>5 DEF Reclock, LinkMayCall, Signal, Alive, Thread
  <2>2. Moved(t, Work(t))
    BY <2>1, StopCalls DEF Called, Typed
  <2>3. Called'
    BY <1>1, <2>2, CalledSame
  <2>4. /\ \A u \in Thread : Work(u)' = Work(u) /\ SameStops(u)
        /\ (Ended' => Ended) /\ (Looping' => Looping)
    BY <2>2 DEF Moved, Moves
  <2> QED BY <1>1, <2>3, <2>4 DEF Thread
<1> QED BY <1>3, <1>4, <1>5 DEF Calls

LEMMA CalledStep ==
  ASSUME Called, Next
  PROVE  Called'
<1>1. Typed'
  BY TypeStep DEF Called
<1>2. CASE \E w \in Worker : Drawing(w)
  <2>1. UNCHANGED <<stack, stopped>>
    BY <1>2 DEF Drawing, BeginTick, Show, Shown, Leave
  <2> QED BY <1>1, <2>1, AllUntouched, CalledSame DEF Thread
<1>3. CASE \E t \in Thread : Opening(t) \/ Stopping(t)
  BY <1>1, <1>3, CalledOpening, EnterStopIs, JoinAllIs, ClaimPanelIs, ClosePanelIs, StopReturnsIs
  DEF Stopping
<1> QED BY <1>1, <1>2, <1>3, CalledMain, CalledLink, BeginIs DEF Next

-----------------------------------------------------------------------------
(* What becomes of each panel.                                             *)

\* What an apply() and a probe have in hand: panels nobody else is closing.
LinkHas(f) ==
  /\ f.op = "apply" =>
       /\ f.at = "join" => /\ f.kept \subseteq slots /\ f.retired \subseteq slots
                           /\ f.kept \cap f.retired = {}
                           /\ ~EarlyPush => slots \subseteq f.kept \cup f.retired
       /\ f.at = "pause" => f.retired \cap slots = {}
       /\ f.at \in {"join", "pause"} => \A s \in f.retired : ~shut[s]
       /\ f.at \in {"work", "begun", "failed"} => f.slots \subseteq slots
       /\ f.at \in {"begun", "failed"} => f.slot \in slots \ f.slots
  /\ f.op = "probe" /\ f.at = "lit" => ~shut[f.slot] /\ f.slot \notin slots

\* Panel s is lit outside _slots: retired and to be blanked, or a candidate.
InHand(f, s) ==
  \/ f.op = "apply" /\ f.at = "pause" /\ s \in f.retired
  \/ f.op = "probe" /\ f.at = "lit" /\ s = f.slot

Claimed(s) == \E t \in Thread : \E k \in Nat : Claims(t, k, s)

\* A panel is closed once, by the stop() that claimed it or the call that has
\* it in hand, and until then somebody knows of it who will close it.  A start()
\* that is refused a worker closes it too, claimed or not.
PanelOK(s) ==
  /\ "start" \notin MayRefuse => closes[s] \in {0, 1}
  /\ ~shut[s] => closes[s] = 0
  /\ ~stopped /\ s \in slots => ~shut[s]
  /\ Claimed(s) => shut[s] /\ ("start" \notin MayRefuse => closes[s] = 0)
  /\ \A t, u \in Thread : \A k, j \in Nat : Claims(t, k, s) /\ Claims(u, j, s) => t = u /\ k = j
  /\ ~EarlyPush /\ closes[s] = 0 =>
        (s \in slots /\ ~shut[s]) \/ Claimed(s) \/ InHand(Work("link"), s)

Panels == LinkHas(Work("link")) /\ \A s \in Slot : PanelOK(s)

\* A step that leaves the panels, and who claims them, as they are.
LEMMA PanelsQuiet ==
  ASSUME Panels, UNCHANGED <<slots, shut, closes>>, stopped => stopped',
         \A t \in Thread : \A k \in Nat : \A s \in Slot : Claims(t, k, s)' <=> Claims(t, k, s),
         LinkHas(Work("link"))',
         \A s \in Slot : InHand(Work("link"), s) => InHand(Work("link"), s)'
  PROVE  Panels'
<1>1. ASSUME NEW s \in Slot
      PROVE  PanelOK(s)'
  <2>1. Claimed(s)' <=> Claimed(s)
    BY DEF Claimed
  <2>2. PanelOK(s)
    BY DEF Panels
  <2>3. \A t, u \in Thread : \A k, j \in Nat :
          Claims(t, k, s)' /\ Claims(u, j, s)' => t = u /\ k = j
    BY <2>2 DEF PanelOK
  <2>4. InHand(Work("link"), s) => InHand(Work("link"), s)'
    OBVIOUS
  <2> HIDE DEF InHand, Claimed, Claims
  <2> QED BY <2>1, <2>2, <2>3, <2>4 DEF PanelOK
<1> QED BY <1>1 DEF Panels

LEMMA PanelsMove ==
  ASSUME Panels, NEW t \in Thread, Moves(t), UNCHANGED <<stopped, slots, shut, closes>>,
         t = "link" => /\ LinkHas(Work("link"))'
                       /\ \A s \in Slot : InHand(Work("link"), s) => InHand(Work("link"), s)'
  PROVE  Panels'
<1>1. \A u \in Thread : \A k \in Nat : \A s \in Slot : Claims(u, k, s)' <=> Claims(u, k, s)
  BY DEF Moves, SameStops
<1>2. CASE t = "main"
  <2>1. Work("link")' = Work("link")
    BY <1>2 DEF Moves, Thread
  <2>2. LinkHas(Work("link"))'
    BY <2>1 DEF LinkHas, Panels
  <2>3. \A s \in Slot : InHand(Work("link"), s) => InHand(Work("link"), s)'
    BY <2>1 DEF InHand
  <2> QED BY <1>1, <2>2, <2>3, PanelsQuiet
<1>3. CASE t = "link"
  BY <1>1, <1>3, PanelsQuiet
<1> QED BY <1>2, <1>3 DEF Thread

\* A step of a method in which it has no panel in hand outside _slots.
LEMMA PanelsOn ==
  ASSUME Panels, NEW t \in Thread, NEW ops, NEW from, NEW to, Steps(t, ops, from, to),
         from \notin {"pause", "lit"}, UNCHANGED <<stopped, slots, shut, closes>>,
         to \in {"init", "open"} \/ (t = "link" => LinkHas(Work("link"))')
  PROVE  Panels'
<1>1. t = "link" => LinkHas(Work("link"))'
  BY DEF LinkHas, Steps
<1>2. t = "link" => \A s \in Slot : ~InHand(Work("link"), s)
  BY DEF InHand, Steps
<1>3. Moves(t)
  BY DEF Steps
<1> QED BY <1>1, <1>2, <1>3, PanelsMove

LEMMA PanelsIdle ==
  ASSUME Panels, NEW t \in Thread, Moved(t, Idle), UNCHANGED <<stopped, slots, shut, closes>>,
         t = "link" => \A s \in Slot : ~InHand(Work("link"), s)
  PROVE  Panels'
<1>1. Work(t)' = Idle /\ Idle' = Idle /\ Moves(t)
  BY DEF Moved, Idle, Frame
<1>2. t = "link" => LinkHas(Work("link"))'
  BY <1>1, IdleIs DEF LinkHas
<1> QED BY <1>1, <1>2, PanelsMove

LEMMA WorkOld ==
  ASSUME Typed, NEW t \in Thread
  PROVE  /\ Work(t) = Idle \/ \E k \in Levels(t) : Work(t) = Fr(t, k)
         /\ Work(t) \in FrameType /\ FrameOK(Work(t))
<1>1. Depth("main") \in Nat /\ Depth("link") \in Nat
  BY StackIs DEF Typed, Thread
<1>2. Work(t) = Idle \/ \E k \in Levels(t) : Work(t) = Fr(t, k)
  BY <1>1 DEF Work, MainCall, LinkCall, Levels, Thread
<1>3. FrameOK(Idle)
  BY IdleIs DEF FrameOK, Placed
<1>4. \A k \in Levels(t) : Fr(t, k) \in FrameType /\ FrameOK(Fr(t, k))
  BY StackIs DEF Typed, FramesOK
<1> QED BY <1>2, <1>3, <1>4, IdleIs

\* No call mentions a vacant slot.
LEMMA Unmentioned ==
  ASSUME Typed, NEW s \in Slot, Vacant(s)
  PROVE  /\ ~Claimed(s) /\ \A t \in Thread : ~Mentions(Work(t), s)
         /\ s \notin slots /\ \A w \in Worker : on[w] # s
<1>1. /\ s \notin slots /\ \A w \in Worker : on[w] # s
      /\ \A t \in Thread : \A k \in Levels(t) : ~Mentions(Fr(t, k), s)
  BY VacantIs DEF Typed
<1>2. ~Claimed(s)
  BY <1>1 DEF Claimed, Claims, InStop, Mentions
<1>3. ~Mentions(Idle, s)
  BY IdleIs, Numbers DEF Mentions
<1>4. \A t \in Thread : ~Mentions(Work(t), s)
  BY <1>1, <1>3, WorkOld
<1> QED BY <1>1, <1>2, <1>4

\* A panel that has just been opened is lit, and in _slots or in a probe's hand.
LEMMA PanelsOpened ==
  ASSUME Called, Panels, NEW t \in Thread, NEW s \in Slot, Opened(t, s), Moves(t),
         UNCHANGED stopped,
         \/ slots' = slots \cup {s} /\ (t = "link" => Work("link").at = "init" /\ Work("link")'.at = "open")
         \/ /\ UNCHANGED slots /\ t = "link" /\ Work("link").at = "init"
            /\ Work("link")'.op = "probe" /\ Work("link")'.at = "lit" /\ Work("link")'.slot = s,
         t = "main" => Work("main").op = "start"
  PROVE  Panels'
<1>1. /\ Vacant(s) /\ ~shut'[s] /\ closes'[s] = 0
      /\ \A o \in Slot \ {s} : shut'[o] = shut[o] /\ closes'[o] = closes[o]
  BY OpenedIs DEF Called
<1>2. /\ ~Claimed(s) /\ ~Mentions(Work("link"), s) /\ s \notin slots
  BY <1>1, Unmentioned DEF Called, Thread
<1>3. \A o \in Slot : /\ Claimed(o)' <=> Claimed(o)
                      /\ \A u \in Thread : \A k \in Nat : Claims(u, k, o)' <=> Claims(u, k, o)
  BY DEF Moves, SameStops, Claimed
<1>4. t = "main" => Work("link")' = Work("link")
  BY DEF Moves, Thread
<1>5. slots \subseteq Slot /\ Work("link") \in FrameType /\ FrameOK(Work("link"))
  BY WorkOld DEF Called, Typed, Values, Thread
<1>6. LinkHas(Work("link"))'
  <2>1. CASE t = "main"
    <3>1. /\ Work("link").retired \subseteq Slot \ {s} /\ Work("link").slot # s
          /\ s \notin Work("link").kept
      BY <1>2, <1>5 DEF Mentions, FrameType
    <3>2. slots' = slots \cup {s}
      BY <2>1
    <3>3. Work("link").at = "lit" => Work("link").slot \in Slot \ {s}
      BY <1>5, <3>1 DEF FrameOK
    <3>4. Work("link").op = "apply" => EarlyPush
      BY <2>1, IdleIs DEF Called, Locks
    <3>5. LinkHas(Work("link"))
      BY DEF Panels
    <3> QED BY <1>1, <1>4, <2>1, <3>1, <3>2, <3>3, <3>4, <3>5 DEF LinkHas
  <2>2. CASE t = "link"
    BY <1>1, <1>2, <2>2 DEF LinkHas
  <2> QED BY <2>1, <2>2 DEF Thread
<1>7. ASSUME NEW o \in Slot \ {s}, InHand(Work("link"), o)
      PROVE  InHand(Work("link"), o)'
  <2>1. CASE t = "main"
    BY <1>4, <1>7, <2>1 DEF InHand
  <2>2. CASE t = "link"
    BY <1>7, <2>2 DEF InHand
  <2> QED BY <2>1, <2>2 DEF Thread
<1>8. ASSUME NEW o \in Slot
      PROVE  PanelOK(o)'
  <2>1. PanelOK(o)
    BY DEF Panels
  <2>2. CASE o = s
    <3>1. \A u, v \in Thread : \A k, j \in Nat : ~Claims(u, k, o)'
      BY <1>2, <1>3, <2>2 DEF Claimed
    <3>2. s \in slots' \/ InHand(Work("link"), s)'
      BY DEF InHand
    <3>3. ~Claimed(o)'
      BY <1>2, <1>3, <2>2
    <3> QED BY <1>1, <2>2, <3>1, <3>2, <3>3 DEF PanelOK
  <2>3. CASE o # s
    <3>1. shut'[o] = shut[o] /\ closes'[o] = closes[o] /\ (o \in slots' <=> o \in slots)
      BY <1>1, <2>3
    <3>2. \A u, v \in Thread : \A k, j \in Nat : Claims(u, k, o)' /\ Claims(v, j, o)' => u = v /\ k = j
      BY <1>3, <2>1 DEF PanelOK
    <3>3. InHand(Work("link"), o) => InHand(Work("link"), o)'
      BY <1>7, <2>3
    <3> QED BY <1>3, <2>1, <3>1, <3>2, <3>3 DEF PanelOK
  <2> QED BY <2>2, <2>3
<1> QED BY <1>6, <1>8 DEF Panels

\* The panels of S are put out by the call that has them.
LEMMA PanelsShut ==
  ASSUME Called, Panels, NEW S \in SUBSET Slot, ShutDown(S), \A s \in S : ~shut[s],
         NEW t \in Thread, Moves(t), UNCHANGED stopped, slots' = slots \ S, LinkHas(Work("link"))',
         \A s \in Slot \ S : InHand(Work("link"), s) => InHand(Work("link"), s)'
  PROVE  Panels'
<1>1. /\ \A s \in S : shut'[s] /\ closes'[s] = closes[s] + 1
      /\ \A s \in Slot \ S : shut'[s] = shut[s] /\ closes'[s] = closes[s]
  BY ShutDownTypes DEF Called, Typed, Values
<1>2. ASSUME NEW s \in Slot
      PROVE  PanelOK(s)'
  <2>1. PanelOK(s)
    BY DEF Panels
  <2>2. /\ Claimed(s)' <=> Claimed(s)
        /\ \A u \in Thread : \A k \in Nat : Claims(u, k, s)' <=> Claims(u, k, s)
    BY DEF Moves, SameStops, Claimed
  <2>3. \A u, v \in Thread : \A k, j \in Nat : Claims(u, k, s)' /\ Claims(v, j, s)' => u = v /\ k = j
    BY <2>1, <2>2 DEF PanelOK
  <2>4. CASE s \in S
    <3>1. closes[s] = 0 /\ ~Claimed(s) /\ s \notin slots'
      BY <2>1, <2>4 DEF PanelOK
    <3>2. closes'[s] = 1 /\ shut'[s]
      BY <1>1, <2>4, <3>1
    <3> QED BY <2>2, <2>3, <3>1, <3>2 DEF PanelOK
  <2>5. CASE s \notin S
    <3>1. shut'[s] = shut[s] /\ closes'[s] = closes[s] /\ (s \in slots' <=> s \in slots)
      BY <1>1, <2>5
    <3>2. InHand(Work("link"), s) => InHand(Work("link"), s)'
      BY <2>5
    <3> QED BY <2>1, <2>2, <2>3, <3>1, <3>2 DEF PanelOK
  <2> QED BY <2>4, <2>5
<1> QED BY <1>2 DEF Panels

LEMMA PanelsDropSlot ==
  ASSUME Called, Panels, Called', DropSlot("link"), Steps("link", {"apply"}, "failed", "work"),
         Top("link") = Work("link"), Work("link")'.slots = Work("link").slots
  PROVE  Panels'
<1> DEFINE s == Work("link").slot
<1>2. /\ ShutDown({s}) /\ slots' = slots \ {s} /\ UNCHANGED stopped
  BY DEF DropSlot
<1>3. /\ s \in slots \ Work("link").slots /\ Work("link").slots \subseteq slots
      /\ Work("link").op = "apply" /\ Work("link").at = "failed"
  BY DEF Panels, LinkHas, Steps
<1>4. s \in Slot /\ ~shut[s]
  <2>1. ~stopped /\ s \in Slot
    BY <1>3 DEF Called, Typed, Values, Locks
  <2> QED BY <1>3, <2>1 DEF Panels, PanelOK
<1>5. LinkHas(Work("link"))'
  BY <1>2, <1>3 DEF LinkHas, Steps
<1>6. \A o \in Slot : ~InHand(Work("link"), o)
  BY <1>3 DEF InHand
<1>7. Moves("link") /\ "link" \in Thread
  BY DEF Steps, Thread
<1> HIDE DEF s
<1> QED BY <1>2, <1>4, <1>5, <1>6, <1>7, PanelsShut

\* start() closes the panel of a worker it was refused, without asking who claimed
\* it meanwhile.
LEMMA PanelsDropStart ==
  ASSUME ~EarlyPush, Called, Panels, DropSlot("main"), Work("main").op = "start",
         Work("main").at = "failed", Top("main") = Work("main"), Moved("main", Idle)
  PROVE  Panels'
<1> SUFFICES ASSUME NEW s \in Slot, s = Work("main").slot
             PROVE  Panels'
  BY WorkOld DEF Called, FrameOK, Thread
<1>1. ShutDown({s}) /\ slots' = slots \ {s} /\ UNCHANGED stopped
  BY DEF DropSlot
<1>2. /\ shut'[s] /\ closes'[s] = closes[s] + 1 /\ closes[s] \in Nat
      /\ \A o \in Slot \ {s} : shut'[o] = shut[o] /\ closes'[o] = closes[o]
  BY <1>1, ShutDownTypes DEF Called, Typed, Values
<1>3. Work("link") = Idle /\ Work("link")' = Idle
  BY DEF Called, Locks, Moved, Moves, Thread, Idle, Frame
<1>4. LinkHas(Work("link"))' /\ \A o \in Slot : ~InHand(Work("link"), o)
  BY <1>3, IdleIs DEF LinkHas, InHand
<1>5. "start" \in MayRefuse
  BY DEF Called, Locks
<1>6. ASSUME NEW o \in Slot
      PROVE  PanelOK(o)'
  <2>1. PanelOK(o)
    BY DEF Panels
  <2>2. /\ Claimed(o)' <=> Claimed(o)
        /\ \A u \in Thread : \A k \in Nat : Claims(u, k, o)' <=> Claims(u, k, o)
    BY DEF Moved, Moves, SameStops, Claimed
  <2>3. \A u, v \in Thread : \A k, j \in Nat : Claims(u, k, o)' /\ Claims(v, j, o)' => u = v /\ k = j
    BY <2>1, <2>2 DEF PanelOK
  <2>4. CASE o = s
    <3>1. closes'[o] # 0 /\ shut'[o] /\ o \notin slots'
      BY <1>1, <1>2, <2>4
    <3> QED BY <1>5, <2>2, <2>3, <3>1 DEF PanelOK
  <2>5. CASE o # s
    <3>1. shut'[o] = shut[o] /\ closes'[o] = closes[o] /\ (o \in slots' <=> o \in slots)
      BY <1>1, <1>2, <2>5
    <3> QED BY <1>1, <1>4, <1>5, <2>1, <2>2, <2>3, <3>1 DEF PanelOK
  <2> QED BY <2>4, <2>5
<1> QED BY <1>4, <1>6 DEF Panels

LEMMA PanelsOpening ==
  ASSUME "start" \notin MayRefuse \/ ~EarlyPush,
         Called, Panels, Called', NEW t \in Thread, Opening(t)
  PROVE  Panels'
<1> Stacks'
  BY DEF Called, Typed
<1>1. ASSUME NEW x, BeginOpen(t, x)
      PROVE  Panels'
  <2>1. UNCHANGED <<stopped, slots, shut, closes>>
    BY <1>1 DEF BeginOpen, slot
  <2> QED BY <1>1, <2>1, SeesBeginOpen, PanelsOn
<1>2. ASSUME NEW x, SkipOpen(t, x)
      PROVE  Panels'
  <2>1. UNCHANGED <<stopped, slots, shut, closes>>
    BY <1>2 DEF SkipOpen, slot
  <2> QED BY <1>2, <2>1, SeesSkipOpen, PanelsOn
<1>3. CASE OpenFails(t)
  <2>1. UNCHANGED <<stopped, slots, shut, closes>>
    BY <1>3 DEF OpenFails, slot
  <2> QED BY <1>3, <2>1, SeesOpenFails, PanelsOn
<1>4. CASE OpensDone(t)
  <2>1. UNCHANGED <<stopped, slots, shut, closes>>
    BY <1>4 DEF OpensDone, slot
  <2>2. Steps(t, {"start", "apply"}, "open", "work") /\ Work(t)'.slots = slots
    BY <1>4, SeesOpensDone
  <2>3. t = "link" => LinkHas(Work("link"))'
    BY <2>1, <2>2 DEF LinkHas, Steps
  <2> QED BY <2>1, <2>2, <2>3, PanelsOn
<1>5. ASSUME NEW s \in Slot, OpenPanel(t, s)
      PROVE  Panels'
  <2>1. UNCHANGED stopped /\ slots' = slots \cup {s} /\ Opened(t, s)
    BY <1>5 DEF OpenPanel
  <2>2. Steps(t, {"start", "apply"}, "init", "open")
    BY <1>5, SeesOpenPanel
  <2>3. /\ Moves(t) /\ (t = "main" => Work("main").op = "start")
        /\ t = "link" => Work("link").at = "init" /\ Work("link")'.at = "open"
    BY <2>2 DEF Steps
  <2> QED BY <2>1, <2>3, PanelsOpened
<1>6. ASSUME NEW s \in Slot, StartFails(t, s)
      PROVE  Panels'
  <2>1. UNCHANGED <<stopped, slots, shut, closes>>
    BY <1>6 DEF StartFails, slot
  <2>2. /\ Steps(t, {"start", "apply"} \cap MayRefuse, "work", "failed") /\ s \in Work(t).slots
        /\ Work(t)'.slots = Work(t).slots \ {s} /\ Work(t)'.slot = s
    BY <1>6, SeesStartFails
  <2>3. t = "link" => LinkHas(Work("link"))'
    BY <2>1, <2>2 DEF LinkHas, Steps, Panels
  <2> QED BY <2>1, <2>2, <2>3, PanelsOn
<1>7. ASSUME NEW s \in Slot, NEW w \in Worker, StartWorker(t, s, w)
      PROVE  Panels'
  <2>1. UNCHANGED <<stopped, slots, shut, closes>>
    BY <1>7 DEF StartWorker, slot
  <2>2. /\ Steps(t, {"start", "apply"}, "work", "begun") /\ s \in Work(t).slots
        /\ Work(t)'.slots = Work(t).slots \ {s} /\ Work(t)'.slot = s
    BY <1>7, SeesStartWorker
  <2>3. t = "link" => LinkHas(Work("link"))'
    BY <2>1, <2>2 DEF LinkHas, Steps, Panels
  <2> QED BY <2>1, <2>2, <2>3, PanelsOn
<1>8. CASE RecordWorker(t)
  <2>1. UNCHANGED <<stopped, slots, shut, closes>>
    BY <1>8 DEF RecordWorker
  <2>2. Steps(t, {"start", "apply"}, "begun", "work") /\ Work(t)'.slots = Work(t).slots
    BY <1>8, SeesRecordWorker
  <2>3. t = "link" => LinkHas(Work("link"))'
    BY <2>1, <2>2 DEF LinkHas, Steps, Panels
  <2> QED BY <2>1, <2>2, <2>3, PanelsOn
<1>9. CASE DropSlot(t)
  <2>1. CASE Work(t).op = "start" /\ t = "main" /\ Moved(t, Idle)
    <3>1. ~EarlyPush
      BY <1>9, <2>1, SeesDropSlot DEF Called, Locks
    <3> QED BY <1>9, <2>1, <3>1, SeesDropSlot, PanelsDropStart
  <2>2. CASE Steps(t, {"apply"}, "failed", "work") /\ t = "link" /\ Work(t)'.slots = Work(t).slots
    BY <1>9, <2>2, SeesDropSlot, PanelsDropSlot
  <2> QED BY <1>9, <2>1, <2>2, SeesDropSlot
<1> QED BY <1>1, <1>2, <1>3, <1>4, <1>5, <1>6, <1>7, <1>8, <1>9 DEF Opening

LEMMA MainMoves ==
  ASSUME Called, Typed', Main
  PROVE  Moves("main") /\ UNCHANGED <<stopped, slots, shut, closes>>
<1> Stacks' /\ "main" \in Thread
  BY DEF Typed, Thread
<1>1. UNCHANGED <<stopped, slots, shut, closes>>
  BY DEF Main, StartReturns, Lap, Exit, EnterTick, RecordReplacement, TickReturns, ReplaceFails,
         Replace, slot
<1>2. CASE StartReturns \/ TickReturns
  <2>1. /\ In("main", {"start"}, "open") \/ In("main", {"start"}, "work") \/ In("main", {"tick"}, "check")
        /\ Return("main")
    BY <1>2 DEF StartReturns, TickReturns
  <2> QED BY <1>1, <2>1, SeesReturns DEF Moved
<1>3. CASE Lap
  <2>1. In("main", {"run"}, "loop")
    BY <1>3 DEF Lap
  <2>2. CASE Raise
    BY <1>1, <2>1, <2>2, WorkRaises DEF Called, Typed, Moved
  <2>3. CASE Call("main", Frame("tick", "enter"))
    <3>1. PICK f \in FrameType : f = Frame("tick", "enter") /\ f.op = "tick" /\ f.at = "enter"
      BY FrameIs DEF Op, At
    <3>2. Moved("main", f)
      BY <2>1, <2>3, <3>1, WorkCalls DEF Called, Typed
    <3> QED BY <1>1, <3>2 DEF Moved
  <2> QED BY <1>3, <2>2, <2>3 DEF Lap
<1>4. CASE Exit
  BY <1>1, <1>4, ExitIs DEF Called, Typed, Moved
<1>5. CASE EnterTick
  BY <1>1, <1>5, SeesEnterTick DEF Moved, Steps
<1>6. CASE RecordReplacement
  BY <1>1, <1>6, SeesRecordReplacement DEF Steps
<1>7. ASSUME NEW s \in Slot, ReplaceFails(s)
      PROVE  Moves("main")
  BY <1>7, WorkRaises DEF ReplaceFails, Called, Typed, Moved
<1>8. ASSUME NEW s \in Slot, NEW w \in Worker, Replace(s, w)
      PROVE  Moves("main")
  BY <1>8, SeesReplace DEF Steps
<1> QED BY <1>1, <1>2, <1>3, <1>4, <1>5, <1>6, <1>7, <1>8 DEF Main

LEMMA PanelsJoinRetired ==
  ASSUME Called, Panels, Called', JoinRetired
  PROVE  Panels'
<1> "link" \in Thread /\ Stacks'
  BY DEF Called, Typed, Thread
<1>1. /\ In("link", {"apply"}, "join") /\ slots' = Top("link").kept
      /\ UNCHANGED <<stopped, shut, closes>>
  BY DEF JoinRetired, slot
<1>2. Top("link") = Work("link") /\ Steps("link", {"apply"}, "join", "pause") /\ Carries("link")
  BY <1>1, WorkIs, SeesJoinRetired DEF Called, Typed
<1>3. /\ Work("link").op = "apply" /\ Work("link").at = "join"
      /\ Work("link")'.op = "apply" /\ Work("link")'.at = "pause"
      /\ Work("link")'.retired = Work("link").retired /\ slots' = Work("link").kept
      /\ \A o \in Slot : /\ Claimed(o)' <=> Claimed(o)
                         /\ \A u \in Thread : \A k \in Nat : Claims(u, k, o)' <=> Claims(u, k, o)
  BY <1>1, <1>2 DEF Steps, Carries, Moves, SameStops, Claimed
<1>4. /\ slots' \subseteq slots /\ Work("link").retired \cap slots' = {}
      /\ \A s \in Work("link").retired : ~shut[s]
      /\ ~EarlyPush => slots \subseteq slots' \cup Work("link").retired
  BY <1>3 DEF Panels, LinkHas
<1>5. LinkHas(Work("link"))'
  BY <1>1, <1>3, <1>4 DEF LinkHas
<1>6. ASSUME NEW o \in Slot
      PROVE  PanelOK(o)'
  <2>1. PanelOK(o) /\ ~InHand(Work("link"), o)
    BY <1>3 DEF Panels, InHand
  <2>2. \A u, v \in Thread : \A k, j \in Nat : Claims(u, k, o)' /\ Claims(v, j, o)' => u = v /\ k = j
    BY <1>3, <2>1 DEF PanelOK
  <2>3. o \in Work("link").retired => InHand(Work("link"), o)'
    BY <1>3 DEF InHand
  <2> QED BY <1>1, <1>3, <1>4, <2>1, <2>2, <2>3 DEF PanelOK
<1> QED BY <1>5, <1>6 DEF Panels

LEMMA PanelsBlankRetired ==
  ASSUME Called, Panels, Called', BlankRetired
  PROVE  Panels'
<1> "link" \in Thread /\ Stacks'
  BY DEF Called, Typed, Thread
<1> DEFINE S == Work("link").retired
<1>1. /\ In("link", {"apply"}, "pause") /\ Top("link") = Work("link") /\ Work("link") \in FrameType
      /\ Work("link").op = "apply" /\ Work("link").at = "pause"
  BY WorkIs DEF BlankRetired, Called, Typed
<1>2. ShutDown(S) /\ UNCHANGED <<stopped, slots>>
  BY <1>1 DEF BlankRetired
<1>3. Steps("link", {"apply"}, "pause", "open")
  BY SeesBlankRetired
<1>4. S \cap slots = {} /\ (\A s \in S : ~shut[s]) /\ S \subseteq Slot
  BY <1>1 DEF Panels, LinkHas, FrameType
<1>5. LinkHas(Work("link"))' /\ Moves("link")
  BY <1>3 DEF LinkHas, Steps
<1>6. \A s \in Slot \ S : ~InHand(Work("link"), s)
  BY <1>1 DEF InHand
<1>7. slots' = slots \ S
  BY <1>2, <1>4
<1> HIDE DEF S
<1> QED BY <1>2, <1>4, <1>5, <1>6, <1>7, PanelsShut

LEMMA PanelsProbeReturns ==
  ASSUME Called, Panels, Called', ProbeReturns
  PROVE  Panels'
<1> "link" \in Thread /\ Stacks'
  BY DEF Called, Typed, Thread
<1> DEFINE S == IF Work("link").at = "lit" THEN {Work("link").slot} ELSE {}
<1>1. /\ In("link", {"probe"}, "init") \/ In("link", {"probe"}, "lit")
      /\ Return("link") /\ UNCHANGED <<stopped, slots>>
      /\ ShutDown(IF Top("link").at = "lit" THEN {Top("link").slot} ELSE {})
  BY DEF ProbeReturns
<1>2. /\ Moved("link", Idle) /\ Top("link") = Work("link")
      /\ Work("link").op = "probe" /\ Work("link").at \in {"init", "lit"}
  <2>1. CASE In("link", {"probe"}, "init")
    BY <1>1, <2>1, SeesReturns
  <2>2. CASE In("link", {"probe"}, "lit")
    BY <1>1, <2>2, SeesReturns
  <2> QED BY <1>1, <2>1, <2>2
<1>3. ShutDown(S)
  BY <1>1, <1>2
<1>4. S \cap slots = {} /\ (\A s \in S : ~shut[s]) /\ S \subseteq Slot
  <2>1. Work("link").at = "lit" => Work("link").slot \in Slot
    BY WorkOld DEF Called, FrameOK
  <2> QED BY <1>2, <2>1 DEF Panels, LinkHas
<1>5. LinkHas(Work("link"))' /\ Moves("link")
  <2>1. Work("link")' = Idle /\ Idle' = Idle /\ Moves("link")
    BY <1>2 DEF Moved, Idle, Frame
  <2> QED BY <2>1, IdleIs DEF LinkHas
<1>6. \A s \in Slot \ S : ~InHand(Work("link"), s)
  BY <1>2 DEF InHand
<1>7. slots' = slots \ S
  BY <1>1, <1>4
<1> HIDE DEF S
<1> QED BY <1>1, <1>3, <1>4, <1>5, <1>6, <1>7, PanelsShut

LEMMA PanelsLink ==
  ASSUME Called, Panels, Called', Link
  PROVE  Panels'
<1> "link" \in Thread /\ Stacks'
  BY DEF Called, Typed, Thread
<1>1. CASE EnterApply
  <2>1. UNCHANGED <<stopped, slots, shut, closes>>
    BY <1>1 DEF EnterApply
  <2>2. Work("link").op = "apply" /\ Work("link").at = "enter"
    BY <1>1, SeesEnterApply
  <2>3. CASE Moved("link", Idle)
    BY <2>1, <2>2, <2>3, PanelsIdle DEF InHand
  <2>4. CASE /\ Steps("link", {"apply"}, "enter", "join") /\ ~stopped
             /\ Work("link")'.kept \subseteq slots /\ Work("link")'.retired = slots \ Work("link")'.kept
    <3>1. \A s \in slots : ~shut[s]
      BY <2>4 DEF Panels, PanelOK, Called, Typed, Values
    <3>2. LinkHas(Work("link"))'
      BY <2>1, <2>4, <3>1 DEF LinkHas, Steps
    <3> QED BY <2>1, <2>4, <3>2, PanelsOn
  <2> QED BY <1>1, <2>3, <2>4, SeesEnterApply
<1>2. CASE JoinRetired
  BY <1>2, PanelsJoinRetired
<1>3. CASE BlankRetired
  BY <1>3, PanelsBlankRetired
<1>4. CASE ApplyReturns
  <2>1. UNCHANGED <<stopped, slots, shut, closes>> /\ In("link", {"apply"}, "work") /\ Return("link")
    BY <1>4 DEF ApplyReturns, slot
  <2>2. Moved("link", Idle) /\ Work("link").at = "work"
    BY <2>1, SeesReturns
  <2> QED BY <2>1, <2>2, PanelsIdle DEF InHand
<1>5. CASE EnterProbe
  <2>1. UNCHANGED <<stopped, slots, shut, closes>>
    BY <1>5 DEF EnterProbe, slot
  <2>2. Work("link").op = "probe" /\ Work("link").at = "enter"
    BY <1>5, SeesEnterProbe
  <2>3. CASE Moved("link", Idle)
    BY <2>1, <2>2, <2>3, PanelsIdle DEF InHand
  <2>4. CASE Steps("link", {"probe"}, "enter", "pause")
    <3>1. LinkHas(Work("link"))'
      BY <2>4 DEF LinkHas, Steps
    <3> QED BY <2>1, <2>4, <3>1, PanelsOn
  <2> QED BY <1>5, <2>3, <2>4, SeesEnterProbe
<1>6. CASE ProbePaused
  <2>1. UNCHANGED <<stopped, slots, shut, closes>> /\ In("link", {"probe"}, "pause")
    BY <1>6 DEF ProbePaused, slot
  <2>2. Work("link").op = "probe" /\ Work("link").at = "pause"
    BY <2>1, WorkIs DEF Called, Typed
  <2>3. \A s \in Slot : ~InHand(Work("link"), s)
    BY <2>2 DEF InHand
  <2>4. CASE Moved("link", Idle)
    BY <2>1, <2>3, <2>4, PanelsIdle
  <2>5. CASE Steps("link", {"probe"}, "pause", "open")
    <3>1. LinkHas(Work("link"))' /\ Moves("link")
      BY <2>5 DEF LinkHas, Steps
    <3> QED BY <2>1, <2>3, <3>1, PanelsMove
  <2> QED BY <1>6, <2>4, <2>5, SeesProbePaused
<1>7. CASE ProbeReturns
  BY <1>7, PanelsProbeReturns
<1>8. CASE \E s \in Slot : Pause(s) \/ PauseFails(s)
  <2>1. UNCHANGED <<stopped, slots, shut, closes>>
    BY <1>8 DEF Pause, PauseFails, slot
  <2>2. Steps("link", {"apply", "probe"}, "pause", "pause") /\ Carries("link")
    BY <1>8, SeesPause, SeesPauseFails
  <2>3. LinkHas(Work("link"))' /\ Moves("link")
    BY <2>1, <2>2 DEF LinkHas, Steps, Carries, Panels
  <2>4. \A s \in Slot : InHand(Work("link"), s) => InHand(Work("link"), s)'
    BY <2>2 DEF InHand, Steps, Carries
  <2> QED BY <2>1, <2>3, <2>4, PanelsMove
<1>9. ASSUME NEW s \in Slot, ProbeLights(s)
      PROVE  Panels'
  <2>1. UNCHANGED <<stopped, slots>> /\ Opened("link", s)
    BY <1>9 DEF ProbeLights
  <2>2. Steps("link", {"probe"}, "init", "lit") /\ Work("link")'.slot = s
    BY <1>9, SeesProbeLights
  <2>3. /\ Work("link").at = "init" /\ Work("link")'.op = "probe" /\ Work("link")'.at = "lit"
        /\ Moves("link")
    BY <2>2 DEF Steps
  <2> QED BY <2>1, <2>2, <2>3, PanelsOpened
<1> QED BY <1>1, <1>2, <1>3, <1>4, <1>5, <1>6, <1>7, <1>8, <1>9 DEF Link

\* What a stop() under way means for the link's work.
LEMMA StopRules ==
  ASSUME Called, NEW t \in Thread, NEW k \in Nat, InStop(t, k)
  PROVE  /\ stopped /\ LinkHas(Work("link")) /\ \A s \in Slot : ~InHand(Work("link"), s)
         /\ ~(Work("link").op \in {"apply", "probe"} /\ Work("link").at # "enter")
         /\ \A u \in Thread \ {t} : \A j \in Nat : ~InStop(u, j)
<1>1. stopped /\ ~(Work("link").op \in {"apply", "probe"} /\ Work("link").at # "enter")
  BY DEF Called, Locks
<1>2. LinkHas(Work("link")) /\ \A s \in Slot : ~InHand(Work("link"), s)
  BY <1>1 DEF LinkHas, InHand
<1>3. \A u \in Thread \ {t} : \A j \in Nat : ~InStop(u, j)
  BY DEF Called, Locks, Held, Thread
<1> QED BY <1>1, <1>2, <1>3

LEMMA PanelsClaimPanel ==
  ASSUME Called, Panels, Called', NEW t \in Thread, NEW s \in Slot, ClaimPanel(t, s)
  PROVE  Panels'
<1>1. /\ s \in slots /\ ~shut[s] /\ shut' = [shut EXCEPT ![s] = TRUE]
      /\ UNCHANGED <<stopped, slots, closes>>
  BY DEF ClaimPanel
<1>2. /\ StopMoved(t) /\ InStop(t, Depth(t)) /\ Depth(t) \in Nat
      /\ \A k \in Nat : \A o \in Slot :
           Claims(t, k, o)' <=> (k = Depth(t) /\ o = s) \/ (k # Depth(t) /\ Claims(t, k, o))
      /\ \A o \in Slot : ~Claims(t, Depth(t), o)
  BY ClaimPanelIs DEF Called
<1>3. \A u \in Thread : \A k \in Nat : \A o \in Slot :
        Claims(u, k, o)' <=> Claims(u, k, o) \/ (u = t /\ k = Depth(t) /\ o = s)
  BY <1>2 DEF StopMoved, SameStops
<1>4. /\ stopped /\ ~(Work("link").op \in {"apply", "probe"} /\ Work("link").at # "enter")
      /\ Work("link")' = Work("link")
  BY <1>2, StopRules DEF StopMoved, Thread
<1>5. LinkHas(Work("link"))'
  BY <1>4 DEF LinkHas
<1>6. shut'[s] /\ \A o \in Slot \ {s} : shut'[o] = shut[o]
  BY <1>1 DEF Called, Typed, Values
<1>7. ASSUME NEW o \in Slot
      PROVE  PanelOK(o)'
  <2>1. PanelOK(o)
    BY DEF Panels
  <2>2. ~InHand(Work("link"), o)
    BY <1>4 DEF InHand
  <2>3. CASE o = s
    <3>1. closes[o] = 0 /\ ~Claimed(o)
      BY <1>1, <2>1, <2>3 DEF PanelOK
    <3>2. \A u \in Thread : \A k \in Nat : Claims(u, k, o)' => u = t /\ k = Depth(t)
      BY <1>3, <3>1 DEF Claimed
    <3>3. Claimed(o)'
      BY <1>2, <2>3 DEF Claimed
    <3> QED BY <1>1, <1>4, <1>6, <2>3, <3>1, <3>2, <3>3 DEF PanelOK
  <2>4. CASE o # s
    <3>1. \A u \in Thread : \A k \in Nat : Claims(u, k, o)' <=> Claims(u, k, o)
      BY <1>3, <2>4
    <3>2. Claimed(o)' <=> Claimed(o)
      BY <3>1 DEF Claimed
    <3>3. \A u, v \in Thread : \A k, j \in Nat : Claims(u, k, o)' /\ Claims(v, j, o)' => u = v /\ k = j
      BY <2>1, <3>1 DEF PanelOK
    <3> QED BY <1>1, <1>6, <2>1, <2>2, <2>4, <3>2, <3>3 DEF PanelOK
  <2> QED BY <2>3, <2>4
<1> QED BY <1>5, <1>7 DEF Panels

LEMMA PanelsClosePanel ==
  ASSUME Called, Panels, Called', NEW t \in Thread, ClosePanel(t)
  PROVE  Panels'
<1> SUFFICES ASSUME NEW x, x = Top(t).slot
             PROVE  Panels'
  OBVIOUS
<1>1. closes' = [closes EXCEPT ![x] = @ + 1] /\ UNCHANGED <<stopped, slots, shut>>
  BY DEF ClosePanel
<1>2. /\ StopMoved(t) /\ InStop(t, Depth(t)) /\ Depth(t) \in Nat
      /\ x \in Slot /\ Claims(t, Depth(t), x)
      /\ \A k \in Nat : \A o \in Slot : Claims(t, k, o)' <=> k # Depth(t) /\ Claims(t, k, o)
  BY ClosePanelIs DEF Called
<1>3. \A o \in Slot : Claims(t, Depth(t), o) => o = x
  BY <1>2 DEF Claims
<1>4. \A u \in Thread : \A k \in Nat : \A o \in Slot :
        Claims(u, k, o)' <=> Claims(u, k, o) /\ ~(u = t /\ k = Depth(t))
  BY <1>2 DEF StopMoved, SameStops
<1>5. /\ stopped /\ ~(Work("link").op \in {"apply", "probe"} /\ Work("link").at # "enter")
      /\ Work("link")' = Work("link")
  BY <1>2, StopRules DEF StopMoved, Thread
<1>6. LinkHas(Work("link"))'
  BY <1>5 DEF LinkHas
<1>7. PanelOK(x) /\ Claimed(x)
  BY <1>2 DEF Panels, Claimed
<1>8. /\ closes'[x] # 0 /\ ("start" \notin MayRefuse => closes'[x] = 1)
      /\ \A o \in Slot \ {x} : closes'[o] = closes[o]
  <2>1. "start" \notin MayRefuse => closes[x] = 0
    BY <1>7 DEF PanelOK
  <2>2. closes[x] \in Nat /\ closes'[x] = closes[x] + 1
    BY <1>1, <1>2 DEF Called, Typed, Values
  <2> QED BY <1>1, <1>2, <2>1, <2>2 DEF Called, Typed, Values
<1>9. ASSUME NEW o \in Slot
      PROVE  PanelOK(o)'
  <2>1. PanelOK(o)
    BY DEF Panels
  <2>2. ~InHand(Work("link"), o)
    BY <1>5 DEF InHand
  <2>3. \A u, v \in Thread : \A k, j \in Nat : Claims(u, k, o)' /\ Claims(v, j, o)' => u = v /\ k = j
    BY <1>4, <2>1 DEF PanelOK
  <2>4. CASE o = x
    <3>1. \A u \in Thread : \A k \in Nat : Claims(u, k, o) => u = t /\ k = Depth(t)
      BY <1>2, <1>7, <2>4 DEF PanelOK
    <3>2. ~Claimed(o)'
      BY <1>4, <3>1 DEF Claimed
    <3>3. shut[o]
      BY <1>7, <2>4 DEF PanelOK
    <3> QED BY <1>1, <1>5, <1>8, <2>3, <2>4, <3>2, <3>3 DEF PanelOK
  <2>5. CASE o # x
    <3>1. \A u \in Thread : \A k \in Nat : Claims(u, k, o)' <=> Claims(u, k, o)
      BY <1>3, <1>4, <2>5
    <3>2. Claimed(o)' <=> Claimed(o)
      BY <3>1 DEF Claimed
    <3> QED BY <1>1, <1>8, <2>1, <2>2, <2>3, <2>5, <3>2 DEF PanelOK
  <2> QED BY <2>4, <2>5
<1> QED BY <1>6, <1>9 DEF Panels

LEMMA PanelsStopping ==
  ASSUME Called, Panels, Called', NEW t \in Thread, Stopping(t)
  PROVE  Panels'
<1> Typed'
  BY DEF Called
<1>1. CASE EnterStop(t) \/ JoinAll(t) \/ StopReturns(t)
  <2>1. UNCHANGED <<slots, shut, closes>> /\ (stopped => stopped')
    BY <1>1 DEF EnterStop, JoinAll, StopReturns, slot
  <2>2. StopMoved(t) /\ \A k \in Nat : \A s \in Slot : Claims(t, k, s)' <=> Claims(t, k, s)
    <3>1. CASE EnterStop(t)
      BY <3>1, EnterStopIs DEF SameStops
    <3>2. CASE JoinAll(t)
      BY <3>2, JoinAllIs
    <3>3. CASE StopReturns(t)
      BY <3>3, StopReturnsIs
    <3> QED BY <1>1, <3>1, <3>2, <3>3
  <2>3. Work("link")' = Work("link")
    BY <2>2 DEF StopMoved, Thread
  <2>4. \A u \in Thread : \A k \in Nat : \A s \in Slot : Claims(u, k, s)' <=> Claims(u, k, s)
    BY <2>2 DEF StopMoved, SameStops
  <2>5. LinkHas(Work("link"))'
    BY <2>1, <2>3 DEF Panels, LinkHas
  <2>6. \A s \in Slot : InHand(Work("link"), s) => InHand(Work("link"), s)'
    BY <2>3 DEF InHand
  <2> QED BY <2>1, <2>4, <2>5, <2>6, PanelsQuiet
<1>2. CASE ClosePanel(t)
  BY <1>2, PanelsClosePanel
<1>3. ASSUME NEW s \in Slot, ClaimPanel(t, s)
      PROVE  Panels'
  BY <1>3, PanelsClaimPanel
<1> QED BY <1>1, <1>2, <1>3 DEF Stopping

LEMMA DrawingIs ==
  ASSUME Called, NEW w \in Worker, Drawing(w)
  PROVE  Moves("main") /\ UNCHANGED <<stack, stopped, slots, slot>>
<1>1. UNCHANGED <<stack, stopped, slots, slot>>
  BY DEF Drawing, BeginTick, Show, Shown, Leave
<1> QED BY <1>1, AllUntouched DEF Moved

LEMMA PanelsStep ==
  ASSUME "start" \notin MayRefuse \/ ~EarlyPush, Called, Panels, Next
  PROVE  Panels'
<1>1. Called' /\ Typed'
  BY CalledStep DEF Called
<1>2. "main" \in Thread /\ "link" \in Thread
  BY DEF Thread
<1>3. ASSUME NEW w \in Worker, Drawing(w)
      PROVE  Panels'
  <2>1. Moves("main") /\ UNCHANGED <<stopped, slots, shut, closes>>
    BY <1>3, DrawingIs DEF slot
  <2> QED BY <1>2, <2>1, PanelsMove
<1>4. CASE Main
  BY <1>1, <1>2, <1>4, MainMoves, PanelsMove
<1>5. CASE Calls
  <2>1. /\ \A t \in Thread : SameStops(t)
        /\ Work("link")' = Work("link") \/ (Work("link") = Idle /\ Work("link")'.at = "enter")
        /\ UNCHANGED <<stopped, slots, shut, closes>>
    BY <1>1, <1>5, BeginIs DEF slot
  <2>2. \A u \in Thread : \A k \in Nat : \A s \in Slot : Claims(u, k, s)' <=> Claims(u, k, s)
    BY <2>1 DEF SameStops
  <2>3. LinkHas(Work("link"))'
    BY <2>1 DEF Panels, LinkHas
  <2>4. \A s \in Slot : InHand(Work("link"), s) => InHand(Work("link"), s)'
    BY <2>1, IdleIs DEF InHand
  <2> QED BY <2>1, <2>2, <2>3, <2>4, PanelsQuiet
<1> QED BY <1>1, <1>3, <1>4, <1>5, PanelsOpening, PanelsStopping, PanelsLink DEF Next

\* Where the process begins.
LEMMA InitIs ==
  ASSUME Init
  PROVE  /\ Called /\ Panels /\ ~Ended /\ Work("link") = Idle /\ Work("main").at = "open"
         /\ slots = {}
<1>1. Typed /\ slots = {} /\ ~stopped
  BY TypedInit DEF Init
<1>2. PICK C \in Boot :
        stack = [t \in Thread |->
                   IF t = "main"
                     THEN <<[Frame("start", "open") EXCEPT !.screens = C], Frame("run", "loop")>>
                     ELSE <<>>]
  BY DEF Init
<1> SUFFICES ASSUME NEW f, f = [Frame("start", "open") EXCEPT !.screens = C],
                    NEW g, g = Frame("run", "loop")
             PROVE  /\ Called /\ Panels /\ ~Ended /\ Work("link") = Idle /\ Work("main").at = "open"
                    /\ slots = {}
  OBVIOUS
<1>3. stack["main"] = <<f, g>> /\ stack["link"] = <<>>
  BY <1>2 DEF Thread
<1>4. f.op = "start" /\ f.at = "open"
  <2>1. PICK h \in FrameType : h = Frame("start", "open") /\ h.op = "start" /\ h.at = "open"
    BY FrameIs DEF Op, At
  <2>2. f = [h EXCEPT !.screens = C]
    BY <2>1
  <2> QED BY <2>1, <2>2 DEF FrameType
<1>5. g.op = "run" /\ g.at = "loop"
  BY FrameIs DEF Op, At
<1>6. /\ Depth("main") = 2 /\ Depth("link") = 0
      /\ Fr("main", 1) = g /\ Fr("main", 2) = f /\ Levels("main") = 1..2 /\ Levels("link") = {}
  <2>1. stack["main"] = <<f, g>> /\ stack["link"] = <<>> /\ Len(<<f, g>>) = 2
        /\ <<f, g>>[1] = f /\ <<f, g>>[2] = g
    BY <1>3
  <2>2. Depth("main") = 2 /\ Depth("link") = 0
    BY <2>1 DEF Depth
  <2> QED BY <2>1, <2>2 DEF Fr, Levels
<1>7. MainShape /\ LinkShape /\ ~Ended /\ Work("main") = f /\ Work("link") = Idle
  <2>1. MainCall = f
    BY <1>6 DEF MainCall
  <2>2. Work("main") = f /\ Work("link") = Idle /\ ~Ended
    BY <1>4, <1>6, <2>1 DEF Work, Ended
  <2>3. LinkShape
    BY <1>6 DEF LinkShape
  <2>4. \A k \in Levels("main") : ~(k >= 3)
    BY <1>6
  <2>5. MainShape
    BY <1>4, <1>5, <1>6, <2>1, <2>4 DEF MainShape
  <2> QED BY <2>2, <2>3, <2>5
<1>8. \A t \in Thread : \A k \in Nat : ~InStop(t, k)
  <2>1. \A k \in Levels("main") : k = 1 \/ k = 2
    BY <1>6
  <2>2. Fr("main", 1).op # "stop" /\ Fr("main", 2).op # "stop"
    BY <1>4, <1>5, <1>6
  <2>3. \A k \in Nat : ~InStop("main", k)
    BY <2>1, <2>2 DEF InStop
  <2>4. \A k \in Nat : ~InStop("link", k)
    BY <1>6 DEF InStop
  <2> QED BY <2>3, <2>4 DEF Thread
<1>9. Locks
  <2>1. ~Held("link")
    BY <1>7, <1>8, IdleIs DEF Held, Thread
  <2>2. Work("main").op = "start" /\ Work("main").at = "open" /\ Work("link").op = "run"
    BY <1>4, <1>7, IdleIs
  <2> QED BY <1>7, <1>8, <2>1, <2>2 DEF Locks
<1>10. \A s \in Slot : ~Claimed(s) /\ \A t \in Thread : \A k \in Nat : ~Claims(t, k, s)
  BY <1>8 DEF Claimed, Claims
<1>11. \A s \in Slot : closes[s] = 1 /\ shut[s]
  BY DEF Init
<1>12. Panels
  BY <1>1, <1>7, <1>10, <1>11, IdleIs DEF Panels, LinkHas, PanelOK
<1> QED BY <1>1, <1>4, <1>7, <1>9, <1>12 DEF Called

\* A stuttering step.
LEMMA VarsStay ==
  ASSUME Called, UNCHANGED vars
  PROVE  Called' /\ Moves("main") /\ UNCHANGED <<stopped, slots, shut, closes, worker, lease, live, doing, on, by>>
<1>1. UNCHANGED <<stack, stopped, slots, shut, closes, worker, lease, live, doing, on, by>>
  BY DEF vars, slot, thread
<1>2. Typed'
  BY TypesStay DEF Called
<1>3. Moved("main", Work("main"))
  BY <1>1, AllUntouched
<1>4. Called'
  BY <1>1, <1>2, <1>3, CalledSame DEF Thread
<1> QED BY <1>1, <1>3, <1>4 DEF Moved

\* Whichever calls of stop(), apply() and a probe meet over it, and however deep
\* a signal nests them, a panel is slept and closed at most once.  A start whose
\* workers the machine may refuse is the case that this does not hold of.
THEOREM ShutOnceHolds ==
  ASSUME "start" \notin MayRefuse
  PROVE  Spec => []ShutOnce
<1>1. Init => Called /\ Panels
  BY InitIs
<1>2. Called /\ Panels /\ [Next]_vars => (Called /\ Panels)'
  <2>1. ASSUME Called, Panels, Next
        PROVE  (Called /\ Panels)'
    BY <2>1, CalledStep, PanelsStep
  <2>2. ASSUME Called, Panels, UNCHANGED vars
        PROVE  (Called /\ Panels)'
    BY <2>2, VarsStay, PanelsMove DEF Thread
  <2> QED BY <2>1, <2>2
<1>3. Panels => ShutOnce
  BY DEF Panels, PanelOK, ShutOnce
<1> QED BY <1>1, <1>2, <1>3, PTL DEF Spec

-----------------------------------------------------------------------------
(* The end of the process.                                                 *)

Dark == Ended => stopped /\ \A s \in Slot : closes[s] > 0 /\ (s \in slots => shut[s])

\* A step that opens no panel.
Dims ==
  /\ stopped => stopped'
  /\ slots' \subseteq slots
  /\ \A s \in Slot : (shut[s] => shut'[s]) /\ (closes[s] > 0 => closes'[s] > 0)

LEMMA DarkDims ==
  ASSUME Dark, Dims, Ended' => Ended
  PROVE  Dark'
<1> SUFFICES ASSUME Ended
             PROVE  stopped' /\ \A s \in Slot : closes'[s] > 0 /\ (s \in slots' => shut'[s])
  BY DEF Dark
<1>1. stopped /\ \A s \in Slot : closes[s] > 0 /\ (s \in slots => shut[s])
  BY DEF Dark
<1> QED BY <1>1 DEF Dims

LEMMA StillDims ==
  ASSUME UNCHANGED <<stopped, slots, shut, closes>>
  PROVE  Dims
BY DEF Dims

LEMMA ShutDims ==
  ASSUME Called, NEW S \in SUBSET Slot, ShutDown(S), UNCHANGED stopped, slots' \subseteq slots
  PROVE  Dims
<1>1. \A s \in Slot : shut'[s] = (shut[s] \/ s \in S) /\ closes[s] \in Nat
  BY ShutDownTypes DEF Called, Typed, Values
<1>2. /\ \A s \in S : closes'[s] = closes[s] + 1
      /\ \A s \in Slot \ S : closes'[s] = closes[s]
  BY ShutDownTypes DEF Called
<1>3. \A s \in Slot : closes[s] > 0 => closes'[s] > 0
  BY <1>1, <1>2
<1> QED BY <1>1, <1>3 DEF Dims

\* Nothing is opened once the rack is down.
LEMMA DarkOpened ==
  ASSUME Called, Dark, Moves("main") \/ Moves("link"), NEW t \in Thread,
         Work(t).op \in {"start", "apply", "probe"}, Work(t).at = "init"
  PROVE  Dark'
<1>1. CASE Ended
  <2>1. Depth("main") \in Nat /\ Depth("main") < 2
    BY <1>1, StackIs DEF Ended, Called, Typed, Thread
  <2>2. Work("main") = Idle
    BY <2>1 DEF Work
  <2>3. t = "link" /\ Work("link").op \in {"apply", "probe"}
    <3>1. t # "main"
      BY <2>2, IdleIs
    <3>2. Work("link") \in FrameType /\ FrameOK(Work("link")) /\ t = "link"
      BY <3>1, WorkOld DEF Called, Thread
    <3>3. Work("link").op # "start"
      BY IdleIs, StackIs DEF Work, Called, Typed, LinkShape, Thread
    <3> QED BY <3>2, <3>3
  <2>4. ~stopped
    BY <2>3 DEF Called, Locks
  <2> QED BY <1>1, <2>4 DEF Dark
<1>2. CASE ~Ended
  BY <1>2 DEF Dark, Moves
<1> QED BY <1>1, <1>2

LEMMA OpeningMoves ==
  ASSUME Called, Typed', NEW t \in Thread, Opening(t)
  PROVE  Moves(t)
<1> Stacks'
  BY DEF Typed
<1>1. ASSUME NEW x, BeginOpen(t, x) \/ SkipOpen(t, x)
      PROVE  Moves(t)
  BY <1>1, SeesBeginOpen, SeesSkipOpen DEF Steps
<1>2. CASE OpenFails(t) \/ OpensDone(t) \/ RecordWorker(t)
  BY <1>2, SeesOpenFails, SeesOpensDone, SeesRecordWorker DEF Steps
<1>3. ASSUME NEW s \in Slot, OpenPanel(t, s) \/ StartFails(t, s)
      PROVE  Moves(t)
  BY <1>3, SeesOpenPanel, SeesStartFails DEF Steps
<1>4. ASSUME NEW s \in Slot, NEW w \in Worker, StartWorker(t, s, w)
      PROVE  Moves(t)
  BY <1>4, SeesStartWorker DEF Steps
<1>5. CASE DropSlot(t)
  BY <1>5, SeesDropSlot DEF Steps, Moved
<1> QED BY <1>1, <1>2, <1>3, <1>4, <1>5 DEF Opening

LEMMA LinkMoves ==
  ASSUME Called, Typed', Link
  PROVE  Moves("link")
<1> Stacks' /\ "link" \in Thread
  BY DEF Typed, Thread
<1>1. CASE EnterApply \/ EnterProbe \/ ProbePaused
  BY <1>1, SeesEnterApply, SeesEnterProbe, SeesProbePaused DEF Steps, Moved
<1>2. CASE JoinRetired \/ BlankRetired
  BY <1>2, SeesJoinRetired, SeesBlankRetired DEF Steps
<1>3. CASE ApplyReturns \/ ProbeReturns
  <2>1. /\ \/ In("link", {"apply"}, "work") \/ In("link", {"probe"}, "init")
           \/ In("link", {"probe"}, "lit")
        /\ Return("link")
    BY <1>3 DEF ApplyReturns, ProbeReturns
  <2> QED BY <2>1, SeesReturns DEF Moved
<1>4. ASSUME NEW s \in Slot, Pause(s) \/ PauseFails(s) \/ ProbeLights(s)
      PROVE  Moves("link")
  BY <1>4, SeesPause, SeesPauseFails, SeesProbeLights DEF Steps
<1> QED BY <1>1, <1>2, <1>3, <1>4 DEF Link

LEMMA DarkOpening ==
  ASSUME Called, Dark, Typed', NEW t \in Thread, Opening(t)
  PROVE  Dark'
<1>1. Moves(t) /\ (Ended' => Ended)
  BY OpeningMoves DEF Moves
<1>2. ASSUME NEW s \in Slot, OpenPanel(t, s)
      PROVE  Dark'
  <2>1. Work(t).op \in {"start", "apply"} /\ Work(t).at = "init"
    BY <1>2, SeesOpenPanel DEF Steps
  <2>2. Moves("main") \/ Moves("link")
    BY <1>1 DEF Thread
  <2> QED BY <2>1, <2>2, DarkOpened
<1>3. CASE DropSlot(t)
  <2>1. Top(t).slot \in Slot
    <3>1. Top(t) = Work(t) /\ Work(t).at = "failed"
      BY <1>3, SeesDropSlot DEF Typed
    <3> QED BY <3>1, WorkOld DEF Called, FrameOK
  <2>2. ShutDown({Top(t).slot}) /\ UNCHANGED stopped /\ slots' \subseteq slots
    BY <1>3 DEF DropSlot
  <2> QED BY <1>1, <2>1, <2>2, ShutDims, DarkDims
<1>4. CASE UNCHANGED <<stopped, slots, shut, closes>>
  BY <1>1, <1>4, StillDims, DarkDims
<1>5. ASSUME NEW x, BeginOpen(t, x) \/ SkipOpen(t, x)
      PROVE  UNCHANGED <<stopped, slots, shut, closes>>
  BY <1>5 DEF BeginOpen, SkipOpen, slot
<1>6. CASE OpenFails(t) \/ OpensDone(t) \/ RecordWorker(t)
  BY <1>4, <1>6 DEF OpenFails, OpensDone, RecordWorker, slot
<1>7. ASSUME NEW s \in Slot, StartFails(t, s)
      PROVE  UNCHANGED <<stopped, slots, shut, closes>>
  BY <1>7 DEF StartFails, slot
<1>8. ASSUME NEW s \in Slot, NEW w \in Worker, StartWorker(t, s, w)
      PROVE  UNCHANGED <<stopped, slots, shut, closes>>
  BY <1>8 DEF StartWorker, slot
<1> QED BY <1>2, <1>3, <1>4, <1>5, <1>6, <1>7, <1>8 DEF Opening

LEMMA DarkLink ==
  ASSUME Called, Dark, Typed', Link
  PROVE  Dark'
<1> "link" \in Thread /\ Stacks'
  BY DEF Typed, Thread
<1>1. Moves("link") /\ (Ended' => Ended)
  BY LinkMoves DEF Moves
<1>2. CASE UNCHANGED <<stopped, slots, shut, closes>>
  BY <1>1, <1>2, StillDims, DarkDims
<1>3. CASE EnterApply \/ ApplyReturns \/ EnterProbe \/ ProbePaused
  BY <1>2, <1>3 DEF EnterApply, ApplyReturns, EnterProbe, ProbePaused, slot
<1>4. CASE \E s \in Slot : Pause(s) \/ PauseFails(s)
  BY <1>2, <1>4 DEF Pause, PauseFails, slot
<1>5. CASE JoinRetired
  <2>1. Ended => stopped
    BY DEF Dark
  <2>2. In("link", {"apply"}, "join")
    BY <1>5 DEF JoinRetired
  <2>3. Work("link").op = "apply" /\ Work("link").at = "join"
    BY <2>2, WorkIs DEF Called, Typed
  <2>4. ~Ended'
    BY <1>1, <2>1, <2>3 DEF Called, Locks
  <2> QED BY <2>4 DEF Dark
<1>6. CASE BlankRetired
  <2>1. In("link", {"apply"}, "pause") /\ UNCHANGED <<stopped, slots>> /\ ShutDown(Top("link").retired)
    BY <1>6 DEF BlankRetired
  <2>2. Top("link").retired \in SUBSET Slot
    BY <2>1, InIs DEF FrameType, Called, Typed
  <2> QED BY <1>1, <2>1, <2>2, ShutDims, DarkDims
<1>7. CASE ProbeReturns
  <2> DEFINE S == IF Top("link").at = "lit" THEN {Top("link").slot} ELSE {}
  <2>1. /\ In("link", {"probe"}, "init") \/ In("link", {"probe"}, "lit")
        /\ UNCHANGED <<stopped, slots>> /\ ShutDown(S)
    BY <1>7 DEF ProbeReturns
  <2>2. S \in SUBSET Slot
    <3>1. CASE In("link", {"probe"}, "init")
      BY <3>1, WorkIs DEF Called, Typed
    <3>2. CASE In("link", {"probe"}, "lit")
      <4>1. Top("link") = Work("link") /\ FrameOK(Work("link"))
        BY <3>2, WorkIs, WorkOld DEF Called, Typed
      <4> QED BY <4>1 DEF FrameOK
    <3> QED BY <2>1, <3>1, <3>2
  <2> HIDE DEF S
  <2> QED BY <1>1, <2>1, <2>2, ShutDims, DarkDims
<1>8. ASSUME NEW s \in Slot, ProbeLights(s)
      PROVE  Dark'
  <2>1. Work("link").op \in {"probe"} /\ Work("link").at = "init"
    BY <1>8, SeesProbeLights DEF Steps
  <2> QED BY <1>1, <2>1, DarkOpened
<1> QED BY <1>3, <1>4, <1>5, <1>6, <1>7, <1>8 DEF Link

\* The last stop() returns: it has seen every panel of _slots claimed, nobody
\* else is closing one, and no push and no probe has one in hand.
LEMMA DarkStopReturns ==
  ASSUME ~EarlyPush, Called, Panels, Dark, Typed', NEW t \in Thread, StopReturns(t)
  PROVE  Dark'
<1>1. /\ UNCHANGED <<stopped, slots, shut, closes>> /\ \A s \in slots : shut[s]
  BY DEF StopReturns, slot
<1>2. /\ t = "link" => (Ended' <=> Ended)
      /\ InStop(t, Depth(t)) /\ Depth(t) \in Nat
      /\ \A s \in Slot : ~Claims(t, Depth(t), s)
      /\ t = "main" /\ Ended' => Depth(t) = 2
  BY StopReturnsIs
<1>3. CASE t = "link"
  BY <1>1, <1>2, <1>3, StillDims, DarkDims
<1>4. CASE t = "main" /\ Ended'
  <2>1. /\ stopped /\ \A s \in Slot : ~InHand(Work("link"), s)
        /\ \A j \in Nat : ~InStop("link", j)
    BY <1>2, <1>4, StopRules DEF Thread
  <2>2. Depth("main") = 2 /\ Levels("main") = 1..2 /\ Fr("main", 1).op = "run"
    BY <1>2, <1>4 DEF Levels, Called, MainShape
  <2>3. \A s \in Slot : ~Claimed(s)
    <3>1. ASSUME NEW s \in Slot, NEW k \in Nat, Claims("main", k, s)
          PROVE  FALSE
      <4>1. k = 1 \/ k = 2
        BY <2>2, <3>1 DEF Claims, InStop
      <4>2. k # 2
        BY <1>2, <1>4, <2>2, <3>1
      <4>3. k # 1
        BY <2>2, <3>1 DEF Claims, InStop
      <4> QED BY <4>1, <4>2, <4>3
    <3>2. \A s \in Slot : \A k \in Nat : ~Claims("link", k, s)
      BY <2>1 DEF Claims
    <3> QED BY <3>1, <3>2 DEF Claimed, Thread
  <2>4. \A s \in Slot : closes[s] \in Nat
    BY DEF Called, Typed, Values
  <2>5. \A s \in Slot : closes[s] > 0
    BY <1>1, <2>1, <2>3, <2>4 DEF Panels, PanelOK
  <2> QED BY <1>1, <2>1, <2>5 DEF Dark
<1> QED BY <1>3, <1>4 DEF Thread, Dark

LEMMA DarkStopping ==
  ASSUME ~EarlyPush, Called, Panels, Dark, Typed', NEW t \in Thread, Stopping(t)
  PROVE  Dark'
<1>1. CASE StopReturns(t)
  BY <1>1, DarkStopReturns
<1>2. CASE EnterStop(t) \/ JoinAll(t)
  <2>1. Ended' => Ended
    BY <1>2, EnterStopIs, JoinAllIs
  <2>2. UNCHANGED <<slots, shut, closes>> /\ (stopped => stopped')
    BY <1>2 DEF EnterStop, JoinAll, slot
  <2> QED BY <2>1, <2>2, DarkDims DEF Dims
<1>3. CASE ClosePanel(t)
  <2>1. (Ended' => Ended) /\ Top(t).slot \in Slot
    BY <1>3, ClosePanelIs
  <2>2. UNCHANGED <<stopped, slots, shut>> /\ closes' = [closes EXCEPT ![Top(t).slot] = @ + 1]
    BY <1>3 DEF ClosePanel
  <2>3. \A s \in Slot : closes[s] > 0 => closes'[s] > 0
    BY <2>1, <2>2 DEF Called, Typed, Values
  <2> QED BY <2>1, <2>2, <2>3, DarkDims DEF Dims
<1>4. ASSUME NEW s \in Slot, ClaimPanel(t, s)
      PROVE  Dark'
  <2>1. Ended' => Ended
    BY <1>4, ClaimPanelIs
  <2>2. UNCHANGED <<stopped, slots, closes>> /\ shut' = [shut EXCEPT ![s] = TRUE]
    BY <1>4 DEF ClaimPanel
  <2>3. \A o \in Slot : shut[o] => shut'[o]
    BY <2>2 DEF Called, Typed, Values
  <2> QED BY <2>1, <2>2, <2>3, DarkDims DEF Dims
<1> QED BY <1>1, <1>2, <1>3, <1>4 DEF Stopping

LEMMA DarkStep ==
  ASSUME ~EarlyPush, Called, Panels, Dark, Next
  PROVE  Dark'
<1>1. Typed'
  BY TypeStep DEF Called
<1>2. ASSUME NEW w \in Worker, Drawing(w)
      PROVE  Dark'
  BY <1>2, DrawingIs, StillDims, DarkDims DEF Moves, slot
<1>3. CASE Main
  BY <1>1, <1>3, MainMoves, StillDims, DarkDims DEF Moves
<1>4. CASE Calls
  BY <1>1, <1>4, BeginIs, StillDims, DarkDims DEF slot
<1> QED BY <1>1, <1>2, <1>3, <1>4, DarkOpening, DarkStopping, DarkLink DEF Next

\* When the process ends every panel that was ever opened has been slept and
\* closed, however many were being opened, replaced, applied or probed when the
\* signals came: nothing that is lit is forgotten by all of them.  A push that
\* comes before start() has returned is the case that this does not hold of.
THEOREM NoneLeftLit ==
  ASSUME ~EarlyPush
  PROVE  Spec => []NoneLit
<1>1. Init => Called /\ Panels /\ Dark
  BY InitIs DEF Dark
<1>2. Called /\ Panels /\ Dark /\ [Next]_vars => (Called /\ Panels /\ Dark)'
  <2>1. ASSUME Called, Panels, Dark, Next
        PROVE  (Called /\ Panels /\ Dark)'
    BY <2>1, CalledStep, PanelsStep, DarkStep
  <2>2. ASSUME Called, Panels, Dark, UNCHANGED vars
        PROVE  (Called /\ Panels /\ Dark)'
    BY <2>2, VarsStay, PanelsMove, StillDims, DarkDims DEF Thread, Moves
  <2> QED BY <2>1, <2>2
<1>3. Called /\ Dark => NoneLit
  <2>1. Called /\ stack["main"] = <<>> => Ended
    BY StackIs DEF Called, Typed, Ended, Thread
  <2> QED BY <2>1 DEF Dark, NoneLit
<1> QED BY <1>1, <1>2, <1>3, PTL DEF Spec

-----------------------------------------------------------------------------
(* Who draws on each panel.                                                *)

Busy(w) == doing[w] # "done"

\* A worker of slot s runs that the slot does not know of yet: a replacement,
\* or its first.
Begun(s) == Work("main").op = "tick" /\ Work("main").at = "begun" /\ Work("main").slot = s
Starting(s) ==
  \E t \in Thread : Work(t).op \in {"start", "apply"} /\ Work(t).at = "begun" /\ Work(t).slot = s

\* The generation of the lease that was last given out for slot s.
Gen(s) == IF Begun(s) THEN lease[s] + 1 ELSE lease[s]

\* start() has not started a worker of what it has still to walk.
StartOK ==
  Work("main").op = "start" =>
    /\ Work("main").at \in {"open", "init"} => \A s \in slots : worker[s] = None
    /\ Work("main").at \in {"work", "begun"} => \A s \in Work("main").slots : worker[s] = None
    /\ Work("main").at = "begun" => Work("main").slot \notin Work("main").slots

\* A worker's slot knows of one, and only the last lease given out may be live.
WorkerOK(w) ==
  /\ Busy(w) <=> on[w] # None
  /\ Busy(w) => /\ worker[on[w]] # None \/ Starting(on[w])
                /\ by[w] <= Gen(on[w])
                /\ <<on[w], by[w]>> \in live => by[w] = Gen(on[w])

Drawers ==
  /\ StartOK
  /\ \A w \in Worker : WorkerOK(w)
  /\ \A v, w \in Worker : Busy(v) /\ Busy(w) /\ on[v] = on[w] /\ by[v] = by[w] => v = w

LEMMA DrawersOne ==
  ASSUME Drawers
  PROVE  OneDrawer
<1> SUFFICES ASSUME NEW v \in Worker, NEW w \in Worker, Busy(v), Busy(w), on[v] = on[w],
                    <<on[v], by[v]>> \in live, <<on[w], by[w]>> \in live
             PROVE  v = w
  BY DEF OneDrawer, Busy
<1>1. by[v] = Gen(on[v]) /\ by[w] = Gen(on[v])
  BY DEF Drawers, WorkerOK
<1> QED BY <1>1 DEF Drawers

\* A step that starts no worker keeps this if it does for each slot that one is
\* on: what its slot knows and which lease was the last are as they were, and no
\* lease is given out again.
Drawn(s) == \E w \in Worker : Busy(w) /\ on[w] = s
SlotKept(s) ==
  /\ Gen(s)' = Gen(s)
  /\ worker[s] # None \/ Starting(s) => worker'[s] # None \/ Starting(s)'
  /\ \A n \in Nat : <<s, n>> \in live' => <<s, n>> \in live

LEMMA DrawersHold ==
  ASSUME Called, Drawers, StartOK', \A s \in Slot : Drawn(s) => SlotKept(s),
         \A w \in Worker : \/ Busy(w) /\ Busy(w)' /\ on'[w] = on[w] /\ by'[w] = by[w]
                           \/ ~Busy(w)' /\ on'[w] = None
  PROVE  Drawers'
<1>1. \A w \in Worker : Busy(w) => on[w] \in Slot /\ on[w] # None /\ by[w] \in Nat
  BY DEF Drawers, WorkerOK, Called, Typed, Values
<1>2. ASSUME NEW w \in Worker, Busy(w), Busy(w)', on'[w] = on[w], by'[w] = by[w]
      PROVE  WorkerOK(w)'
  <2> SUFFICES ASSUME NEW s \in Slot, s = on[w], s = on'[w], NEW n \in Nat, n = by[w], n = by'[w]
               PROVE  WorkerOK(w)'
    BY <1>1, <1>2
  <2>1. SlotKept(s)
    BY <1>2 DEF Drawn
  <2>2. /\ worker[s] # None \/ Starting(s)
        /\ n <= Gen(s) /\ (<<s, n>> \in live => n = Gen(s)) /\ s # None
    BY <1>2 DEF Drawers, WorkerOK
  <2>3. /\ worker'[s] # None \/ Starting(s)'
        /\ n <= Gen(s)' /\ (<<s, n>> \in live' => n = Gen(s)')
    BY <2>1, <2>2 DEF SlotKept
  <2>4. (Starting(on[w])' <=> Starting(s)') /\ Gen(on[w])' = Gen(s)'
    BY DEF Starting, Gen, Begun
  <2> QED BY <1>2, <2>2, <2>3, <2>4 DEF WorkerOK
<1>3. ASSUME NEW w \in Worker, ~Busy(w)', on'[w] = None
      PROVE  WorkerOK(w)'
  BY <1>3 DEF WorkerOK
<1>4. \A v, w \in Worker : Busy(v)' /\ Busy(w)' /\ on'[v] = on'[w] /\ by'[v] = by'[w] => v = w
  BY DEF Drawers
<1> QED BY <1>2, <1>3, <1>4 DEF Drawers

\* So it does where nobody is given a lease or a slot: workers may leave and
\* leases be revoked, and what is begun stays begun.
LEMMA DrawersKeep ==
  ASSUME Called, Drawers, UNCHANGED <<worker, lease>>, live' \subseteq live, StartOK',
         \A w \in Worker : \/ Busy(w) /\ Busy(w)' /\ on'[w] = on[w] /\ by'[w] = by[w]
                           \/ ~Busy(w)' /\ on'[w] = None,
         \A s \in Slot : (Begun(s)' <=> Begun(s)) /\ (Starting(s) => Starting(s)')
  PROVE  Drawers'
<1>1. ASSUME NEW s \in Slot
      PROVE  SlotKept(s)
  <2>1. Gen(s)' = Gen(s)
    BY DEF Gen
  <2> QED BY <2>1 DEF SlotKept
<1> QED BY <1>1, DrawersHold

\* A new worker of slot s, whose lease comes after those of the others on it.
LEMMA DrawersSpawn ==
  ASSUME Called, Drawers, StartOK', UNCHANGED <<worker, lease>>,
         NEW s \in Slot, NEW w \in Worker, NEW g \in Nat, Spawn(w, s, g),
         Gen(s)' = g, worker[s] # None \/ Starting(s)',
         \A o \in Slot \ {s} : SlotKept(o),
         \A v \in Worker : Busy(v) /\ on[v] = s => by[v] < g /\ <<s, by[v]>> \notin live'
  PROVE  Drawers'
<1>1. /\ Busy(w)' /\ on'[w] = s /\ by'[w] = g /\ ~Busy(w)
      /\ \A v \in Worker \ {w} : (Busy(v)' <=> Busy(v)) /\ on'[v] = on[v] /\ by'[v] = by[v]
  BY DEF Spawn, NewWorker, Spare, Busy, Called, Typed, Values
<1>2. s # None
  BY Numbers
<1>3. WorkerOK(w)'
  <2>1. (Starting(on[w])' <=> Starting(s)') /\ Gen(on[w])' = Gen(s)'
    BY <1>1 DEF Starting, Gen, Begun
  <2> QED BY <1>1, <1>2, <2>1 DEF WorkerOK
<1>4. ASSUME NEW v \in Worker \ {w}
      PROVE  WorkerOK(v)'
  <2>1. CASE ~Busy(v)
    BY <1>1, <2>1 DEF Drawers, WorkerOK
  <2>2. CASE Busy(v)
    <3> SUFFICES ASSUME NEW o \in Slot, o = on[v], o = on'[v], NEW n \in Nat, n = by[v], n = by'[v]
                 PROVE  WorkerOK(v)'
      BY <1>1, <2>2 DEF Drawers, WorkerOK, Called, Typed, Values
    <3>1. /\ worker[o] # None \/ Starting(o)
          /\ n <= Gen(o) /\ (<<o, n>> \in live => n = Gen(o)) /\ o # None
      BY <2>2 DEF Drawers, WorkerOK
    <3>2. /\ worker'[o] # None \/ Starting(o)'
          /\ n <= Gen(o)' /\ (<<o, n>> \in live' => n = Gen(o)')
      <4>1. CASE o = s
        <5>1. n < g /\ <<s, n>> \notin live'
          BY <2>2, <4>1
        <5>2. Gen(o)' = g /\ (Starting(o)' <=> Starting(s)')
          BY <4>1 DEF Gen, Begun, Starting
        <5> QED BY <4>1, <5>1, <5>2
      <4>2. CASE o # s
        <5>1. SlotKept(o)
          BY <4>2
        <5> QED BY <3>1, <5>1 DEF SlotKept
      <4> QED BY <4>1, <4>2
    <3>3. (Starting(on[v])' <=> Starting(o)') /\ Gen(on[v])' = Gen(o)'
      BY DEF Starting, Gen, Begun
    <3> QED BY <1>1, <2>2, <3>1, <3>2, <3>3 DEF WorkerOK
  <2> QED BY <2>1, <2>2
<1>5. ASSUME NEW u \in Worker, NEW v \in Worker,
             Busy(u)', Busy(v)', on'[u] = on'[v], by'[u] = by'[v]
      PROVE  u = v
  <2>1. CASE u # w /\ v # w
    BY <1>1, <1>5, <2>1 DEF Drawers
  <2>2. ASSUME NEW x \in Worker \ {w}, Busy(x)', on'[x] = s, by'[x] = g
        PROVE  FALSE
    <3>1. Busy(x) /\ on[x] = s /\ by[x] = g
      BY <1>1, <2>2
    <3>2. g < g
      BY <3>1
    <3> QED BY <3>2
  <2> QED BY <1>1, <1>5, <2>1, <2>2
<1> QED BY <1>3, <1>4, <1>5 DEF Drawers

\* The same of a step of a method that has nothing begun.
LEMMA DrawersOn ==
  ASSUME Called, Drawers, UNCHANGED <<worker, lease, thread>>, live' \subseteq live, StartOK',
         NEW t \in Thread, \A u \in Thread \ {t} : Work(u)' = Work(u),
         Work(t)' = Work(t) \/ (Work(t).at # "begun" /\ Work(t)'.at # "begun")
  PROVE  Drawers'
<1>1. ASSUME NEW s \in Slot
      PROVE  (Begun(s)' <=> Begun(s)) /\ (Starting(s) => Starting(s)')
  <2>1. Begun(s)' <=> Begun(s)
    <3>1. CASE t = "main"
      BY <3>1 DEF Begun
    <3>2. CASE t = "link"
      <4>1. Work("main")' = Work("main")
        BY <3>2 DEF Thread
      <4> QED BY <4>1 DEF Begun
    <3> QED BY <3>1, <3>2 DEF Thread
  <2>2. Starting(s) => Starting(s)'
    BY DEF Starting
  <2> QED BY <2>1, <2>2
<1>2. \A w \in Worker : (Busy(w)' <=> Busy(w)) /\ on'[w] = on[w] /\ by'[w] = by[w]
  BY DEF Busy, thread
<1>3. \A w \in Worker : ~Busy(w) => on[w] = None
  BY DEF Drawers, WorkerOK
<1> QED BY <1>1, <1>2, <1>3, DrawersKeep

\* The link is in none of its calls while start() runs.
LEMMA StartAlone ==
  ASSUME ~EarlyPush, Called, Work("link") # Idle
  PROVE  Work("main").op # "start"
BY DEF Called, Locks

LEMMA DrawersLinkOn ==
  ASSUME ~EarlyPush, Called, Drawers, UNCHANGED <<worker, lease, thread>>, live' \subseteq live,
         Moves("link"), Work("link") # Idle, Work("link").at # "begun", Work("link")'.at # "begun"
  PROVE  Drawers'
<1>1. Work("main").op # "start" /\ Work("main")' = Work("main")
  BY StartAlone DEF Moves, Thread
<1>2. StartOK'
  BY <1>1 DEF StartOK
<1>3. \A u \in Thread \ {"link"} : Work(u)' = Work(u)
  BY DEF Moves
<1> QED BY <1>2, <1>3, DrawersOn DEF Thread

\* start() is none of the link's business.
LEMMA StartOther ==
  ASSUME ~EarlyPush, Called, Moves("link"), Work("link") # Idle
  PROVE  StartOK'
<1>1. Work("main").op # "start" /\ Work("main")' = Work("main")
  BY StartAlone DEF Moves, Thread
<1> QED BY <1>1 DEF StartOK

\* start() and apply() are one thread's each, exclude each other, and while a
\* worker is being started nothing is begun elsewhere.
LEMMA MethodsAlone ==
  ASSUME ~EarlyPush, Called, NEW t \in Thread, Work(t).op \in {"start", "apply"}
  PROVE  /\ t = "link" => Work("link") # Idle /\ Work("link").op = "apply"
         /\ t = "main" => Work("main").op = "start" /\ Work("link") = Idle
         /\ Work("main").op # "apply"
<1>1. /\ Depth("link") \in Nat /\ Depth("main") \in Nat
  BY StackIs DEF Called, Typed, Thread
<1>2. Work("link") = Idle \/ Work("link").op \in {"apply", "probe", "stop"}
  BY <1>1 DEF Work, Called, LinkShape
<1>3. Work("main") = Idle \/ Work("main").op \in {"start", "tick", "stop"}
  BY <1>1 DEF Work, Called, MainShape
<1> QED BY <1>2, <1>3, IdleIs DEF Called, Locks

LEMMA NothingElse ==
  ASSUME ~EarlyPush, Called, NEW t \in Thread, Work(t).op \in {"start", "apply"},
         Work(t).at \in {"work", "begun"}
  PROVE  \A s \in Slot : ~Begun(s) /\ (Starting(s) => Work(t).at = "begun" /\ Work(t).slot = s)
<1>1. CASE t = "main"
  <2>1. Work("main").op = "start" /\ Work("link") = Idle
    BY <1>1, MethodsAlone
  <2>2. \A s \in Slot : ~Begun(s)
    BY <2>1 DEF Begun
  <2>3. \A s \in Slot : Starting(s) => Work(t).at = "begun" /\ Work(t).slot = s
    BY <1>1, <2>1, IdleIs DEF Starting, Thread
  <2> QED BY <2>2, <2>3
<1>2. CASE t = "link"
  <2>1. Work("link") # Idle /\ Work("link").op = "apply" /\ Work("main").op # "apply"
    BY <1>2, MethodsAlone
  <2>2. Work("main").op # "start"
    BY <2>1, StartAlone
  <2>3. \A s \in Slot : ~Begun(s)
    BY <1>2, <2>1 DEF Begun, Called, Locks, Held, Locked
  <2>4. \A s \in Slot : Starting(s) => Work(t).at = "begun" /\ Work(t).slot = s
    BY <1>2, <2>1, <2>2 DEF Starting, Thread
  <2> QED BY <2>3, <2>4
<1> QED BY <1>1, <1>2 DEF Thread

\* A panel opened in a slot that no worker is on.
LEMMA DrawersOpened ==
  ASSUME Called, Drawers, NEW t \in Thread, NEW s \in Slot, Opened(t, s), UNCHANGED thread,
         Moves(t), Work(t).at # "begun", Work(t)'.at # "begun", StartOK'
  PROVE  Drawers'
<1>1. /\ \A o \in Slot \ {s} : lease'[o] = lease[o] /\ worker'[o] = worker[o]
      /\ live' = live \cup {<<s, 0>>} /\ Vacant(s)
  BY OpenedIs DEF Called
<1>2. \A w \in Worker : on[w] # s
  BY <1>1, Unmentioned DEF Called
<1>3. \A u \in Thread \ {t} : Work(u)' = Work(u)
  BY DEF Moves
<1>4. \A o \in Slot : (Begun(o)' <=> Begun(o)) /\ (Starting(o) => Starting(o)')
  <2>1. \A o \in Slot : Starting(o) => Starting(o)'
    BY <1>3 DEF Starting
  <2>2. CASE t = "main"
    BY <2>1, <2>2 DEF Begun
  <2>3. CASE t = "link"
    <3>1. Work("main")' = Work("main")
      BY <1>3, <2>3 DEF Thread
    <3> QED BY <2>1, <3>1 DEF Begun
  <2> QED BY <2>2, <2>3 DEF Thread
<1>5. ASSUME NEW o \in Slot, Drawn(o)
      PROVE  SlotKept(o)
  <2>1. o # s
    BY <1>2, <1>5 DEF Drawn
  <2>2. Gen(o)' = Gen(o)
    BY <1>1, <1>4, <2>1 DEF Gen
  <2>3. \A n \in Nat : <<o, n>> \in live' => <<o, n>> \in live
    BY <1>1, <2>1
  <2> QED BY <1>1, <1>4, <2>1, <2>2, <2>3 DEF SlotKept
<1>6. \A w \in Worker : (Busy(w)' <=> Busy(w)) /\ on'[w] = on[w] /\ by'[w] = by[w]
  BY DEF Busy, thread
<1>7. \A w \in Worker : ~Busy(w) => on[w] = None
  BY DEF Drawers, WorkerOK
<1> QED BY <1>5, <1>6, <1>7, DrawersHold

LEMMA DrawersOpenPanel ==
  ASSUME ~EarlyPush, Called, Drawers, NEW t \in Thread, NEW s \in Slot, OpenPanel(t, s)
  PROVE  Drawers'
<1>1. /\ Moves(t) /\ Work(t).op \in {"start", "apply"} /\ Work(t)'.op = Work(t).op
      /\ Work(t).at = "init" /\ Work(t)'.at = "open"
  BY SeesOpenPanel DEF Steps
<1>2. Opened(t, s) /\ slots' = slots \cup {s} /\ UNCHANGED thread
  BY DEF OpenPanel
<1>3. worker'[s] = None /\ \A o \in Slot \ {s} : worker'[o] = worker[o]
  BY <1>2, OpenedIs DEF Called
<1>4. StartOK'
  <2>1. CASE t = "link"
    BY <1>1, <2>1, MethodsAlone, StartOther
  <2>2. CASE t = "main"
    <3>1. Work("main").op = "start" => \A o \in slots : worker[o] = None
      BY <1>1, <2>2 DEF Drawers, StartOK
    <3>2. slots \subseteq Slot
      BY DEF Called, Typed, Values
    <3>3. Work("main").op = "start" => \A o \in slots' : worker'[o] = None
      BY <1>2, <1>3, <3>1, <3>2
    <3> QED BY <1>1, <2>2, <3>3 DEF StartOK
  <2> QED BY <2>1, <2>2 DEF Thread
<1> QED BY <1>1, <1>2, <1>4, DrawersOpened

LEMMA DrawersProbeLights ==
  ASSUME ~EarlyPush, Called, Drawers, Typed', NEW s \in Slot, ProbeLights(s)
  PROVE  Drawers'
<1>1. /\ Moves("link") /\ Work("link").op = "probe" /\ Work("link").at = "init"
      /\ Work("link")'.at = "lit" /\ "link" \in Thread
  BY SeesProbeLights DEF Steps, Typed, Thread
<1>2. Opened("link", s) /\ UNCHANGED thread
  BY DEF ProbeLights
<1>3. StartOK'
  BY <1>1, StartOther, IdleIs
<1> QED BY <1>1, <1>2, <1>3, DrawersOpened

\* A worker's thread begins on a slot that no worker is on.
LEMMA DrawersStartWorker ==
  ASSUME ~EarlyPush, Called, Drawers, Typed', NEW t \in Thread, NEW s \in Slot,
         NEW w \in Worker, StartWorker(t, s, w)
  PROVE  Drawers'
<1>1. /\ Moves(t) /\ Work(t).op \in {"start", "apply"} /\ Work(t)'.op = Work(t).op
      /\ Work(t).at = "work" /\ Work(t)'.at = "begun" /\ Work(t)'.slot = s
      /\ s \in Work(t).slots /\ Work(t)'.slots = Work(t).slots \ {s}
  BY SeesStartWorker DEF Steps, Typed
<1>2. /\ Spawn(w, s, lease[s]) /\ UNCHANGED <<worker, lease, live, slots>> /\ s \in ToStart(t)
      /\ In(t, {"start", "apply"}, "work") /\ lease[s] \in Nat
  BY DEF StartWorker, slot, Called, Typed, Values
<1>3. \A u \in Thread \ {t} : Work(u)' = Work(u)
  BY <1>1 DEF Moves
<1>4. worker[s] = None
  <2>1. Top(t) = Work(t)
    BY <1>2, WorkIs DEF Called, Typed
  <2>2. CASE t = "main" /\ Work(t).op = "start"
    BY <1>1, <2>2 DEF Drawers, StartOK
  <2>3. CASE Work(t).op = "apply"
    BY <1>2, <2>1, <2>3 DEF ToStart
  <2> QED BY <1>1, <2>2, <2>3, MethodsAlone DEF Thread
<1>5. StartOK'
  <2>1. CASE t = "link"
    BY <1>1, <2>1, MethodsAlone, StartOther
  <2>2. CASE t = "main"
    <3>1. Work("main").op = "start" => \A o \in Work("main").slots : worker[o] = None
      BY <1>1, <2>2 DEF Drawers, StartOK
    <3>2. Work("main")'.op = "start" => \A o \in Work("main")'.slots : worker'[o] = None
      BY <1>1, <1>2, <2>2, <3>1
    <3> QED BY <1>1, <2>2, <3>2 DEF StartOK
  <2> QED BY <2>1, <2>2 DEF Thread
<1>6. \A o \in Slot : ~Starting(o) /\ ~Begun(o)
  BY <1>1, NothingElse
<1>7. Starting(s)' /\ \A o \in Slot : ~Begun(o)'
  <2>1. Starting(s)'
    BY <1>1 DEF Starting
  <2>2. CASE t = "main"
    BY <1>1, <2>1, <2>2 DEF Begun
  <2>3. CASE t = "link"
    <3>1. Work("main")' = Work("main")
      BY <1>3, <2>3 DEF Thread
    <3> QED BY <1>6, <2>1, <3>1 DEF Begun
  <2> QED BY <2>2, <2>3 DEF Thread
<1>8. \A o \in Slot : Gen(o)' = Gen(o) /\ Gen(o) = lease[o]
  BY <1>2, <1>6, <1>7 DEF Gen
<1>9. \A o \in Slot \ {s} : SlotKept(o)
  BY <1>2, <1>6, <1>8 DEF SlotKept
<1>10. \A v \in Worker : ~(Busy(v) /\ on[v] = s)
  BY <1>4, <1>6 DEF Drawers, WorkerOK
<1> QED BY <1>2, <1>5, <1>7, <1>8, <1>9, <1>10, DrawersSpawn

\* A slot learns of the worker that was started on it.
LEMMA DrawersRecordWorker ==
  ASSUME ~EarlyPush, Called, Drawers, Typed', NEW t \in Thread, RecordWorker(t)
  PROVE  Drawers'
<1>1. /\ Moves(t) /\ Work(t).op \in {"start", "apply"} /\ Work(t)'.op = Work(t).op
      /\ Work(t).at = "begun" /\ Work(t)'.at = "work" /\ Work(t)'.slots = Work(t).slots
  BY SeesRecordWorker DEF Steps, Typed
<1>2. Top(t) = Work(t) /\ Work(t).slot \in Slot /\ Work(t).worker \in Worker
  <2>1. In(t, {"start", "apply"}, "begun")
    BY DEF RecordWorker
  <2>2. Top(t) = Work(t)
    BY <2>1, WorkIs DEF Called, Typed
  <2> QED BY <1>1, <2>2, WorkOld DEF Called, FrameOK
<1> SUFFICES ASSUME NEW s \in Slot, s = Work(t).slot, NEW w \in Worker, w = Work(t).worker
             PROVE  Drawers'
  BY <1>2
<1>3. UNCHANGED <<lease, live, slots, thread>> /\ worker' = [worker EXCEPT ![s] = w]
  BY <1>2 DEF RecordWorker
<1>4. worker'[s] # None /\ \A o \in Slot \ {s} : worker'[o] = worker[o]
  BY <1>3, Numbers DEF Called, Typed, Values
<1>5. \A u \in Thread \ {t} : Work(u)' = Work(u)
  BY <1>1 DEF Moves
<1>6. StartOK'
  <2>1. CASE t = "link"
    BY <1>1, <2>1, MethodsAlone, StartOther
  <2>2. CASE t = "main"
    <3>1. Work("main").op = "start" =>
            s \notin Work("main").slots /\ \A o \in Work("main").slots : worker[o] = None
      BY <1>1, <2>2 DEF Drawers, StartOK
    <3>2. Work("main").slots \subseteq Slot
      BY WorkOld DEF Called, FrameType, Thread
    <3>3. Work("main")'.op = "start" => \A o \in Work("main")'.slots : worker'[o] = None
      BY <1>1, <1>4, <2>2, <3>1, <3>2
    <3> QED BY <1>1, <2>2, <3>3 DEF StartOK
  <2> QED BY <2>1, <2>2 DEF Thread
<1>7. \A o \in Slot : ~Begun(o) /\ (Starting(o) => o = s)
  BY <1>1, NothingElse
<1>8. \A o \in Slot : ~Begun(o)'
  <2>1. CASE t = "main"
    BY <1>1, <2>1 DEF Begun
  <2>2. CASE t = "link"
    <3>1. Work("main")' = Work("main")
      BY <1>5, <2>2 DEF Thread
    <3> QED BY <1>7, <3>1 DEF Begun
  <2> QED BY <2>1, <2>2 DEF Thread
<1>9. ASSUME NEW o \in Slot
      PROVE  SlotKept(o)
  <2>1. Gen(o)' = Gen(o)
    BY <1>3, <1>7, <1>8 DEF Gen
  <2>2. worker[o] # None \/ Starting(o) => worker'[o] # None
    BY <1>4, <1>7
  <2> QED BY <1>3, <2>1, <2>2 DEF SlotKept
<1>10. \A v \in Worker : (Busy(v)' <=> Busy(v)) /\ on'[v] = on[v] /\ by'[v] = by[v]
  BY <1>3 DEF Busy, thread
<1>11. \A v \in Worker : ~Busy(v) => on[v] = None
  BY DEF Drawers, WorkerOK
<1> QED BY <1>6, <1>9, <1>10, <1>11, DrawersHold

\* A step of start() or apply() that starts no worker.
LEMMA DrawersCarryOn ==
  ASSUME ~EarlyPush, Called, Drawers, NEW t \in Thread, NEW ops, NEW from, NEW to,
         Steps(t, ops, from, to), UNCHANGED <<worker, lease, thread>>, live' \subseteq live,
         from # "begun", to # "begun", t = "link" => Work("link") # Idle, t = "main" => StartOK'
  PROVE  Drawers'
<1>1. Moves(t) /\ Work(t).at # "begun" /\ Work(t)'.at # "begun"
  BY DEF Steps
<1>2. StartOK'
  BY <1>1, StartOther DEF Thread
<1>3. \A u \in Thread \ {t} : Work(u)' = Work(u)
  BY <1>1 DEF Moves
<1> QED BY <1>1, <1>2, <1>3, DrawersOn

LEMMA DrawersOpening ==
  ASSUME ~EarlyPush, Called, Drawers, Typed', NEW t \in Thread, Opening(t)
  PROVE  Drawers'
<1> Stacks'
  BY DEF Typed
<1>1. ASSUME NEW x, BeginOpen(t, x)
      PROVE  Drawers'
  <2>1. Steps(t, {"start", "apply", "probe"}, "open", "init")
    BY <1>1, SeesBeginOpen
  <2>2. UNCHANGED <<worker, lease, thread, slots, live>>
    BY <1>1 DEF BeginOpen, slot
  <2>3. t = "link" => Work("link") # Idle
    BY <2>1, IdleIs DEF Steps
  <2>4. t = "main" => StartOK'
    BY <2>1, <2>2 DEF Drawers, StartOK, Steps
  <2> QED BY <2>1, <2>2, <2>3, <2>4, DrawersCarryOn
<1>2. ASSUME NEW x, SkipOpen(t, x)
      PROVE  Drawers'
  <2>1. Steps(t, {"apply"}, "open", "open")
    BY <1>2, SeesSkipOpen
  <2>2. UNCHANGED <<worker, lease, thread, slots, live>>
    BY <1>2 DEF SkipOpen, slot
  <2>3. t = "link" /\ Work("link") # Idle
    BY <2>1, IdleIs DEF Steps, Thread
  <2> QED BY <2>1, <2>2, <2>3, DrawersCarryOn
<1>3. CASE OpenFails(t)
  <2>1. Steps(t, {"start", "apply"}, "init", "open")
    BY <1>3, SeesOpenFails
  <2>2. UNCHANGED <<worker, lease, thread, slots, live>>
    BY <1>3 DEF OpenFails, slot
  <2>3. t = "link" => Work("link") # Idle
    BY <2>1, IdleIs DEF Steps
  <2>4. t = "main" => StartOK'
    BY <2>1, <2>2 DEF Drawers, StartOK, Steps
  <2> QED BY <2>1, <2>2, <2>3, <2>4, DrawersCarryOn
<1>4. CASE OpensDone(t)
  <2>1. Steps(t, {"start", "apply"}, "open", "work") /\ Work(t)'.slots = slots
    BY <1>4, SeesOpensDone
  <2>2. UNCHANGED <<worker, lease, thread, slots, live>>
    BY <1>4 DEF OpensDone, slot
  <2>3. t = "link" => Work("link") # Idle
    BY <2>1, IdleIs DEF Steps
  <2>4. t = "main" => StartOK'
    BY <2>1, <2>2 DEF Drawers, StartOK, Steps
  <2> QED BY <2>1, <2>2, <2>3, <2>4, DrawersCarryOn
<1>5. ASSUME NEW s \in Slot, StartFails(t, s)
      PROVE  Drawers'
  <2>1. Steps(t, {"start", "apply"} \cap MayRefuse, "work", "failed")
    BY <1>5, SeesStartFails
  <2>2. UNCHANGED <<worker, lease, thread, slots, live>>
    BY <1>5 DEF StartFails, slot
  <2>3. t = "link" => Work("link") # Idle
    BY <2>1, IdleIs DEF Steps
  <2>4. t = "main" => StartOK'
    BY <2>1 DEF StartOK, Steps
  <2> QED BY <2>1, <2>2, <2>3, <2>4, DrawersCarryOn
<1>6. CASE DropSlot(t)
  <2>1. UNCHANGED <<worker, lease, thread>> /\ live' \subseteq live
    BY <1>6 DEF DropSlot, ShutDown
  <2>2. CASE Work(t).op = "start" /\ t = "main" /\ Moved(t, Idle)
    <3>1. Work("main")' = Idle /\ Work("main").at = "failed"
      BY <1>6, <2>2, SeesDropSlot DEF Moved, Thread
    <3>2. StartOK'
      BY <3>1, IdleIs DEF StartOK
    <3>3. \A u \in Thread \ {t} : Work(u)' = Work(u)
      BY <2>2 DEF Moved, Moves
    <3> QED BY <2>1, <2>2, <3>1, <3>2, <3>3, IdleIs, DrawersOn
  <2>3. CASE Steps(t, {"apply"}, "failed", "work") /\ t = "link"
    <3>1. Work("link") # Idle
      BY <2>3, IdleIs DEF Steps
    <3> QED BY <2>1, <2>3, <3>1, DrawersCarryOn
  <2> QED BY <1>6, <2>2, <2>3, SeesDropSlot
<1>7. ASSUME NEW s \in Slot, OpenPanel(t, s)
      PROVE  Drawers'
  BY <1>7, DrawersOpenPanel
<1>8. ASSUME NEW s \in Slot, NEW w \in Worker, StartWorker(t, s, w)
      PROVE  Drawers'
  BY <1>8, DrawersStartWorker
<1>9. CASE RecordWorker(t)
  BY <1>9, DrawersRecordWorker
<1> QED BY <1>1, <1>2, <1>3, <1>4, <1>5, <1>6, <1>7, <1>8, <1>9 DEF Opening

\* The main thread's steps outside start().
LEMMA DrawersMainOn ==
  ASSUME Called, Drawers, Moves("main"), UNCHANGED <<worker, lease, thread>>, live' \subseteq live,
         Work("main")'.op # "start", Work("main")'.at # "begun",
         Work("main").at # "begun" \/ Work("main")' = Work("main")
  PROVE  Drawers'
<1>1. StartOK'
  BY DEF StartOK
<1>2. \A u \in Thread \ {"main"} : Work(u)' = Work(u)
  BY DEF Moves
<1> QED BY <1>1, <1>2, DrawersOn DEF Thread

\* The old leases of s are not live any more when the next is given out.
LEMMA DrawersReplace ==
  ASSUME Called, Drawers, Typed', NEW s \in Slot, NEW w \in Worker, Replace(s, w)
  PROVE  Drawers'
<1>1. /\ Moves("main") /\ Work("main").op = "tick" /\ Work("main")'.op = "tick"
      /\ Work("main").at = "check" /\ Work("main")'.at = "begun" /\ Work("main")'.slot = s
  BY SeesReplace DEF Steps, Typed
<1>2. /\ UNCHANGED <<worker, lease>> /\ Spawn(w, s, lease[s] + 1) /\ worker[s] # None
      /\ live' = (live \ {<<s, lease[s]>>}) \cup {<<s, lease[s] + 1>>} /\ lease[s] \in Nat
  BY DEF Replace, Stale, Called, Typed, Values
<1>3. StartOK'
  BY <1>1 DEF StartOK
<1>4. \A o \in Slot : ~Begun(o) /\ (Begun(o)' <=> o = s)
  BY <1>1 DEF Begun
<1>5. Gen(s)' = lease[s] + 1 /\ Gen(s) = lease[s] /\ \A o \in Slot \ {s} : Gen(o)' = Gen(o)
  BY <1>2, <1>4 DEF Gen
<1>6. \A o \in Slot : Starting(o) => Starting(o)'
  <2>1. Work("link")' = Work("link")
    BY <1>1 DEF Moves, Thread
  <2> QED BY <1>1, <2>1 DEF Starting, Thread
<1>7. \A o \in Slot \ {s} : SlotKept(o)
  BY <1>2, <1>5, <1>6 DEF SlotKept
<1>8. ASSUME NEW v \in Worker, Busy(v), on[v] = s
      PROVE  by[v] < lease[s] + 1 /\ <<s, by[v]>> \notin live'
  <2>1. by[v] \in Nat /\ by[v] <= lease[s] /\ (<<s, by[v]>> \in live => by[v] = lease[s])
    BY <1>5, <1>8 DEF Drawers, WorkerOK, Called, Typed, Values
  <2>2. by[v] < lease[s] + 1 /\ by[v] # lease[s] + 1
    BY <1>2, <2>1
  <2> QED BY <1>2, <2>1, <2>2
<1>9. lease[s] + 1 \in Nat
  BY <1>2
<1> QED BY <1>2, <1>3, <1>5, <1>7, <1>8, <1>9, DrawersSpawn

LEMMA DrawersRecordReplacement ==
  ASSUME Called, Drawers, Typed', RecordReplacement
  PROVE  Drawers'
<1>1. /\ Moves("main") /\ Work("main").op = "tick" /\ Work("main")'.op = "tick"
      /\ Work("main").at = "begun" /\ Work("main")'.at = "check"
  BY SeesRecordReplacement DEF Steps, Typed
<1>2. Top("main") = Work("main") /\ Work("main").slot \in Slot /\ Work("main").worker \in Worker
  <2>1. In("main", {"tick"}, "begun") /\ "main" \in Thread
    BY DEF RecordReplacement, Thread
  <2>2. Top("main") = Work("main")
    BY <2>1, WorkIs DEF Called, Typed
  <2> QED BY <1>1, <2>1, <2>2, WorkOld DEF Called, FrameOK
<1> SUFFICES ASSUME NEW s \in Slot, s = Work("main").slot, NEW w \in Worker, w = Work("main").worker
             PROVE  Drawers'
  BY <1>2
<1>3. /\ UNCHANGED <<live, thread>> /\ worker' = [worker EXCEPT ![s] = w]
      /\ lease' = [lease EXCEPT ![s] = @ + 1]
  BY <1>2 DEF RecordReplacement
<1>4. /\ worker'[s] # None /\ \A o \in Slot \ {s} : worker'[o] = worker[o] /\ lease'[o] = lease[o]
      /\ lease'[s] = lease[s] + 1
  BY <1>3, Numbers DEF Called, Typed, Values
<1>5. StartOK'
  BY <1>1 DEF StartOK
<1>6. \A o \in Slot : ~Begun(o)' /\ (Begun(o) <=> o = s)
  BY <1>1 DEF Begun
<1>7. \A o \in Slot : Gen(o)' = Gen(o)
  BY <1>4, <1>6 DEF Gen
<1>8. \A o \in Slot : Starting(o) => Starting(o)'
  <2>1. Work("link")' = Work("link")
    BY <1>1 DEF Moves, Thread
  <2> QED BY <1>1, <2>1 DEF Starting, Thread
<1>9. \A o \in Slot : SlotKept(o)
  BY <1>3, <1>4, <1>7, <1>8 DEF SlotKept
<1>10. \A v \in Worker : (Busy(v)' <=> Busy(v)) /\ on'[v] = on[v] /\ by'[v] = by[v]
  BY <1>3 DEF Busy, thread
<1>11. \A v \in Worker : ~Busy(v) => on[v] = None
  BY DEF Drawers, WorkerOK
<1> QED BY <1>5, <1>9, <1>10, <1>11, DrawersHold

LEMMA DrawersMain ==
  ASSUME Called, Drawers, Typed', Main
  PROVE  Drawers'
<1> Stacks' /\ "main" \in Thread
  BY DEF Typed, Thread
<1>1. Moves("main")
  BY MainMoves
<1>2. Idle.op = "run" /\ Idle.at = "loop"
  BY IdleIs
<1>3. CASE StartReturns \/ TickReturns
  <2>1. /\ \/ In("main", {"start"}, "open") \/ In("main", {"start"}, "work")
           \/ In("main", {"tick"}, "check")
        /\ Return("main") /\ UNCHANGED <<worker, lease, thread, live>>
    BY <1>3 DEF StartReturns, TickReturns, slot
  <2>2. Work("main")' = Idle /\ Work("main").at # "begun"
    BY <2>1, SeesReturns DEF Moved
  <2> QED BY <1>1, <1>2, <2>1, <2>2, DrawersMainOn
<1>4. CASE Lap
  <2>1. In("main", {"run"}, "loop") /\ UNCHANGED <<worker, lease, thread, live>>
    BY <1>4 DEF Lap, slot
  <2>2. Work("main") = Idle
    <3>1. Depth("main") \in Levels("main") /\ Fr("main", Depth("main")).op = "run" /\ Depth("main") \in Nat
      BY <2>1, InIs DEF Called, Typed
    <3>2. Depth("main") = 1
      BY <3>1 DEF Called, MainShape, MainCall, Levels
    <3> QED BY <3>2 DEF Work
  <2>3. CASE Raise
    <3>1. Work("main")' = Idle
      BY <2>1, <2>3, WorkRaises DEF Called, Typed, Moved
    <3> QED BY <1>1, <1>2, <2>1, <2>2, <3>1, DrawersMainOn
  <2>4. CASE Call("main", Frame("tick", "enter"))
    <3>1. PICK f \in FrameType : f = Frame("tick", "enter") /\ f.op = "tick" /\ f.at = "enter"
      BY FrameIs DEF Op, At
    <3>2. Work("main")' = f
      BY <2>1, <2>4, <3>1, WorkCalls DEF Called, Typed, Moved
    <3> QED BY <1>1, <1>2, <2>1, <2>2, <3>1, <3>2, DrawersMainOn
  <2> QED BY <1>4, <2>3, <2>4 DEF Lap
<1>5. CASE Exit
  <2>1. UNCHANGED <<worker, lease, thread, live>>
    BY <1>5 DEF Exit, slot
  <2>2. Work("main")' = Work("main") /\ Ended
    BY <1>5, ExitIs DEF Called, Typed, Moved
  <2>3. Work("main") = Idle
    <3>1. Depth("main") \in Nat
      BY StackIs DEF Called, Typed
    <3> QED BY <2>2, <3>1 DEF Ended, Work
  <2> QED BY <1>1, <1>2, <2>1, <2>2, <2>3, DrawersMainOn
<1>6. CASE EnterTick
  <2>1. UNCHANGED <<worker, lease, thread, live>>
    BY <1>6 DEF EnterTick, slot
  <2>2. /\ Work("main").at = "enter"
        /\ Work("main")' = Idle \/ (Work("main")'.op = "tick" /\ Work("main")'.at = "check")
    BY <1>6, SeesEnterTick DEF Moved, Steps
  <2> QED BY <1>1, <1>2, <2>1, <2>2, DrawersMainOn
<1>7. ASSUME NEW s \in Slot, ReplaceFails(s)
      PROVE  Drawers'
  <2>1. /\ In("main", {"tick"}, "check") /\ Raise /\ UNCHANGED <<worker, lease, thread>>
        /\ live' \subseteq live
    BY <1>7 DEF ReplaceFails
  <2>2. Work("main")' = Idle /\ Work("main").at = "check"
    BY <2>1, WorkRaises, WorkIs DEF Called, Typed, Moved
  <2> QED BY <1>1, <1>2, <2>1, <2>2, DrawersMainOn
<1> QED BY <1>3, <1>4, <1>5, <1>6, <1>7, DrawersReplace, DrawersRecordReplacement DEF Main

LEMMA DrawersLink ==
  ASSUME ~EarlyPush, Called, Drawers, Typed', Link
  PROVE  Drawers'
<1> Stacks' /\ "link" \in Thread
  BY DEF Typed, Thread
<1>1. Moves("link")
  BY LinkMoves
<1>2. Idle.op = "run" /\ Idle.at = "loop"
  BY IdleIs
<1>3. ASSUME NEW s \in Slot, ProbeLights(s)
      PROVE  Drawers'
  BY <1>3, DrawersProbeLights
<1>4. CASE /\ UNCHANGED <<worker, lease, thread>> /\ live' \subseteq live
           /\ Work("link").op \in {"apply", "probe"}
           /\ Work("link").at # "begun" /\ Work("link")'.at # "begun"
  BY <1>1, <1>2, <1>4, DrawersLinkOn
<1>5. CASE EnterApply
  <2>1. UNCHANGED <<worker, lease, thread>> /\ live' \subseteq live
    BY <1>5 DEF EnterApply
  <2>2. Work("link").op = "apply" /\ Work("link").at = "enter" /\ Work("link")'.at \in {"loop", "join"}
    BY <1>2, <1>5, SeesEnterApply DEF Moved, Steps
  <2> QED BY <1>4, <2>1, <2>2
<1>6. CASE EnterProbe \/ ProbePaused
  <2>1. UNCHANGED <<worker, lease, thread, live>>
    BY <1>6 DEF EnterProbe, ProbePaused, slot
  <2>2. In("link", {"probe"}, "enter") \/ In("link", {"probe"}, "pause")
    BY <1>6 DEF EnterProbe, ProbePaused
  <2>3. Work("link").op = "probe" /\ Work("link").at \in {"enter", "pause"}
    BY <2>2, WorkIs DEF Called, Typed
  <2>4. Work("link")'.at \in {"loop", "pause", "open"}
    BY <1>2, <1>6, SeesEnterProbe, SeesProbePaused DEF Moved, Steps
  <2> QED BY <1>4, <2>1, <2>3, <2>4
<1>7. CASE JoinRetired \/ BlankRetired
  <2>1. UNCHANGED <<worker, lease, thread>> /\ live' \subseteq live
    BY <1>7 DEF JoinRetired, BlankRetired, ShutDown, slot
  <2>2. /\ Work("link").op = "apply" /\ Work("link").at \in {"join", "pause"}
        /\ Work("link")'.at \in {"pause", "open"}
    BY <1>7, SeesJoinRetired, SeesBlankRetired DEF Steps
  <2> QED BY <1>4, <2>1, <2>2
<1>8. CASE ApplyReturns \/ ProbeReturns
  <2>1. /\ \/ In("link", {"apply"}, "work") \/ In("link", {"probe"}, "init")
           \/ In("link", {"probe"}, "lit")
        /\ Return("link") /\ UNCHANGED <<worker, lease, thread>> /\ live' \subseteq live
    BY <1>8 DEF ApplyReturns, ProbeReturns, ShutDown, slot
  <2>2. /\ Work("link").op \in {"apply", "probe"} /\ Work("link").at \in {"work", "init", "lit"}
        /\ Work("link")' = Idle
    BY <2>1, SeesReturns DEF Moved
  <2> QED BY <1>2, <1>4, <2>1, <2>2
<1>9. ASSUME NEW s \in Slot, Pause(s) \/ PauseFails(s)
      PROVE  Drawers'
  <2>1. UNCHANGED <<worker, lease, thread, live>>
    BY <1>9 DEF Pause, PauseFails, slot
  <2>2. /\ Work("link").op \in {"apply", "probe"} /\ Work("link").at = "pause"
        /\ Work("link")'.at = "pause"
    BY <1>9, SeesPause, SeesPauseFails DEF Steps
  <2> QED BY <1>4, <2>1, <2>2
<1> QED BY <1>3, <1>5, <1>6, <1>7, <1>8, <1>9 DEF Link

\* Steps in which no method goes on, and leases are at most revoked.
LEMMA DrawersStay ==
  ASSUME Called, Drawers, UNCHANGED <<worker, lease, thread, slots>>, live' \subseteq live,
         Work("main")' = Work("main"),
         Work("link")' = Work("link") \/ (Work("link") = Idle /\ Work("link")'.at = "enter")
  PROVE  Drawers'
<1>1. StartOK'
  BY DEF Drawers, StartOK
<1> QED BY <1>1, IdleIs, DrawersOn DEF Thread

LEMMA DrawersStep ==
  ASSUME ~EarlyPush, Called, Drawers, Next
  PROVE  Drawers'
<1>1. Typed'
  BY TypeStep DEF Called
<1>2. ASSUME NEW w \in Worker, BeginTick(w) \/ Show(w) \/ Shown(w) \/ Leave(w)
      PROVE  Drawers'
  <2>1. UNCHANGED <<stack, slots, worker, lease>> /\ live' \subseteq live
    BY <1>2 DEF BeginTick, Show, Shown, Leave, slot
  <2>2. \A t \in Thread : Work(t)' = Work(t)
    BY <2>1, AllUntouched DEF Moved, Moves
  <2>3. StartOK'
    BY <2>1, <2>2 DEF Drawers, StartOK, Thread
  <2>4. \A s \in Slot : (Begun(s)' <=> Begun(s)) /\ (Starting(s) => Starting(s)')
    BY <2>2 DEF Begun, Starting, Thread
  <2>5. Busy(w) /\ on[w] \in Slot
    BY <1>2 DEF BeginTick, Show, Shown, Leave, Busy, Drawers, WorkerOK, Called, Typed, Values
  <2>6. \A v \in Worker : \/ Busy(v) /\ Busy(v)' /\ on'[v] = on[v] /\ by'[v] = by[v]
                          \/ ~Busy(v)' /\ on'[v] = None
    <3>1. \A v \in Worker : ~Busy(v) => on[v] = None
      BY DEF Drawers, WorkerOK
    <3>2. CASE BeginTick(w) \/ Show(w) \/ Shown(w)
      <4>1. /\ UNCHANGED <<on, by>>
            /\ \A v \in Worker : Busy(v)' <=> Busy(v)
        BY <2>5, <3>2 DEF BeginTick, Show, Shown, Busy, Called, Typed, Values
      <4> QED BY <3>1, <4>1
    <3>3. CASE Leave(w)
      <4>1. /\ ~Busy(w)' /\ on'[w] = None
            /\ \A v \in Worker \ {w} : (Busy(v)' <=> Busy(v)) /\ on'[v] = on[v] /\ by'[v] = by[v]
        BY <3>3 DEF Leave, Busy, Called, Typed, Values
      <4> QED BY <3>1, <4>1
    <3> QED BY <1>2, <3>2, <3>3
  <2> QED BY <2>1, <2>3, <2>4, <2>6, DrawersKeep
<1>3. ASSUME NEW t \in Thread, Stopping(t)
      PROVE  Drawers'
  <2>1. UNCHANGED <<worker, lease, thread, slots>> /\ live' \subseteq live
    BY <1>3 DEF Stopping, EnterStop, JoinAll, ClosePanel, StopReturns, ClaimPanel, slot
  <2>2. StopMoved(t)
    BY <1>1, <1>3, EnterStopIs, JoinAllIs, ClosePanelIs, StopReturnsIs, ClaimPanelIs DEF Stopping
  <2> QED BY <2>1, <2>2, DrawersStay DEF StopMoved, Thread
<1>4. CASE Calls
  <2>1. UNCHANGED <<worker, lease, thread, slots, live>>
    BY <1>1, <1>4, BeginIs DEF slot
  <2> QED BY <1>1, <1>4, <2>1, BeginIs, DrawersStay
<1> QED BY <1>1, <1>2, <1>3, <1>4, DrawersOpening, DrawersMain, DrawersLink DEF Next, Drawing

\* However often the watchdog gives a slot a new worker, and however the workers
\* it gave up wake or leave, one worker at most can still put a frame on its
\* panel: the others' leases are revoked before the next is given out.  An apply()
\* that meets start() half way is the case that this does not hold of: both start
\* a worker on a slot that has none.
THEOREM OneDrawerHolds ==
  ASSUME ~EarlyPush
  PROVE  Spec => []OneDrawer
<1>1. Init => Called /\ Drawers
  <2> SUFFICES ASSUME Init
               PROVE  Called /\ Drawers
    OBVIOUS
  <2>1. Called /\ slots = {} /\ Work("main").at = "open"
    BY InitIs
  <2>2. \A w \in Worker : ~Busy(w) /\ on[w] = None
    BY DEF Init, Busy
  <2> QED BY <2>1, <2>2 DEF Drawers, StartOK, WorkerOK
<1>2. Called /\ Drawers /\ [Next]_vars => (Called /\ Drawers)'
  <2>1. ASSUME Called, Drawers, Next
        PROVE  (Called /\ Drawers)'
    BY <2>1, CalledStep, DrawersStep
  <2>2. ASSUME Called, Drawers, UNCHANGED vars
        PROVE  (Called /\ Drawers)'
    <3>1. UNCHANGED <<worker, lease, thread, slots, live>>
      BY <2>2 DEF vars, slot
    <3>2. \A t \in Thread : Work(t)' = Work(t)
      BY <2>2, AllUntouched DEF Moved, Moves, vars
    <3> QED BY <2>2, <3>1, <3>2, VarsStay, DrawersStay DEF Thread
  <2> QED BY <2>1, <2>2
<1>3. Drawers => OneDrawer
  BY DrawersOne
<1> QED BY <1>1, <1>2, <1>3, PTL DEF Spec

-----------------------------------------------------------------------------
(* The one call that opens panels.                                         *)

\* start(), or what the link thread is in: it is in nothing while start() runs.
Job == IF Work("main").op = "start" THEN Work("main") ELSE Work("link")

LEMMA OpsAre ==
  ASSUME Called
  PROVE  Work("main").op \in {"run", "start", "tick"} /\ Work("link").op \in {"run", "apply", "probe"}
<1>1. Depth("link") \in Nat /\ Depth("main") \in Nat
  BY StackIs DEF Called, Typed, Thread
<1> QED BY <1>1, IdleIs DEF Called, MainShape, LinkShape, Work

LEMMA JobIs ==
  ASSUME ~EarlyPush, Called, NEW t \in Thread, Work(t).op \in {"start", "apply", "probe"}
  PROVE  /\ Job = Work(t) /\ (t = "main" <=> Job.op = "start")
         /\ t = "main" => Work("link") = Idle
         /\ t = "link" => Work("main").op # "start" /\ Work("link") # Idle
<1>1. CASE t = "main"
  BY <1>1, OpsAre DEF Job, Called, Locks
<1>2. CASE t = "link"
  <2>1. Work("link").op \in {"apply", "probe"} /\ Work("link") # Idle
    BY <1>2, OpsAre, IdleIs
  <2>2. Work("main").op # "start"
    BY <2>1 DEF Called, Locks
  <2> QED BY <1>2, <2>1, <2>2 DEF Job
<1> QED BY <1>1, <1>2 DEF Thread

LEMMA JobOK ==
  ASSUME Called
  PROVE  Job \in FrameType /\ FrameOK(Job)
BY WorkOld DEF Called, Job, Thread

\* The call goes on, returns, or stays where it is.
LEMMA JobMoves ==
  ASSUME ~EarlyPush, Called, NEW t \in Thread, Work(t).op \in {"start", "apply", "probe"},
         Moves(t), Work(t)'.op = Work(t).op
  PROVE  Job' = Work(t)'
<1>1. CASE t = "main"
  BY <1>1, OpsAre DEF Job
<1>2. CASE t = "link"
  <2>1. Work("main")' = Work("main") /\ Work("main").op # "start"
    BY <1>2, JobIs DEF Moves, Thread
  <2> QED BY <1>2, <2>1 DEF Job
<1> QED BY <1>1, <1>2 DEF Thread

LEMMA JobEnds ==
  ASSUME ~EarlyPush, Called, NEW t \in Thread, Work(t).op \in {"start", "apply", "probe"},
         Moved(t, Idle)
  PROVE  Job' = Idle
<1>1. Work(t)' = Idle /\ \A u \in Thread \ {t} : Work(u)' = Work(u)
  BY DEF Moved, Moves
<1>2. CASE t = "main"
  BY <1>1, <1>2, JobIs, IdleIs DEF Job, Thread
<1>3. CASE t = "link"
  BY <1>1, <1>3, JobIs DEF Job, Thread
<1> QED BY <1>2, <1>3 DEF Thread

LEMMA JobStays ==
  ASSUME \/ \A t \in Thread : Work(t)' = Work(t)
         \/ Work("main").op # "start" /\ Work("main")'.op # "start" /\ Work("link")' = Work("link")
  PROVE  Job' = Job
BY DEF Job, Thread

LEMMA JobWalks ==
  ASSUME ~EarlyPush, Called, Stacks', NEW t \in Thread, NEW ops, NEW at, In(t, ops, at),
         ops \subseteq {"start", "apply", "probe"}, NEW f, Go(t, f), f.op = Top(t).op
  PROVE  /\ Top(t) = Job /\ Job' = f /\ f \in FrameType /\ Job.op \in ops /\ Job.at = at
         /\ t = "main" <=> Job.op = "start"
<1>1. /\ Top(t) = Work(t) /\ Work(t)' = f /\ f \in FrameType
      /\ Moves(t) /\ Work(t).op \in ops /\ Work(t).at = at
  <2>1. ops \subseteq {"start", "tick", "apply", "probe"}
    OBVIOUS
  <2>2. Top(t) = Work(t) /\ Work(t)' = f /\ f \in FrameType /\ Steps(t, ops, at, f.at)
    BY <2>1, Walks DEF Called
  <2> QED BY <2>2 DEF Steps
<1>2. Work(t).op \in {"start", "apply", "probe"} /\ Work(t)'.op = Work(t).op
  BY <1>1
<1>3. Job' = Work(t)'
  BY <1>1, <1>2, JobMoves
<1>4. Job = Work(t) /\ (t = "main" <=> Job.op = "start")
  BY <1>2, JobIs
<1> QED BY <1>1, <1>3, <1>4

\* Where each step leaves it.
LEMMA JobBeginOpen ==
  ASSUME ~EarlyPush, Called, Stacks', NEW t \in Thread, NEW x, BeginOpen(t, x)
  PROVE  /\ Job' = [Job EXCEPT !.at = "init", !.screen = x, !.screens = @ \ {x}]
         /\ Job \in FrameType /\ Job.op \in {"start", "apply", "probe"} /\ Job.at = "open"
         /\ x \in Job.screens /\ BusOf(x) \notin Job.buses
         /\ Job.op = "start" => ~stopped
<1> SUFFICES ASSUME NEW f, f = [Top(t) EXCEPT !.at = "init", !.screen = x, !.screens = @ \ {x}]
             PROVE  /\ Job' = f /\ Top(t) = Job
                    /\ Job \in FrameType /\ Job.op \in {"start", "apply", "probe"} /\ Job.at = "open"
                    /\ x \in Job.screens /\ BusOf(x) \notin Job.buses
                    /\ Job.op = "start" => ~stopped
  OBVIOUS
<1>1. /\ In(t, {"start", "apply", "probe"}, "open") /\ Go(t, f)
      /\ x \in Top(t).screens /\ BusOf(x) \notin Top(t).buses /\ (Top(t).op = "start" => ~stopped)
  BY DEF BeginOpen
<1>2. Top(t) \in FrameType
  BY <1>1, InIs DEF Called, Typed
<1>3. f.op = Top(t).op
  BY <1>2 DEF FrameType
<1> QED BY <1>1, <1>2, <1>3, JobWalks

LEMMA JobSkipOpen ==
  ASSUME ~EarlyPush, Called, Stacks', NEW t \in Thread, NEW x, SkipOpen(t, x)
  PROVE  /\ Job' = [Job EXCEPT !.screens = @ \ {x}]
         /\ Job \in FrameType /\ Job.op = "apply" /\ Job.at = "open" /\ x \in Job.screens
<1> SUFFICES ASSUME NEW f, f = [Top(t) EXCEPT !.screens = @ \ {x}]
             PROVE  /\ Job' = f /\ Top(t) = Job
                    /\ Job \in FrameType /\ Job.op = "apply" /\ Job.at = "open" /\ x \in Job.screens
  OBVIOUS
<1>1. In(t, {"apply"}, "open") /\ Go(t, f) /\ x \in Top(t).screens
  BY DEF SkipOpen
<1>2. Top(t) \in FrameType
  BY <1>1, InIs DEF Called, Typed
<1>3. f.op = Top(t).op
  BY <1>2 DEF FrameType
<1>4. Top(t) = Job /\ Job' = f /\ Job.op \in {"apply"} /\ Job.at = "open"
  <2>1. {"apply"} \subseteq {"start", "apply", "probe"}
    OBVIOUS
  <2> QED BY <1>1, <1>3, <2>1, JobWalks
<1> QED BY <1>1, <1>2, <1>4

LEMMA JobOpenFails ==
  ASSUME ~EarlyPush, Called, Stacks', NEW t \in Thread, OpenFails(t)
  PROVE  /\ Job' = [Job EXCEPT !.at = "open", !.screen = None]
         /\ Job \in FrameType /\ Job.op \in {"start", "apply"} /\ Job.at = "init" /\ Top(t) = Job
<1> SUFFICES ASSUME NEW f, f = [Top(t) EXCEPT !.at = "open", !.screen = None]
             PROVE  /\ Job' = f /\ Top(t) = Job
                    /\ Job \in FrameType /\ Job.op \in {"start", "apply"} /\ Job.at = "init"
  OBVIOUS
<1>1. In(t, {"start", "apply"}, "init") /\ Go(t, f)
  BY DEF OpenFails
<1>2. Top(t) \in FrameType
  BY <1>1, InIs DEF Called, Typed
<1>3. f.op = Top(t).op
  BY <1>2 DEF FrameType
<1> QED BY <1>1, <1>2, <1>3, JobWalks

LEMMA JobOpenPanel ==
  ASSUME ~EarlyPush, Called, NEW t \in Thread, NEW s \in Slot, OpenPanel(t, s)
  PROVE  /\ Job' = [Job EXCEPT !.at = "open", !.screen = None]
         /\ Job \in FrameType /\ Job.op \in {"start", "apply"} /\ Job.at = "init" /\ Top(t) = Job
         /\ Moves(t)
<1> SUFFICES ASSUME NEW f, f = [Top(t) EXCEPT !.at = "open", !.screen = None]
             PROVE  /\ Job' = f /\ Top(t) = Job /\ Moves(t)
                    /\ Job \in FrameType /\ Job.op \in {"start", "apply"} /\ Job.at = "init"
  OBVIOUS
<1>1. In(t, {"start", "apply"}, "init")
  BY DEF OpenPanel
<1>2. /\ Top(t) = Work(t) /\ Work(t).op \in {"start", "apply"} /\ Work(t).at = "init"
      /\ Work(t) \in FrameType
      /\ t = "link" => Work(t).op \in {"apply", "probe"}
  BY <1>1, WorkIs DEF Called, Typed
<1>3. f \in FrameType /\ f.op = Work(t).op
  BY <1>2 DEF FrameType, At
<1>4. t = "link" => ~stopped
  BY <1>2 DEF Called, Locks
<1>5. Moves(t) /\ Work(t)' = f
  BY <1>3, <1>4, WorkOpens DEF Called, Moved
<1> QED BY <1>2, <1>3, <1>5, JobIs, JobMoves

LEMMA JobOpensDone ==
  ASSUME ~EarlyPush, Called, Stacks', NEW t \in Thread, OpensDone(t)
  PROVE  /\ Job' = [Job EXCEPT !.at = "work", !.slots = slots]
         /\ Job \in FrameType /\ Job.op \in {"start", "apply"} /\ Job.at = "open" /\ Job.screens = {}
         /\ held' = (IF Job.op = "apply" THEN {} ELSE held)
<1> SUFFICES ASSUME NEW f, f = [Top(t) EXCEPT !.at = "work", !.slots = slots]
             PROVE  /\ Job' = f /\ Top(t) = Job /\ Job.screens = {}
                    /\ Job \in FrameType /\ Job.op \in {"start", "apply"} /\ Job.at = "open"
                    /\ held' = (IF Job.op = "apply" THEN {} ELSE held)
  OBVIOUS
<1>1. /\ In(t, {"start", "apply"}, "open") /\ Go(t, f) /\ Top(t).screens = {}
      /\ held' = (IF Top(t).op = "apply" THEN {} ELSE held)
  BY DEF OpensDone
<1>2. Top(t) \in FrameType
  BY <1>1, InIs DEF Called, Typed
<1>3. f.op = Top(t).op
  BY <1>2 DEF FrameType
<1> QED BY <1>1, <1>2, <1>3, JobWalks

LEMMA JobStartWorker ==
  ASSUME ~EarlyPush, Called, Stacks', NEW t \in Thread, NEW s, NEW w, StartWorker(t, s, w)
  PROVE  /\ Job' = [Job EXCEPT !.at = "begun", !.slots = @ \ {s}, !.slot = s, !.worker = w]
         /\ Job \in FrameType /\ Job.op \in {"start", "apply"} /\ Job.at = "work" /\ s \in Job.slots
<1> SUFFICES ASSUME NEW f, f = [Top(t) EXCEPT !.at = "begun", !.slots = @ \ {s}, !.slot = s,
                                              !.worker = w]
             PROVE  /\ Job' = f /\ Top(t) = Job /\ s \in Job.slots
                    /\ Job \in FrameType /\ Job.op \in {"start", "apply"} /\ Job.at = "work"
  OBVIOUS
<1>1. In(t, {"start", "apply"}, "work") /\ Go(t, f) /\ s \in Top(t).slots
  BY DEF StartWorker, ToStart
<1>2. Top(t) \in FrameType
  BY <1>1, InIs DEF Called, Typed
<1>3. f.op = Top(t).op
  BY <1>2 DEF FrameType
<1> QED BY <1>1, <1>2, <1>3, JobWalks

LEMMA JobRecordWorker ==
  ASSUME ~EarlyPush, Called, Stacks', NEW t \in Thread, RecordWorker(t)
  PROVE  /\ Job' = [Job EXCEPT !.at = "work", !.slot = None, !.worker = None]
         /\ Job \in FrameType /\ Job.op \in {"start", "apply"} /\ Job.at = "begun"
         /\ Job.slot \in Slot /\ Job.worker \in Worker
         /\ worker' = [worker EXCEPT ![Job.slot] = Job.worker]
<1> SUFFICES ASSUME NEW f, f = [Top(t) EXCEPT !.at = "work", !.slot = None, !.worker = None]
             PROVE  /\ Job' = f /\ Top(t) = Job
                    /\ Job \in FrameType /\ Job.op \in {"start", "apply"} /\ Job.at = "begun"
                    /\ Job.slot \in Slot /\ Job.worker \in Worker
                    /\ worker' = [worker EXCEPT ![Job.slot] = Job.worker]
  OBVIOUS
<1>1. /\ In(t, {"start", "apply"}, "begun") /\ Go(t, f)
      /\ worker' = [worker EXCEPT ![Top(t).slot] = Top(t).worker]
  BY DEF RecordWorker
<1>2. Top(t) \in FrameType
  BY <1>1, InIs DEF Called, Typed
<1>3. f.op = Top(t).op
  BY <1>2 DEF FrameType
<1>4. Job' = f /\ Top(t) = Job /\ Job.op \in {"start", "apply"} /\ Job.at = "begun"
  BY <1>1, <1>3, JobWalks
<1>5. Job.slot \in Slot /\ Job.worker \in Worker
  BY <1>4, JobOK DEF FrameOK
<1> QED BY <1>1, <1>2, <1>4, <1>5

LEMMA JobStartFails ==
  ASSUME ~EarlyPush, Called, Stacks', NEW t \in Thread, NEW s, StartFails(t, s)
  PROVE  /\ Job' = [Job EXCEPT !.at = "failed", !.slots = @ \ {s}, !.slot = s]
         /\ Job \in FrameType /\ Job.op \in {"start", "apply"} /\ Job.at = "work" /\ s \in Job.slots
<1> SUFFICES ASSUME NEW f, f = [Top(t) EXCEPT !.at = "failed", !.slots = @ \ {s}, !.slot = s]
             PROVE  /\ Job' = f /\ Top(t) = Job /\ s \in Job.slots
                    /\ Job \in FrameType /\ Job.op \in {"start", "apply"} /\ Job.at = "work"
  OBVIOUS
<1> DEFINE ops == {"start", "apply"} \cap MayRefuse
<1>1. In(t, ops, "work") /\ Go(t, f) /\ s \in Top(t).slots
  BY DEF StartFails, ToStart
<1>2. Top(t) \in FrameType
  BY <1>1, InIs DEF Called, Typed
<1>3. f.op = Top(t).op
  BY <1>2 DEF FrameType
<1>4. ops \subseteq {"start", "apply", "probe"}
  OBVIOUS
<1> QED BY <1>1, <1>2, <1>3, <1>4, JobWalks

LEMMA JobDropSlot ==
  ASSUME ~EarlyPush, Called, Stacks', NEW t \in Thread, DropSlot(t)
  PROVE  /\ \/ Job.op = "start" /\ Job' = Idle
            \/ Job.op = "apply" /\ Job' = [Job EXCEPT !.at = "work", !.slot = None]
         /\ Job \in FrameType /\ Job.at = "failed" /\ Top(t) = Job /\ Job.slot \in Slot
<1> SUFFICES ASSUME NEW f, f = [Top(t) EXCEPT !.at = "work", !.slot = None]
             PROVE  /\ \/ Job.op = "start" /\ Job' = Idle
                       \/ Job.op = "apply" /\ Job' = f
                    /\ Job \in FrameType /\ Job.at = "failed" /\ Top(t) = Job /\ Job.slot \in Slot
  OBVIOUS
<1>1. /\ In(t, {"start", "apply"}, "failed")
      /\ Top(t).op # "start" => Go(t, f)
  BY DEF DropSlot
<1>2. /\ Top(t) = Work(t) /\ Work(t).op \in {"start", "apply"} /\ Work(t).at = "failed"
      /\ Work(t) \in FrameType
  BY <1>1, WorkIs DEF Called, Typed
<1>3. Job = Work(t) /\ Job.slot \in Slot
  BY <1>2, JobIs, JobOK DEF FrameOK
<1>4. CASE Work(t).op = "start"
  <2>1. Moved(t, Idle)
    BY <1>4, SeesDropSlot DEF Steps
  <2> QED BY <1>2, <1>3, <1>4, <2>1, JobEnds
<1>5. CASE Work(t).op = "apply"
  <2>1. Go(t, f) /\ f.op = Top(t).op
    BY <1>1, <1>2, <1>5 DEF FrameType
  <2> QED BY <1>1, <1>2, <1>3, <1>5, <2>1, JobWalks
<1> QED BY <1>2, <1>4, <1>5

\* The main thread's other steps.
LEMMA JobMain ==
  ASSUME ~EarlyPush, Called, Typed', Main
  PROVE  /\ Moves("main")
         /\ \/ Job' = Job /\ ~StartReturns
            \/ /\ StartReturns /\ Job.op = "start" /\ Job' = Idle
               /\ stopped \/ (Job.at = "work" /\ Job.slots = {})
<1> Stacks' /\ "main" \in Thread
  BY DEF Typed, Thread
<1>1. Moves("main") /\ Work("link")' = Work("link")
  BY MainMoves DEF Moves, Thread
<1>2. CASE StartReturns
  <2>1. /\ In("main", {"start"}, "open") \/ In("main", {"start"}, "work")
        /\ Return("main")
        /\ stopped \/ (Top("main").at = "work" /\ Top("main").slots = {})
    BY <1>2 DEF StartReturns
  <2>2. Moved("main", Idle) /\ Top("main") = Work("main") /\ Work("main").op = "start"
    BY <2>1, SeesReturns
  <2>3. Job = Work("main") /\ Job' = Idle
    BY <2>2, JobIs, JobEnds
  <2> QED BY <1>1, <1>2, <2>1, <2>2, <2>3
<1>3. ASSUME ~StartReturns
      PROVE  Job' = Job
  <2>1. CASE /\ \/ In("main", {"tick"}, "check") \/ In("main", {"tick"}, "begun")
                \/ In("main", {"tick"}, "enter")
             /\ Work("main")'.op # "start"
    <3>1. Work("main").op = "tick"
      BY <2>1, WorkIs DEF Called, Typed
    <3> QED BY <1>1, <2>1, <3>1, JobStays
  <2>2. CASE Lap
    <3>1. In("main", {"run"}, "loop") /\ UNCHANGED stopped
      BY <2>2 DEF Lap
    <3>2. Work("main") = Idle
      <4>1. /\ Depth("main") \in Levels("main") /\ Fr("main", Depth("main")).op = "run"
            /\ Depth("main") \in Nat
        BY <3>1, InIs DEF Called, Typed
      <4>2. Depth("main") = 1
        BY <4>1 DEF Called, MainShape, MainCall, Levels
      <4> QED BY <4>2 DEF Work
    <3>3. CASE Raise
      <4>1. Work("main")' = Idle
        BY <3>1, <3>3, WorkRaises DEF Called, Typed, Moved
      <4> QED BY <1>1, <3>2, <4>1, IdleIs, JobStays
    <3>4. CASE Call("main", Frame("tick", "enter"))
      <4>1. PICK f \in FrameType : f = Frame("tick", "enter") /\ f.op = "tick" /\ f.at = "enter"
        BY FrameIs DEF Op, At
      <4>2. Work("main")' = f
        BY <3>1, <3>4, <4>1, WorkCalls DEF Called, Typed, Moved
      <4> QED BY <1>1, <3>2, <4>1, <4>2, IdleIs, JobStays
    <3> QED BY <2>2, <3>3, <3>4 DEF Lap
  <2>3. CASE Exit
    <3>1. Work("main")' = Work("main")
      BY <2>3, ExitIs DEF Called, Typed, Moved
    <3> QED BY <1>1, <3>1, JobStays DEF Thread
  <2>4. CASE EnterTick
    <3>1. In("main", {"tick"}, "enter")
      BY <2>4 DEF EnterTick
    <3>2. Work("main")'.op # "start"
      BY <2>4, SeesEnterTick, IdleIs DEF Moved, Steps
    <3> QED BY <2>1, <3>1, <3>2
  <2>5. CASE RecordReplacement
    <3>1. In("main", {"tick"}, "begun")
      BY <2>5 DEF RecordReplacement
    <3>2. Work("main")'.op # "start"
      BY <2>5, SeesRecordReplacement DEF Steps
    <3> QED BY <2>1, <3>1, <3>2
  <2>6. CASE TickReturns
    <3>1. In("main", {"tick"}, "check") /\ Return("main")
      BY <2>6 DEF TickReturns
    <3>2. Work("main")' = Idle
      BY <3>1, SeesReturns DEF Moved
    <3> QED BY <2>1, <3>1, <3>2, IdleIs
  <2>7. ASSUME NEW s \in Slot, ReplaceFails(s)
        PROVE  Job' = Job
    <3>1. In("main", {"tick"}, "check") /\ Raise
      BY <2>7 DEF ReplaceFails
    <3>2. Work("main")' = Idle
      BY <3>1, WorkRaises DEF Called, Typed, Moved
    <3> QED BY <2>1, <3>1, <3>2, IdleIs
  <2>8. ASSUME NEW s \in Slot, NEW w \in Worker, Replace(s, w)
        PROVE  Job' = Job
    <3>1. In("main", {"tick"}, "check")
      BY <2>8 DEF Replace
    <3>2. Work("main")'.op # "start"
      BY <2>8, SeesReplace DEF Steps
    <3> QED BY <2>1, <3>1, <3>2
  <2> QED BY <1>3, <2>2, <2>3, <2>4, <2>5, <2>6, <2>7, <2>8 DEF Main
<1> QED BY <1>1, <1>2, <1>3

LEMMA MainKeeps ==
  ASSUME Main
  PROVE  /\ UNCHANGED <<stopped, config, slots, unavailable, screen, issue, closes, held>>
         /\ UNCHANGED worker \/ RecordReplacement
BY DEF Main, StartReturns, Lap, Exit, EnterTick, RecordReplacement, TickReturns, ReplaceFails,
       Replace, slot

\* What an apply() and a probe do before they open anything.
LEMMA JobEnterApply ==
  ASSUME ~EarlyPush, Called, Stacks', EnterApply
  PROVE  /\ Job \in FrameType /\ Job.op = "apply" /\ Job.at = "enter"
         /\ \/ stopped /\ Job' = Idle /\ UNCHANGED <<config, issue>>
            \/ /\ ~stopped /\ config' = [screens |-> Job.screens, issue |-> pushes]
               /\ issue' = [s \in Slot |-> IF s \in Keeps(Job.screens) THEN pushes ELSE issue[s]]
               /\ \/ /\ Job' = Idle /\ slots = Keeps(Job.screens)
                     /\ Job.screens \subseteq {screen[s] : s \in slots}
                  \/ /\ Job'.op = "apply" /\ Job'.at = "join" /\ Job'.kept = Keeps(Job.screens)
                     /\ Job'.screens = Job.screens \ {screen[s] : s \in Keeps(Job.screens)}
<1> DEFINE K == Keeps(Top("link").screens)
           C == Top("link").screens \ {screen[s] : s \in K}
<1>1. /\ In("link", {"apply"}, "enter") /\ "link" \in Thread /\ {"apply"} \subseteq {"start", "apply", "probe"}
      /\ {"apply"} \subseteq {"start", "tick", "apply", "probe"}
  BY DEF EnterApply, Thread
<1>2. /\ Top("link").op = "apply" /\ Top("link") = Work("link") /\ Work("link").at = "enter"
      /\ Work("link") \in FrameType /\ Job = Work("link")
  BY <1>1, WorkIs, JobIs DEF Called, Typed
<1>3. K \subseteq slots
  BY DEF Keeps
<1>4. ASSUME Return("link")
      PROVE  Job' = Idle
  BY <1>1, <1>2, <1>4, SeesReturns, JobEnds
<1>5. CASE stopped
  <2>1. Return("link") /\ UNCHANGED <<config, issue>>
    BY <1>5 DEF EnterApply
  <2> QED BY <1>2, <1>4, <1>5, <2>1
<1>6. CASE ~stopped
  <2>1. /\ config' = [screens |-> Top("link").screens, issue |-> pushes]
        /\ issue' = [s \in Slot |-> IF s \in K THEN pushes ELSE issue[s]]
        /\ IF C = {} /\ slots \ K = {} THEN Return("link")
             ELSE Go("link", [Frame("apply", "join") EXCEPT !.screens = C, !.kept = K,
                                !.retired = slots \ K, !.before = config])
    BY <1>6 DEF EnterApply
  <2>2. CASE C = {} /\ slots \ K = {}
    <3>1. Job' = Idle
      BY <1>4, <2>1, <2>2
    <3>2. slots = K /\ Top("link").screens \subseteq {screen[s] : s \in slots}
      <4>1. slots = K
        <5> HIDE DEF K
        <5> QED BY <1>3, <2>2
      <4>2. \A x \in Top("link").screens : x \in {screen[s] : s \in K}
        <5> HIDE DEF K
        <5> QED BY <2>2
      <4> QED BY <4>1, <4>2
    <3> QED BY <1>2, <1>6, <2>1, <3>1, <3>2
  <2>3. CASE ~(C = {} /\ slots \ K = {})
    <3> SUFFICES ASSUME NEW f, f = [Frame("apply", "join") EXCEPT !.screens = C, !.kept = K,
                                      !.retired = slots \ K, !.before = config]
                 PROVE  Job' = f /\ f.op = "apply" /\ f.at = "join" /\ f.screens = C /\ f.kept = K
      BY <1>2, <1>6, <2>1
    <3>1. f.op = "apply" /\ f.at = "join" /\ f.screens = C /\ f.kept = K
      <4>1. PICK g \in FrameType : g = Frame("apply", "join") /\ g.op = "apply" /\ g.at = "join"
        BY FrameIs DEF Op, At
      <4>2. f = [g EXCEPT !.screens = C, !.kept = K, !.retired = slots \ K, !.before = config]
        BY <4>1
      <4> HIDE DEF K, C
      <4> QED BY <4>1, <4>2 DEF FrameType
    <3>2. Go("link", f)
      BY <2>1, <2>3
    <3> HIDE DEF K, C
    <3> QED BY <1>1, <1>2, <3>1, <3>2, JobWalks
  <2> QED BY <2>2, <2>3
<1> QED BY <1>5, <1>6

LEMMA JobJoinRetired ==
  ASSUME ~EarlyPush, Called, Stacks', JoinRetired
  PROVE  /\ Job' = [Job EXCEPT !.at = "pause", !.slots = HasWorker(Job.kept)]
         /\ Job \in FrameType /\ Job.op = "apply" /\ Job.at = "join"
         /\ slots' = Job.kept /\ unavailable' = {} /\ Job = Work("link")
<1> SUFFICES ASSUME NEW f, f = [Top("link") EXCEPT !.at = "pause", !.slots = HasWorker(Top("link").kept)]
             PROVE  /\ Job' = f /\ Top("link") = Job /\ Job = Work("link")
                    /\ Job \in FrameType /\ Job.op = "apply" /\ Job.at = "join"
                    /\ slots' = Job.kept /\ unavailable' = {}
  OBVIOUS
<1>1. /\ In("link", {"apply"}, "join") /\ Go("link", f) /\ "link" \in Thread
      /\ slots' = Top("link").kept /\ unavailable' = {} /\ {"apply"} \subseteq {"start", "apply", "probe"}
  BY DEF JoinRetired, Thread
<1>2. Top("link") \in FrameType
  BY <1>1, InIs DEF Called, Typed
<1>3. f.op = Top("link").op
  BY <1>2 DEF FrameType
<1>4. Top("link") = Job /\ Job' = f /\ Job.op \in {"apply"} /\ Job.at = "join" /\ ~(Job.op = "start")
  BY <1>1, <1>3, JobWalks
<1>5. Job = Work("link")
  BY <1>4 DEF Job
<1> QED BY <1>1, <1>2, <1>4, <1>5

LEMMA JobPause ==
  ASSUME ~EarlyPush, Called, Stacks', NEW s, Pause(s) \/ PauseFails(s)
  PROVE  /\ \/ /\ Job' = [Job EXCEPT !.slots = @ \ {s}]
               /\ held' = held \cup {worker[s]} /\ ~InTick(worker[s])
            \/ /\ Job' = [Job EXCEPT !.slots = @ \ {s}, !.buses = @ \cup {BusOf(screen[s])}]
               /\ UNCHANGED held
         /\ Job \in FrameType /\ Job.op \in {"apply", "probe"} /\ Job.at = "pause" /\ s \in Job.slots
<1>1. /\ In("link", {"apply", "probe"}, "pause") /\ "link" \in Thread /\ s \in Top("link").slots
  BY DEF Pause, PauseFails, Thread
<1>2. Top("link") \in FrameType
  BY <1>1, InIs DEF Called, Typed
<1>3. CASE Pause(s)
  <2> SUFFICES ASSUME NEW f, f = [Top("link") EXCEPT !.slots = @ \ {s}]
               PROVE  /\ Job' = f /\ Top("link") = Job /\ held' = held \cup {worker[s]} /\ ~InTick(worker[s])
                      /\ Job.op \in {"apply", "probe"} /\ Job.at = "pause"
    BY <1>1, <1>2
  <2>1. Go("link", f) /\ held' = held \cup {worker[s]} /\ ~InTick(worker[s])
    BY <1>3 DEF Pause
  <2>2. f.op = Top("link").op
    BY <1>2 DEF FrameType
  <2> QED BY <1>1, <2>1, <2>2, JobWalks
<1>4. CASE PauseFails(s)
  <2> SUFFICES ASSUME NEW f, f = [Top("link") EXCEPT !.slots = @ \ {s},
                                                     !.buses = @ \cup {BusOf(screen[s])}]
               PROVE  /\ Job' = f /\ Top("link") = Job /\ UNCHANGED held
                      /\ Job.op \in {"apply", "probe"} /\ Job.at = "pause"
    BY <1>1, <1>2
  <2>1. Go("link", f) /\ UNCHANGED held
    BY <1>4 DEF PauseFails
  <2>2. f.op = Top("link").op
    BY <1>2 DEF FrameType
  <2> QED BY <1>1, <2>1, <2>2, JobWalks
<1> QED BY <1>3, <1>4

LEMMA JobBlankRetired ==
  ASSUME ~EarlyPush, Called, Stacks', BlankRetired
  PROVE  /\ Job' = [Job EXCEPT !.at = "open", !.retired = {}]
         /\ Job \in FrameType /\ Job.op = "apply" /\ Job.at = "pause" /\ Job.slots = {}
<1> SUFFICES ASSUME NEW f, f = [Top("link") EXCEPT !.at = "open", !.retired = {}]
             PROVE  /\ Job' = f /\ Top("link") = Job /\ Job.slots = {}
                    /\ Job \in FrameType /\ Job.op = "apply" /\ Job.at = "pause"
  OBVIOUS
<1>1. /\ In("link", {"apply"}, "pause") /\ Go("link", f) /\ "link" \in Thread
      /\ {"apply"} \subseteq {"start", "apply", "probe"} /\ Top("link").slots = {}
  BY DEF BlankRetired, Thread
<1>2. Top("link") \in FrameType
  BY <1>1, InIs DEF Called, Typed
<1>3. f.op = Top("link").op
  BY <1>2 DEF FrameType
<1>4. Top("link") = Job /\ Job' = f /\ Job.op \in {"apply"} /\ Job.at = "pause"
  <2>1. In("link", {"apply"}, "pause") /\ Go("link", f) /\ {"apply"} \subseteq {"start", "apply", "probe"}
    BY <1>1
  <2> QED BY <1>3, <2>1, JobWalks DEF Thread
<1>5. Job.slots = {} /\ Job \in FrameType /\ Job.op = "apply"
  BY <1>1, <1>2, <1>4
<1> QED BY <1>4, <1>5

LEMMA JobApplyReturns ==
  ASSUME ~EarlyPush, Called, Stacks', ApplyReturns
  PROVE  /\ Job' = Idle /\ Job \in FrameType /\ Job.op = "apply" /\ Job.at = "work"
         /\ \A s \in Job.slots : worker[s] # None
         /\ config' = IF \A s \in slots : issue[s] = config.issue THEN config ELSE Job.before
<1>1. /\ In("link", {"apply"}, "work") /\ Return("link") /\ "link" \in Thread /\ ToStart("link") = {}
      /\ config' = IF \A s \in slots : issue[s] = config.issue THEN config ELSE Top("link").before
      /\ {"apply"} \subseteq {"start", "tick", "apply", "probe"}
  BY DEF ApplyReturns, Thread
<1>2. /\ Top("link") = Work("link") /\ Work("link").op = "apply" /\ Work("link").at = "work"
      /\ Work("link") \in FrameType /\ Job = Work("link") /\ Moved("link", Idle)
  BY <1>1, WorkIs, JobIs, SeesReturns DEF Called, Typed
<1>3. \A s \in Job.slots : worker[s] # None
  BY <1>1, <1>2 DEF ToStart
<1> QED BY <1>1, <1>2, <1>3, JobEnds

LEMMA JobEnterProbe ==
  ASSUME ~EarlyPush, Called, Stacks', EnterProbe
  PROVE  /\ \/ Job' = Idle
            \/ /\ Job' = [Job EXCEPT !.at = "pause", !.slots = HasWorker(slots)]
               /\ ~stopped /\ \A x \in Job.screens, y \in config.screens : x.device # y.device
         /\ Job \in FrameType /\ Job.op = "probe" /\ Job.at = "enter"
<1> SUFFICES ASSUME NEW f, f = [Top("link") EXCEPT !.at = "pause", !.slots = HasWorker(slots)]
             PROVE  /\ \/ Job' = Idle
                       \/ /\ Job' = f /\ ~stopped
                          /\ \A x \in Job.screens, y \in config.screens : x.device # y.device
                    /\ Top("link") = Job /\ Job \in FrameType /\ Job.op = "probe" /\ Job.at = "enter"
  OBVIOUS
<1>1. /\ In("link", {"probe"}, "enter") /\ "link" \in Thread
      /\ {"probe"} \subseteq {"start", "apply", "probe"} /\ {"probe"} \subseteq {"start", "tick", "apply", "probe"}
  BY DEF EnterProbe, Thread
<1>2. \/ Return("link")
      \/ /\ Go("link", f) /\ ~stopped
         /\ \A x \in Top("link").screens, y \in config.screens : x.device # y.device
  BY DEF EnterProbe
<1>3. /\ Top("link") = Work("link") /\ Work("link").op = "probe" /\ Work("link").at = "enter"
      /\ Work("link") \in FrameType /\ Job = Work("link")
  BY <1>1, WorkIs, JobIs DEF Called, Typed
<1>4. ASSUME Return("link")
      PROVE  Job' = Idle
  BY <1>1, <1>3, <1>4, SeesReturns, JobEnds
<1>5. ASSUME Go("link", f)
      PROVE  Job' = f
  <2>1. f.op = Top("link").op
    BY <1>3 DEF FrameType
  <2> QED BY <1>1, <1>5, <2>1, JobWalks
<1> QED BY <1>2, <1>3, <1>4, <1>5

LEMMA JobProbePaused ==
  ASSUME ~EarlyPush, Called, Stacks', ProbePaused
  PROVE  /\ \/ Job' = Idle /\ held' = {}
            \/ Job' = [Job EXCEPT !.at = "open"] /\ UNCHANGED held
         /\ Job \in FrameType /\ Job.op = "probe" /\ Job.at = "pause" /\ Job.slots = {}
<1> SUFFICES ASSUME NEW f, f = [Top("link") EXCEPT !.at = "open"]
             PROVE  /\ \/ Job' = Idle /\ held' = {}
                       \/ Job' = f /\ UNCHANGED held
                    /\ Top("link") = Job /\ Job \in FrameType /\ Job.op = "probe" /\ Job.at = "pause"
                    /\ Job.slots = {}
  OBVIOUS
<1>1. /\ In("link", {"probe"}, "pause") /\ "link" \in Thread /\ Top("link").slots = {}
      /\ {"probe"} \subseteq {"start", "apply", "probe"} /\ {"probe"} \subseteq {"start", "tick", "apply", "probe"}
  BY DEF ProbePaused, Thread
<1>2. (Return("link") /\ held' = {}) \/ (Go("link", f) /\ UNCHANGED held)
  BY DEF ProbePaused
<1>3. /\ Top("link") = Work("link") /\ Work("link").op = "probe" /\ Work("link").at = "pause"
      /\ Work("link") \in FrameType /\ Job = Work("link")
  BY <1>1, WorkIs, JobIs DEF Called, Typed
<1>4. ASSUME Return("link")
      PROVE  Job' = Idle
  BY <1>1, <1>3, <1>4, SeesReturns, JobEnds
<1>5. ASSUME Go("link", f)
      PROVE  Job' = f
  <2>1. f.op = Top("link").op
    BY <1>3 DEF FrameType
  <2> QED BY <1>1, <1>5, <2>1, JobWalks
<1> QED BY <1>1, <1>2, <1>3, <1>4, <1>5

LEMMA JobProbeLights ==
  ASSUME ~EarlyPush, Called, Stacks', NEW s, ProbeLights(s)
  PROVE  /\ Job' = [Job EXCEPT !.at = "lit", !.slot = s] /\ Top("link") = Job
         /\ Job \in FrameType /\ Job.op = "probe" /\ Job.at = "init"
<1> SUFFICES ASSUME NEW f, f = [Top("link") EXCEPT !.at = "lit", !.slot = s]
             PROVE  /\ Job' = f /\ Top("link") = Job
                    /\ Job \in FrameType /\ Job.op = "probe" /\ Job.at = "init"
  OBVIOUS
<1>1. /\ In("link", {"probe"}, "init") /\ Go("link", f) /\ "link" \in Thread
      /\ {"probe"} \subseteq {"start", "apply", "probe"}
  BY DEF ProbeLights, Thread
<1>2. Top("link") \in FrameType
  BY <1>1, InIs DEF Called, Typed
<1>3. f.op = Top("link").op
  BY <1>2 DEF FrameType
<1>4. Top("link") = Job /\ Job' = f /\ Job.op \in {"probe"} /\ Job.at = "init"
  BY <1>1, <1>3, JobWalks
<1> QED BY <1>1, <1>2, <1>4

LEMMA JobProbeReturns ==
  ASSUME ~EarlyPush, Called, Stacks', ProbeReturns
  PROVE  /\ Job' = Idle /\ Job \in FrameType /\ Job.op = "probe" /\ Job.at \in {"init", "lit"}
         /\ held' = {}
<1>1. /\ In("link", {"probe"}, "init") \/ In("link", {"probe"}, "lit")
      /\ Return("link") /\ "link" \in Thread /\ held' = {}
      /\ {"probe"} \subseteq {"start", "tick", "apply", "probe"}
  BY DEF ProbeReturns, Thread
<1>2. /\ Work("link").op = "probe" /\ Work("link").at \in {"init", "lit"}
      /\ Work("link") \in FrameType /\ Moved("link", Idle)
  BY <1>1, WorkIs, SeesReturns DEF Called, Typed
<1>3. Job = Work("link") /\ Job' = Idle
  BY <1>1, <1>2, JobIs, JobEnds
<1> QED BY <1>1, <1>2, <1>3

\* A call that begins has still to take the lock.
LEMMA JobCalls ==
  ASSUME ~EarlyPush, Called, Typed', Calls
  PROVE  /\ \/ Job' = Job
            \/ /\ Job = Idle /\ Job'.op \in {"apply", "probe"} /\ Job'.at = "enter"
               /\ Job'.op = "apply" => Job'.screens \in Config
         /\ UNCHANGED <<stopped, config, slots, unavailable, slot, live, thread, held>>
<1>1. /\ Work("main")' = Work("main")
      /\ UNCHANGED <<stopped, config, slots, unavailable, slot, live, thread, held>>
  BY BeginIs
<1>2. ASSUME NEW f \in FrameType, f.op \in {"apply", "probe"}, f.at = "enter", Call("link", f), LinkMayCall
      PROVE  Job = Idle /\ Job' = f
  <2>1. Moved("link", f) /\ Work("link") = Idle /\ Work("main").op # "start"
    BY <1>2, SeesCalls
  <2>2. Work("link")' = f
    BY <2>1 DEF Moved
  <2> QED BY <1>1, <2>1, <2>2 DEF Job
<1>3. ASSUME NEW C \in Config, Push(C)
      PROVE  /\ Job = Idle /\ Job'.op \in {"apply", "probe"} /\ Job'.at = "enter"
             /\ Job'.op = "apply" => Job'.screens \in Config
  <2> SUFFICES ASSUME NEW f, f = [Frame("apply", "enter") EXCEPT !.screens = C]
               PROVE  /\ Job = Idle /\ Job' = f /\ f.op = "apply" /\ f.at = "enter" /\ f.screens = C
    OBVIOUS
  <2>1. f \in FrameType /\ f.op = "apply" /\ f.at = "enter" /\ f.screens = C
    <3>1. PICK g \in FrameType : g = Frame("apply", "enter") /\ g.op = "apply" /\ g.at = "enter"
      BY FrameIs DEF Op, At
    <3>2. f = [g EXCEPT !.screens = C]
      BY <3>1
    <3>3. C \subseteq Screen
      BY ConfigAssumption
    <3> QED BY <3>1, <3>2, <3>3 DEF FrameType
  <2> QED BY <1>2, <1>3, <2>1 DEF Push
<1>4. ASSUME NEW x \in Candidate, Probe(x)
      PROVE  Job = Idle /\ Job'.op = "probe" /\ Job'.at = "enter"
  <2> SUFFICES ASSUME NEW f, f = [Frame("probe", "enter") EXCEPT !.screens = {x}]
               PROVE  /\ Job = Idle /\ Job' = f /\ f.op = "probe" /\ f.at = "enter"
    OBVIOUS
  <2>1. f \in FrameType /\ f.op = "probe" /\ f.at = "enter"
    <3>1. PICK g \in FrameType : g = Frame("probe", "enter") /\ g.op = "probe" /\ g.at = "enter"
      BY FrameIs DEF Op, At
    <3>2. f = [g EXCEPT !.screens = {x}]
      BY <3>1
    <3> QED BY <3>1, <3>2 DEF FrameType
  <2> QED BY <1>2, <1>4, <2>1 DEF Probe
<1>5. CASE Reclock \/ Signal
  <2>1. PICK t \in Thread :
          /\ Call(t, Frame("stop", "enter"))
          /\ (t = "main" /\ stack["main"] # <<>>) \/ (t = "link" /\ stack["link"] = <<>>)
    BY <1>5 DEF Reclock, LinkMayCall, Signal, Alive, Thread
  <2>2. \A u \in Thread : Work(u)' = Work(u)
    BY <2>1, StopCalls DEF Called, Typed, Moved, Moves
  <2>3. Job' = Job
    BY <2>2, JobStays
  <2> QED BY <1>1, <2>3
<1> QED BY <1>1, <1>3, <1>4, <1>5 DEF Calls

LEMMA JobStopping ==
  ASSUME Called, Typed', NEW t \in Thread, Stopping(t)
  PROVE  /\ Job' = Job /\ StopMoved(t)
         /\ UNCHANGED <<config, slots, unavailable, screen, issue, worker, thread, held>>
         /\ stopped => stopped'
         /\ \A s \in Slot : Lit(s)' => Lit(s)
<1>1. StopMoved(t)
  BY EnterStopIs, JoinAllIs, ClosePanelIs, StopReturnsIs, ClaimPanelIs DEF Stopping
<1>2. Job' = Job
  BY <1>1, JobStays DEF StopMoved
<1>3. /\ UNCHANGED <<config, slots, unavailable, screen, issue, worker, thread, held>>
      /\ stopped => stopped'
  <2>1. /\ UNCHANGED <<config, slots, unavailable, screen, issue, worker, thread, held>>
        /\ stopped' \/ UNCHANGED stopped
    BY DEF Stopping, EnterStop, JoinAll, ClosePanel, StopReturns, ClaimPanel, slot
  <2> QED BY <2>1
<1>4. \A s \in Slot : Lit(s)' => Lit(s)
  <2>1. CASE UNCHANGED closes
    BY <2>1 DEF Lit
  <2>2. CASE ClosePanel(t)
    <3>1. closes' = [closes EXCEPT ![Top(t).slot] = @ + 1] /\ closes \in [Slot -> Nat]
      BY <2>2 DEF ClosePanel, Called, Typed, Values
    <3> QED BY <3>1 DEF Lit
  <2> QED BY <2>1, <2>2 DEF Stopping, EnterStop, JoinAll, StopReturns, ClaimPanel, slot
<1> QED BY <1>1, <1>2, <1>3, <1>4

LEMMA JobDrawing ==
  ASSUME Called, NEW w \in Worker, Drawing(w)
  PROVE  /\ Job' = Job /\ \A t \in Thread : Work(t)' = Work(t)
         /\ UNCHANGED <<stack, stopped, config, slots, unavailable, slot, held>>
<1>1. UNCHANGED <<stack, stopped, config, slots, unavailable, slot, held>>
  BY DEF Drawing, BeginTick, Show, Shown, Leave
<1>2. \A t \in Thread : Work(t)' = Work(t)
  BY <1>1, AllUntouched DEF Moved, Moves
<1> QED BY <1>1, <1>2, JobStays

-----------------------------------------------------------------------------
(* A worker off the bus while a device is opened.                          *)

\* The worker a slot knows of is on that slot as long as it runs, and so is the
\* one that has just been started for it.
Draws(w, s) == Busy(w) => on[w] = s
Known ==
  /\ \A s \in slots : worker[s] # None => Draws(worker[s], s)
  /\ \A t \in Thread : Work(t).at = "begun" => Draws(Work(t).worker, Work(t).slot)

LEMMA KnownKeeps ==
  ASSUME Called, Known,
         \A w \in Worker : Busy(w)' => Busy(w) /\ on'[w] = on[w],
         \A s \in slots' : worker'[s] = None \/ (s \in slots /\ worker'[s] = worker[s]),
         \A t \in Thread : Work(t)'.at = "begun" => Work(t)' = Work(t)
  PROVE  Known'
<1>1. ASSUME NEW s \in slots', worker'[s] # None
      PROVE  Draws(worker[s], s)'
  <2>1. s \in slots /\ worker'[s] = worker[s] /\ worker[s] # None /\ worker[s] \in Worker
    BY <1>1 DEF Called, Typed, Values
  <2>2. Draws(worker[s], s)
    BY <2>1 DEF Known
  <2> QED BY <2>1, <2>2 DEF Draws, Busy
<1>2. ASSUME NEW t \in Thread, Work(t)'.at = "begun"
      PROVE  Draws(Work(t).worker, Work(t).slot)'
  <2>1. Work(t)' = Work(t) /\ Work(t).at = "begun" /\ Work(t).worker \in Worker
    BY <1>2, WorkOld DEF Called, FrameOK
  <2>2. Draws(Work(t).worker, Work(t).slot)
    BY <2>1 DEF Known
  <2> QED BY <2>1, <2>2 DEF Draws, Busy
<1> QED BY <1>1, <1>2 DEF Known

\* A step of a method that starts and records no worker.
LEMMA KnownOn ==
  ASSUME Called, Known, UNCHANGED thread,
         \A s \in slots' : worker'[s] = None \/ (s \in slots /\ worker'[s] = worker[s]),
         NEW t \in Thread, Moves(t), Work(t)'.at # "begun"
  PROVE  Known'
<1>1. \A w \in Worker : Busy(w)' => Busy(w) /\ on'[w] = on[w]
  BY DEF Busy, thread
<1>2. \A u \in Thread : Work(u)'.at = "begun" => Work(u)' = Work(u)
  BY DEF Moves
<1> QED BY <1>1, <1>2, KnownKeeps

\* The new worker was no slot's and in nobody's hand.
LEMMA KnownSpawns ==
  ASSUME Called, Known, NEW w \in Worker, NEW s \in Slot, NEW g, Spawn(w, s, g),
         UNCHANGED <<slots, worker>>, NEW t \in Thread, Moves(t),
         Work(t)'.slot = s, Work(t)'.worker = w
  PROVE  Known'
<1>1. /\ doing[w] = "done" /\ \A o \in Slot : worker[o] = w => Vacant(o)
      /\ \A u \in Thread : \A k \in Levels(u) : Fr(u, k).worker # w
  BY SpareIs DEF Spawn, NewWorker, Called, Typed
<1>2. /\ on'[w] = s /\ \A v \in Worker \ {w} : doing'[v] = doing[v] /\ on'[v] = on[v]
  BY DEF Spawn, Called, Typed, Values
<1>3. ASSUME NEW o \in slots', worker'[o] # None
      PROVE  Draws(worker[o], o)'
  <2>1. o \in slots /\ o \in Slot /\ worker'[o] = worker[o] /\ worker[o] \in Worker
    BY <1>3 DEF Called, Typed, Values
  <2>2. worker[o] # w
    BY <1>1, <2>1 DEF Vacant
  <2>3. Draws(worker[o], o)
    BY <1>3, <2>1 DEF Known
  <2> QED BY <1>2, <2>1, <2>2, <2>3 DEF Draws, Busy
<1>4. ASSUME NEW u \in Thread, Work(u)'.at = "begun"
      PROVE  Draws(Work(u).worker, Work(u).slot)'
  <2>1. CASE u = t
    BY <1>2, <2>1 DEF Draws
  <2>2. CASE u # t
    <3>1. Work(u)' = Work(u)
      BY <2>2 DEF Moves
    <3>2. Work(u).worker \in Worker /\ Work(u).at = "begun"
      BY <1>4, <3>1, WorkOld DEF Called, FrameOK
    <3>3. Work(u).worker # w
      BY <1>1, <3>2, WorkOld, IdleIs DEF Called
    <3>4. Draws(Work(u).worker, Work(u).slot)
      BY <3>2 DEF Known
    <3> QED BY <1>2, <3>1, <3>2, <3>3, <3>4 DEF Draws, Busy
  <2> QED BY <2>1, <2>2
<1> QED BY <1>3, <1>4 DEF Known

LEMMA KnownRecords ==
  ASSUME Called, Known, NEW t \in Thread, Work(t).at = "begun",
         worker' = [worker EXCEPT ![Work(t).slot] = Work(t).worker],
         UNCHANGED <<slots, thread>>, Moves(t), Work(t)'.at # "begun"
  PROVE  Known'
<1> SUFFICES ASSUME NEW s \in Slot, s = Work(t).slot, NEW w \in Worker, w = Work(t).worker
             PROVE  Known'
  BY WorkOld DEF Called, FrameOK
<1>1. \A v, o : Draws(v, o)' <=> Draws(v, o)
  BY DEF Draws, Busy, thread
<1>2. Draws(w, s) /\ \A o \in Slot : worker'[o] = IF o = s THEN w ELSE worker[o]
  BY DEF Known, Called, Typed, Values
<1>3. ASSUME NEW o \in slots', worker'[o] # None
      PROVE  Draws(worker[o], o)'
  <2>1. o \in slots /\ o \in Slot
    BY <1>3 DEF Called, Typed, Values
  <2>2. Draws(worker'[o], o)
    BY <1>2, <1>3, <2>1 DEF Known
  <2> QED BY <2>2 DEF Draws, Busy, thread
<1>4. ASSUME NEW u \in Thread, Work(u)'.at = "begun"
      PROVE  Draws(Work(u).worker, Work(u).slot)'
  <2>1. Work(u)' = Work(u) /\ Draws(Work(u).worker, Work(u).slot)
    BY <1>4 DEF Moves, Known
  <2> QED BY <2>1 DEF Draws, Busy, thread
<1> QED BY <1>3, <1>4 DEF Known

LEMMA KnownOpening ==
  ASSUME Called, Known, Typed', NEW t \in Thread, Opening(t)
  PROVE  Known'
<1> Stacks'
  BY DEF Typed
<1>1. ASSUME NEW ops, NEW from, NEW to, Steps(t, ops, from, to), to # "begun",
             UNCHANGED <<thread, worker>>, slots' \subseteq slots
      PROVE  Known'
  BY <1>1, KnownOn DEF Steps
<1>2. ASSUME NEW x, BeginOpen(t, x) \/ SkipOpen(t, x)
      PROVE  Known'
  <2>1. UNCHANGED <<thread, worker, slots>>
    BY <1>2 DEF BeginOpen, SkipOpen, slot
  <2> QED BY <1>1, <1>2, <2>1, SeesBeginOpen, SeesSkipOpen
<1>3. CASE OpenFails(t) \/ OpensDone(t)
  <2>1. UNCHANGED <<thread, worker, slots>>
    BY <1>3 DEF OpenFails, OpensDone, slot
  <2> QED BY <1>1, <1>3, <2>1, SeesOpenFails, SeesOpensDone
<1>4. ASSUME NEW s \in Slot, OpenPanel(t, s)
      PROVE  Known'
  <2>1. UNCHANGED thread /\ slots' = slots \cup {s} /\ Opened(t, s)
    BY <1>4 DEF OpenPanel
  <2>2. /\ worker'[s] = None /\ \A o \in Slot \ {s} : worker'[o] = worker[o]
    BY <2>1, OpenedIs DEF Called
  <2>3. \A o \in slots' : worker'[o] = None \/ (o \in slots /\ worker'[o] = worker[o])
    BY <2>1, <2>2 DEF Called, Typed, Values
  <2> QED BY <1>4, <2>1, <2>3, SeesOpenPanel, KnownOn DEF Steps
<1>5. ASSUME NEW s \in Slot, StartFails(t, s)
      PROVE  Known'
  <2>1. UNCHANGED <<thread, worker, slots>>
    BY <1>5 DEF StartFails, slot
  <2> QED BY <1>1, <1>5, <2>1, SeesStartFails
<1>6. ASSUME NEW s \in Slot, NEW w \in Worker, StartWorker(t, s, w)
      PROVE  Known'
  <2>1. Spawn(w, s, lease[s]) /\ UNCHANGED <<slots, worker>>
    BY <1>6 DEF StartWorker, slot
  <2>2. Moves(t) /\ Work(t)'.slot = s /\ Work(t)'.worker = w
    BY <1>6, SeesStartWorker DEF Steps
  <2> QED BY <2>1, <2>2, KnownSpawns
<1>7. CASE RecordWorker(t)
  <2>1. /\ Top(t) = Work(t) /\ Work(t).at = "begun"
        /\ UNCHANGED <<slots, thread>> /\ worker' = [worker EXCEPT ![Top(t).slot] = Top(t).worker]
    <3>1. In(t, {"start", "apply"}, "begun")
      BY <1>7 DEF RecordWorker
    <3> QED BY <1>7, <3>1, WorkIs DEF RecordWorker, Called, Typed
  <2>2. Moves(t) /\ Work(t)'.at # "begun"
    BY <1>7, SeesRecordWorker DEF Steps
  <2> QED BY <2>1, <2>2, KnownRecords
<1>8. CASE DropSlot(t)
  <2>1. UNCHANGED <<thread, worker>> /\ slots' \subseteq slots
    BY <1>8 DEF DropSlot
  <2>2. CASE t = "main" /\ Moved(t, Idle)
    BY <2>1, <2>2, IdleIs, KnownOn DEF Moved
  <2> QED BY <1>1, <1>8, <2>1, <2>2, SeesDropSlot
<1> QED BY <1>2, <1>3, <1>4, <1>5, <1>6, <1>7, <1>8 DEF Opening

LEMMA KnownMain ==
  ASSUME Called, Known, Typed', Main
  PROVE  Known'
<1> Stacks' /\ "main" \in Thread
  BY DEF Typed, Thread
<1>1. Moves("main") /\ Work("link")' = Work("link")
  BY MainMoves DEF Moves, Thread
<1>2. ASSUME NEW s \in Slot, NEW w \in Worker, Replace(s, w)
      PROVE  Known'
  <2>1. Spawn(w, s, lease[s] + 1) /\ UNCHANGED <<slots, worker>>
    BY <1>2 DEF Replace
  <2>2. Work("main")'.slot = s /\ Work("main")'.worker = w
    <3> SUFFICES ASSUME NEW f, f = [Top("main") EXCEPT !.at = "begun", !.slots = @ \ {s},
                                                       !.slot = s, !.worker = w]
                 PROVE  Work("main")' = f /\ f.slot = s /\ f.worker = w
      OBVIOUS
    <3>1. In("main", {"tick"}, "check") /\ Go("main", f)
      BY <1>2 DEF Replace
    <3>2. Top("main") \in FrameType
      BY <3>1, InIs DEF Called, Typed
    <3>3. f.op = Top("main").op /\ f.slot = s /\ f.worker = w
      BY <3>2 DEF FrameType
    <3>4. {"tick"} \subseteq {"start", "tick", "apply", "probe"}
      OBVIOUS
    <3> QED BY <3>1, <3>3, <3>4, Walks DEF Called
  <2> QED BY <1>1, <2>1, <2>2, KnownSpawns
<1>3. CASE RecordReplacement
  <2>1. /\ Top("main") = Work("main") /\ Work("main").at = "begun"
        /\ UNCHANGED <<slots, thread>>
        /\ worker' = [worker EXCEPT ![Top("main").slot] = Top("main").worker]
    <3>1. In("main", {"tick"}, "begun")
      BY <1>3 DEF RecordReplacement
    <3> QED BY <1>3, <3>1, WorkIs DEF RecordReplacement, Called, Typed
  <2>2. Work("main")'.at # "begun"
    BY <1>3, SeesRecordReplacement DEF Steps
  <2> QED BY <1>1, <2>1, <2>2, KnownRecords
<1>4. ASSUME Work("main")'.at # "begun", UNCHANGED <<slots, worker, thread>>
      PROVE  Known'
  BY <1>1, <1>4, KnownOn
<1>5. CASE StartReturns \/ TickReturns
  <2>1. /\ \/ In("main", {"start"}, "open") \/ In("main", {"start"}, "work")
           \/ In("main", {"tick"}, "check")
        /\ Return("main") /\ UNCHANGED <<slots, worker, thread>>
    BY <1>5 DEF StartReturns, TickReturns, slot
  <2>2. Work("main")' = Idle
    BY <2>1, SeesReturns DEF Moved
  <2> QED BY <1>4, <2>1, <2>2, IdleIs
<1>6. CASE Lap
  <2>1. In("main", {"run"}, "loop") /\ UNCHANGED <<slots, worker, thread>>
    BY <1>6 DEF Lap, slot
  <2>2. CASE Raise
    <3>1. Work("main")' = Idle
      BY <2>1, <2>2, WorkRaises DEF Called, Typed, Moved
    <3> QED BY <1>4, <2>1, <3>1, IdleIs
  <2>3. CASE Call("main", Frame("tick", "enter"))
    <3>1. PICK f \in FrameType : f = Frame("tick", "enter") /\ f.op = "tick" /\ f.at = "enter"
      BY FrameIs DEF Op, At
    <3>2. Work("main")' = f
      BY <2>1, <2>3, <3>1, WorkCalls DEF Called, Typed, Moved
    <3> QED BY <1>4, <2>1, <3>1, <3>2
  <2> QED BY <1>6, <2>2, <2>3 DEF Lap
<1>7. CASE Exit
  <2>1. UNCHANGED <<slots, worker, thread>>
    BY <1>7 DEF Exit, slot
  <2>2. Work("main")' = Work("main")
    BY <1>7, ExitIs DEF Called, Typed, Moved
  <2>3. \A w \in Worker : Busy(w)' => Busy(w) /\ on'[w] = on[w]
    BY <2>1 DEF Busy, thread
  <2> QED BY <1>1, <2>1, <2>2, <2>3, KnownKeeps DEF Thread
<1>8. CASE EnterTick
  <2>1. UNCHANGED <<slots, worker, thread>>
    BY <1>8 DEF EnterTick, slot
  <2>2. Work("main")'.at # "begun"
    BY <1>8, SeesEnterTick, IdleIs DEF Moved, Steps
  <2> QED BY <1>4, <2>1, <2>2
<1>9. ASSUME NEW s \in Slot, ReplaceFails(s)
      PROVE  Known'
  <2>1. In("main", {"tick"}, "check") /\ Raise /\ UNCHANGED <<slots, worker, thread>>
    BY <1>9 DEF ReplaceFails
  <2>2. Work("main")' = Idle
    BY <2>1, WorkRaises DEF Called, Typed, Moved
  <2> QED BY <1>4, <2>1, <2>2, IdleIs
<1> QED BY <1>2, <1>3, <1>5, <1>6, <1>7, <1>8, <1>9 DEF Main

LEMMA KnownLink ==
  ASSUME Called, Panels, Known, Typed', Link
  PROVE  Known'
<1> Stacks' /\ "link" \in Thread
  BY DEF Typed, Thread
<1>1. Moves("link")
  BY LinkMoves
<1>2. Work("link")'.at # "begun"
  <2>1. CASE ApplyReturns \/ ProbeReturns
    <3>1. /\ \/ In("link", {"apply"}, "work") \/ In("link", {"probe"}, "init")
             \/ In("link", {"probe"}, "lit")
          /\ Return("link")
      BY <2>1 DEF ApplyReturns, ProbeReturns
    <3> QED BY <3>1, SeesReturns, IdleIs DEF Moved
  <2> QED BY <2>1, IdleIs, SeesEnterApply, SeesEnterProbe, SeesJoinRetired, SeesBlankRetired,
             SeesProbePaused, SeesPause, SeesPauseFails, SeesProbeLights DEF Link, Moved, Steps
<1>3. UNCHANGED thread
  BY DEF Link, EnterApply, JoinRetired, BlankRetired, ApplyReturns, EnterProbe, ProbePaused,
         ProbeReturns, Pause, PauseFails, ProbeLights
<1>4. \A s \in slots' : worker'[s] = None \/ (s \in slots /\ worker'[s] = worker[s])
  <2>1. ASSUME NEW s \in Slot, ProbeLights(s)
        PROVE  \A o \in slots' : worker'[o] = None \/ (o \in slots /\ worker'[o] = worker[o])
    <3>1. UNCHANGED slots /\ Opened("link", s)
      BY <2>1 DEF ProbeLights
    <3>2. worker'[s] = None /\ \A o \in Slot \ {s} : worker'[o] = worker[o]
      BY <3>1, OpenedIs DEF Called
    <3> QED BY <3>1, <3>2 DEF Called, Typed, Values
  <2>2. CASE JoinRetired
    <3>1. /\ slots' = Top("link").kept /\ UNCHANGED worker /\ In("link", {"apply"}, "join")
      BY <2>2 DEF JoinRetired, slot
    <3>2. Top("link") = Work("link") /\ Work("link").op = "apply" /\ Work("link").at = "join"
      BY <3>1, WorkIs DEF Called, Typed
    <3>3. Work("link").kept \subseteq slots
      BY <3>2 DEF Panels, LinkHas
    <3> QED BY <3>1, <3>2, <3>3
  <2>3. ASSUME UNCHANGED <<slots, worker>>
        PROVE  \A o \in slots' : worker'[o] = None \/ (o \in slots /\ worker'[o] = worker[o])
    BY <2>3
  <2>4. CASE EnterApply \/ BlankRetired \/ ApplyReturns \/ EnterProbe \/ ProbePaused \/ ProbeReturns
    BY <2>3, <2>4 DEF EnterApply, BlankRetired, ApplyReturns, EnterProbe, ProbePaused,
                      ProbeReturns, slot
  <2>5. ASSUME NEW s \in Slot, Pause(s) \/ PauseFails(s)
        PROVE  \A o \in slots' : worker'[o] = None \/ (o \in slots /\ worker'[o] = worker[o])
    BY <2>3, <2>5 DEF Pause, PauseFails, slot
  <2> QED BY <2>1, <2>2, <2>4, <2>5 DEF Link
<1> QED BY <1>1, <1>2, <1>3, <1>4, KnownOn

LEMMA KnownStep ==
  ASSUME Called, Panels, Known, Next
  PROVE  Known'
<1>1. Typed'
  BY TypeStep DEF Called
<1>2. ASSUME UNCHANGED <<slots, worker>>, \A w \in Worker : Busy(w)' => Busy(w) /\ on'[w] = on[w],
             \A t \in Thread : Work(t)'.at = "begun" => Work(t)' = Work(t)
      PROVE  Known'
  BY <1>2, KnownKeeps
<1>3. ASSUME NEW w \in Worker, Drawing(w)
      PROVE  Known'
  <2>1. UNCHANGED <<slots, worker>> /\ \A t \in Thread : Work(t)' = Work(t)
    BY <1>3, JobDrawing DEF slot
  <2>2. \A v \in Worker : Busy(v)' => Busy(v) /\ on'[v] = on[v]
    BY <1>3 DEF Drawing, BeginTick, Show, Shown, Leave, Busy, Called, Typed, Values
  <2> QED BY <1>2, <2>1, <2>2
<1>4. ASSUME NEW t \in Thread, Stopping(t)
      PROVE  Known'
  <2>1. UNCHANGED <<slots, worker, thread>> /\ StopMoved(t)
    BY <1>1, <1>4, JobStopping
  <2>2. \A w \in Worker : Busy(w)' => Busy(w) /\ on'[w] = on[w]
    BY <2>1 DEF Busy, thread
  <2> QED BY <1>2, <2>1, <2>2 DEF StopMoved
<1>5. CASE Calls
  <2>1. /\ UNCHANGED <<slots, worker, thread>> /\ Work("main")' = Work("main")
        /\ Work("link")' = Work("link") \/ Work("link")'.at = "enter"
    BY <1>1, <1>5, BeginIs DEF slot
  <2>2. \A w \in Worker : Busy(w)' => Busy(w) /\ on'[w] = on[w]
    BY <2>1 DEF Busy, thread
  <2> QED BY <1>2, <2>1, <2>2 DEF Thread
<1> QED BY <1>1, <1>3, <1>4, <1>5, KnownOpening, KnownMain, KnownLink DEF Next

\* Before apply() or a probe opens anything, the worker of each slot is held off
\* its panel, or its bus is not opened on.
Calm(f, s) ==
  \/ worker[s] = None
  \/ worker[s] \in held /\ ~InTick(worker[s])
  \/ BusOf(screen[s]) \in f.buses
Quiet(f) ==
  f.op \in {"apply", "probe"} /\ f.at \in {"pause", "open", "init"} =>
    /\ \A s \in slots : Calm(f, s) \/ (f.at = "pause" /\ s \in f.slots)
    /\ f.at = "init" => BusOf(f.screen) \notin f.buses

\* A step that disturbs none of these workers.
SlotsCalm ==
  /\ \A s \in slots' : \/ worker'[s] = None
                       \/ s \in slots /\ worker'[s] = worker[s] /\ screen'[s] = screen[s]
  /\ held \subseteq held' /\ \A w \in held : InTick(w)' => InTick(w)

LEMMA CalmStays ==
  ASSUME SlotsCalm, NEW s \in slots', NEW f, NEW g, s \in slots => Calm(f, s), f.buses \subseteq g.buses
  PROVE  \/ worker'[s] = None
         \/ worker'[s] \in held' /\ ~InTick(worker[s])'
         \/ BusOf(screen'[s]) \in g.buses
<1>1. CASE worker'[s] = None
  BY <1>1
<1>2. CASE s \in slots /\ worker'[s] = worker[s] /\ screen'[s] = screen[s]
  <2>1. CASE worker[s] \in held /\ ~InTick(worker[s])
    <3>1. InTick(worker[s])' => InTick(worker[s])
      <4> SUFFICES ASSUME NEW w, w = worker[s], w = worker'[s], w \in held
                   PROVE  InTick(worker[s])' => InTick(worker[s])
        BY <1>2, <2>1
      <4>1. InTick(w)' => InTick(w)
        BY DEF SlotsCalm
      <4> QED BY <4>1 DEF InTick
    <3> QED BY <1>2, <2>1, <3>1 DEF SlotsCalm
  <2> QED BY <1>2, <2>1 DEF Calm
<1> QED BY <1>1, <1>2 DEF SlotsCalm

LEMMA QuietKeeps ==
  ASSUME Quiet(Job), SlotsCalm,
         Job'.op = Job.op, Job.buses \subseteq Job'.buses,
         Job.at \in {"pause", "open", "init"}, Job'.at # "pause",
         Job.at = "pause" => Job.slots = {},
         Job'.at = "init" => BusOf(Job'.screen) \notin Job'.buses
  PROVE  Quiet(Job)'
<1> SUFFICES ASSUME Job.op \in {"apply", "probe"}, NEW s \in slots'
             PROVE  Calm(Job, s)'
  BY DEF Quiet
<1>1. s \in slots => Calm(Job, s)
  BY DEF Quiet
<1> QED BY <1>1, CalmStays DEF Calm

LEMMA QuietStays ==
  ASSUME Quiet(Job), SlotsCalm, Job' = Job
  PROVE  Quiet(Job)'
<1> SUFFICES ASSUME Job.op \in {"apply", "probe"}, Job.at \in {"pause", "open", "init"},
                    NEW s \in slots', ~(Job.at = "pause" /\ s \in Job.slots)
             PROVE  Calm(Job, s)'
  BY DEF Quiet
<1>1. s \in slots => Calm(Job, s)
  BY DEF Quiet
<1> QED BY <1>1, CalmStays DEF Calm

LEMMA QuietElsewhere ==
  ASSUME Job'.at \notin {"pause", "open", "init"} \/ Job'.op \notin {"apply", "probe"}
  PROVE  Quiet(Job)'
BY DEF Quiet

LEMMA SameCalm ==
  ASSUME UNCHANGED <<slots, worker, screen, thread>>, held \subseteq held'
  PROVE  SlotsCalm
BY DEF SlotsCalm, InTick, thread

LEMMA QuietOpening ==
  ASSUME ~EarlyPush, Called, Quiet(Job), Typed', NEW t \in Thread, Opening(t)
  PROVE  Quiet(Job)'
<1> Stacks'
  BY DEF Typed
<1>1. ASSUME NEW x, BeginOpen(t, x)
      PROVE  Quiet(Job)'
  <2>1. SlotsCalm
    BY <1>1, SameCalm DEF BeginOpen, slot
  <2>2. /\ Job' = [Job EXCEPT !.at = "init", !.screen = x, !.screens = @ \ {x}]
        /\ Job \in FrameType /\ Job.at = "open" /\ BusOf(x) \notin Job.buses
    BY <1>1, JobBeginOpen
  <2>3. /\ Job'.op = Job.op /\ Job'.buses = Job.buses /\ Job'.at = "init" /\ Job'.screen = x
    BY <2>2 DEF FrameType
  <2> QED BY <2>1, <2>2, <2>3, QuietKeeps
<1>2. ASSUME NEW x, SkipOpen(t, x)
      PROVE  Quiet(Job)'
  <2>1. SlotsCalm
    BY <1>2, SameCalm DEF SkipOpen, slot
  <2>2. Job' = [Job EXCEPT !.screens = @ \ {x}] /\ Job \in FrameType /\ Job.at = "open"
    BY <1>2, JobSkipOpen
  <2>3. Job'.op = Job.op /\ Job'.buses = Job.buses /\ Job'.at = "open"
    BY <2>2 DEF FrameType
  <2> QED BY <2>1, <2>2, <2>3, QuietKeeps
<1>3. CASE OpenFails(t)
  <2>1. SlotsCalm
    BY <1>3, SameCalm DEF OpenFails, slot
  <2>2. Job' = [Job EXCEPT !.at = "open", !.screen = None] /\ Job \in FrameType /\ Job.at = "init"
    BY <1>3, JobOpenFails
  <2>3. Job'.op = Job.op /\ Job'.buses = Job.buses /\ Job'.at = "open"
    BY <2>2 DEF FrameType
  <2> QED BY <2>1, <2>2, <2>3, QuietKeeps
<1>4. ASSUME NEW s \in Slot, OpenPanel(t, s)
      PROVE  Quiet(Job)'
  <2>1. SlotsCalm
    <3>1. UNCHANGED <<thread, held>> /\ slots' = slots \cup {s} /\ Opened(t, s)
      BY <1>4 DEF OpenPanel
    <3>2. /\ worker'[s] = None
          /\ \A o \in Slot \ {s} : worker'[o] = worker[o] /\ screen'[o] = screen[o]
      BY <3>1, OpenedIs DEF Called
    <3>3. \A o \in slots' : \/ worker'[o] = None
                            \/ o \in slots /\ worker'[o] = worker[o] /\ screen'[o] = screen[o]
      BY <3>1, <3>2 DEF Called, Typed, Values
    <3> QED BY <3>1, <3>3 DEF SlotsCalm, InTick, thread
  <2>2. Job' = [Job EXCEPT !.at = "open", !.screen = None] /\ Job \in FrameType /\ Job.at = "init"
    BY <1>4, JobOpenPanel
  <2>3. Job'.op = Job.op /\ Job'.buses = Job.buses /\ Job'.at = "open"
    BY <2>2 DEF FrameType
  <2> QED BY <2>1, <2>2, <2>3, QuietKeeps
<1>5. CASE OpensDone(t)
  <2>1. Job' = [Job EXCEPT !.at = "work", !.slots = slots] /\ Job \in FrameType
    BY <1>5, JobOpensDone
  <2>2. Job'.at = "work"
    BY <2>1 DEF FrameType
  <2> QED BY <2>2, QuietElsewhere
<1>6. ASSUME NEW s \in Slot, StartFails(t, s)
      PROVE  Quiet(Job)'
  <2>1. Job' = [Job EXCEPT !.at = "failed", !.slots = @ \ {s}, !.slot = s] /\ Job \in FrameType
    BY <1>6, JobStartFails
  <2>2. Job'.at = "failed"
    BY <2>1 DEF FrameType
  <2> QED BY <2>2, QuietElsewhere
<1>7. ASSUME NEW s \in Slot, NEW w \in Worker, StartWorker(t, s, w)
      PROVE  Quiet(Job)'
  <2>1. /\ Job' = [Job EXCEPT !.at = "begun", !.slots = @ \ {s}, !.slot = s, !.worker = w]
        /\ Job \in FrameType
    BY <1>7, JobStartWorker
  <2>2. Job'.at = "begun"
    BY <2>1 DEF FrameType
  <2> QED BY <2>2, QuietElsewhere
<1>8. CASE RecordWorker(t)
  <2>1. Job' = [Job EXCEPT !.at = "work", !.slot = None, !.worker = None] /\ Job \in FrameType
    BY <1>8, JobRecordWorker
  <2>2. Job'.at = "work"
    BY <2>1 DEF FrameType
  <2> QED BY <2>2, QuietElsewhere
<1>9. CASE DropSlot(t)
  <2>1. Job' = Idle \/ (Job \in FrameType /\ Job' = [Job EXCEPT !.at = "work", !.slot = None])
    BY <1>9, JobDropSlot
  <2>2. Job'.at \in {"loop", "work"}
    BY <2>1, IdleIs DEF FrameType
  <2> QED BY <2>2, QuietElsewhere
<1> QED BY <1>1, <1>2, <1>3, <1>4, <1>5, <1>6, <1>7, <1>8, <1>9 DEF Opening

\* No watchdog replaces a worker while the link has the lock.
LEMMA QuietMain ==
  ASSUME ~EarlyPush, Called, Quiet(Job), Typed', Main
  PROVE  Quiet(Job)'
<1>1. CASE StartReturns
  <2>1. Job' = Idle
    BY <1>1, JobMain
  <2> QED BY <2>1, IdleIs, QuietElsewhere
<1>2. CASE ~StartReturns /\ RecordReplacement
  <2>1. In("main", {"tick"}, "begun") /\ "main" \in Thread
    BY <1>2 DEF RecordReplacement, Thread
  <2>2. Work("main").op = "tick" /\ Work("main").at = "begun"
    BY <2>1, WorkIs DEF Called, Typed
  <2>3. ~Locked(Work("link")) /\ Job = Work("link")
    BY <2>2 DEF Called, Locks, Held, Locked, Job
  <2>4. Job' = Job
    BY <1>2, JobMain
  <2> QED BY <2>3, <2>4, QuietElsewhere DEF Locked
<1>3. CASE ~StartReturns /\ ~RecordReplacement
  <2>1. Job' = Job /\ UNCHANGED <<slots, worker, screen, held>>
    BY <1>3, JobMain, MainKeeps
  <2>2. \A w \in Worker : InTick(w)' => InTick(w)
    <3>1. CASE UNCHANGED doing
      BY <3>1 DEF InTick
    <3>2. ASSUME NEW s \in Slot, NEW w \in Worker, Replace(s, w)
          PROVE  \A v \in Worker : InTick(v)' => InTick(v)
      <4>1. doing' = [doing EXCEPT ![w] = "parked"]
        BY <3>2 DEF Replace, Spawn
      <4> QED BY <4>1 DEF InTick, Called, Typed, Values
    <3> QED BY <1>3, <3>1, <3>2 DEF Main, Lap, Exit, EnterTick, TickReturns, ReplaceFails, thread
  <2>3. SlotsCalm
    BY <2>1, <2>2 DEF SlotsCalm, Called, Typed, Values
  <2> QED BY <2>1, <2>3, QuietStays
<1> QED BY <1>1, <1>2, <1>3

LEMMA QuietLink ==
  ASSUME ~EarlyPush, Called, Quiet(Job), Typed', Link
  PROVE  Quiet(Job)'
<1> Stacks'
  BY DEF Typed
<1>1. CASE EnterApply
  <2>1. Job' = Idle \/ Job'.at = "join"
    BY <1>1, JobEnterApply
  <2> QED BY <2>1, IdleIs, QuietElsewhere
<1>2. CASE JoinRetired
  <2>1. /\ Job' = [Job EXCEPT !.at = "pause", !.slots = HasWorker(Job.kept)] /\ Job \in FrameType
        /\ slots' = Job.kept /\ UNCHANGED worker
    BY <1>2, JobJoinRetired DEF JoinRetired, slot
  <2>2. Job'.at = "pause" /\ Job'.slots = HasWorker(slots')
    BY <2>1 DEF FrameType
  <2> QED BY <2>1, <2>2 DEF Quiet, Calm, HasWorker
<1>3. CASE BlankRetired
  <2>1. SlotsCalm
    BY <1>3, SameCalm DEF BlankRetired
  <2>2. /\ Job' = [Job EXCEPT !.at = "open", !.retired = {}] /\ Job \in FrameType
        /\ Job.at = "pause" /\ Job.slots = {}
    BY <1>3, JobBlankRetired
  <2>3. Job'.op = Job.op /\ Job'.buses = Job.buses /\ Job'.at = "open"
    BY <2>2 DEF FrameType
  <2> QED BY <2>1, <2>2, <2>3, QuietKeeps
<1>4. CASE ApplyReturns \/ ProbeReturns
  BY <1>4, JobApplyReturns, JobProbeReturns, IdleIs, QuietElsewhere
<1>5. CASE EnterProbe
  <2>1. CASE Job' = Idle
    BY <2>1, IdleIs, QuietElsewhere
  <2>2. CASE Job' # Idle
    <3>1. /\ Job' = [Job EXCEPT !.at = "pause", !.slots = HasWorker(slots)] /\ Job \in FrameType
          /\ UNCHANGED <<slots, worker>>
      BY <1>5, <2>2, JobEnterProbe DEF EnterProbe, slot
    <3>2. Job'.at = "pause" /\ Job'.slots = HasWorker(slots)
      BY <3>1 DEF FrameType
    <3> QED BY <3>1, <3>2 DEF Quiet, Calm, HasWorker
  <2> QED BY <2>1, <2>2
<1>6. CASE ProbePaused
  <2>1. CASE Job' = Idle
    BY <2>1, IdleIs, QuietElsewhere
  <2>2. CASE Job' = [Job EXCEPT !.at = "open"] /\ UNCHANGED held
    <3>1. SlotsCalm
      BY <1>6, <2>2, SameCalm DEF ProbePaused, slot
    <3>2. Job \in FrameType /\ Job.at = "pause" /\ Job.slots = {}
      BY <1>6, JobProbePaused
    <3>3. Job'.op = Job.op /\ Job'.buses = Job.buses /\ Job'.at = "open"
      BY <2>2, <3>2 DEF FrameType
    <3> QED BY <3>1, <3>2, <3>3, QuietKeeps
  <2> QED BY <1>6, <2>1, <2>2, JobProbePaused
<1>7. ASSUME NEW s \in Slot, Pause(s) \/ PauseFails(s)
      PROVE  Quiet(Job)'
  <2>1. /\ UNCHANGED <<slots, worker, screen, thread>> /\ Job \in FrameType /\ Job.at = "pause"
        /\ Job.op \in {"apply", "probe"}
    BY <1>7, JobPause DEF Pause, PauseFails, slot
  <2>2. \A w \in Worker : InTick(w)' <=> InTick(w)
    BY <2>1 DEF InTick, thread
  <2>3. /\ Job'.op = Job.op /\ Job'.at = "pause" /\ Job'.slots = Job.slots \ {s}
        /\ Job.buses \subseteq Job'.buses /\ held \subseteq held'
        /\ \/ held' = held \cup {worker[s]} /\ ~InTick(worker[s])
           \/ BusOf(screen[s]) \in Job'.buses
    <3>1. CASE /\ Job' = [Job EXCEPT !.slots = @ \ {s}]
               /\ held' = held \cup {worker[s]} /\ ~InTick(worker[s])
      BY <2>1, <3>1 DEF FrameType
    <3>2. CASE /\ Job' = [Job EXCEPT !.slots = @ \ {s}, !.buses = @ \cup {BusOf(screen[s])}]
               /\ UNCHANGED held
      BY <2>1, <3>2 DEF FrameType
    <3> QED BY <1>7, <3>1, <3>2, JobPause
  <2>4. SlotsCalm
    BY <2>1, <2>3, SameCalm
  <2>5. ASSUME NEW o \in slots', o \notin Job'.slots
        PROVE  Calm(Job, o)'
    <3>1. CASE o = s
      <4>1. /\ worker'[s] = worker[s] /\ screen'[s] = screen[s]
            /\ InTick(worker[s])' <=> InTick(worker[s])
        BY <2>1 DEF InTick, thread
      <4>2. CASE held' = held \cup {worker[s]} /\ ~InTick(worker[s])
        BY <3>1, <4>1, <4>2 DEF Calm
      <4>3. CASE BusOf(screen[s]) \in Job'.buses
        BY <3>1, <4>1, <4>3 DEF Calm
      <4> QED BY <2>3, <4>2, <4>3
    <3>2. CASE o # s
      <4>1. Calm(Job, o)
        BY <2>1, <2>3, <2>5, <3>2 DEF Quiet
      <4> QED BY <2>3, <2>4, <2>5, <4>1, CalmStays DEF Calm
    <3> QED BY <3>1, <3>2
  <2> QED BY <2>3, <2>5 DEF Quiet
<1>8. ASSUME NEW s \in Slot, ProbeLights(s)
      PROVE  Quiet(Job)'
  <2>1. Job' = [Job EXCEPT !.at = "lit", !.slot = s] /\ Job \in FrameType
    BY <1>8, JobProbeLights
  <2>2. Job'.at = "lit"
    BY <2>1 DEF FrameType
  <2> QED BY <2>2, QuietElsewhere
<1> QED BY <1>1, <1>2, <1>3, <1>4, <1>5, <1>6, <1>7, <1>8 DEF Link

LEMMA QuietStep ==
  ASSUME ~EarlyPush, Called, Quiet(Job), Next
  PROVE  Quiet(Job)'
<1>1. Typed'
  BY TypeStep DEF Called
<1>2. ASSUME NEW w \in Worker, Drawing(w)
      PROVE  Quiet(Job)'
  <2>1. Job' = Job /\ UNCHANGED <<slots, worker, screen, held>>
    BY <1>2, JobDrawing DEF slot
  <2>2. \A v \in held : InTick(v)' => InTick(v)
    BY <1>2 DEF Drawing, BeginTick, Show, Shown, Leave, InTick, Called, Typed, Values
  <2> QED BY <2>1, <2>2, QuietStays DEF SlotsCalm
<1>3. ASSUME NEW t \in Thread, Stopping(t)
      PROVE  Quiet(Job)'
  BY <1>1, <1>3, JobStopping, SameCalm, QuietStays
<1>4. CASE Calls
  <2>1. UNCHANGED <<slots, worker, screen, thread, held>>
    BY <1>1, <1>4, JobCalls DEF slot
  <2> QED BY <1>1, <1>4, <2>1, JobCalls, SameCalm, QuietStays, QuietElsewhere
<1> QED BY <1>1, <1>2, <1>3, <1>4, QuietOpening, QuietMain, QuietLink DEF Next

\* What is being opened is what that call has in hand.
LEMMA OpensIs ==
  ASSUME ~EarlyPush, Called, NEW t \in Thread, NEW x \in Opens(t)
  PROVE  Job.at = "init" /\ x = Job.screen
<1>1. Depth("main") \in Nat /\ Depth("link") \in Nat
  BY StackIs DEF Called, Typed, Thread
<1>2. ASSUME NEW i \in DOMAIN stack[t], stack[t][i].at = "init"
      PROVE  stack[t][i] = Work(t)
  <2>1. PICK k \in Levels(t) : stack[t][i] = Fr(t, k)
    <3>1. stack[t] \in Seq(FrameType) /\ i \in 1..Depth(t)
      BY DEF Called, Typed, Stacks, Depth
    <3>2. Depth(t) \in Nat
      BY <1>1 DEF Thread
    <3>3. Depth(t) + 1 - i \in Levels(t) /\ Depth(t) + 1 - (Depth(t) + 1 - i) = i
      BY <3>1, <3>2 DEF Levels
    <3> QED BY <3>3 DEF Fr
  <2>2. Fr(t, k).op \in {"start", "apply", "probe"}
    BY <1>2, <2>1 DEF Called, Typed, FramesOK, FrameOK, Placed
  <2>3. CASE t = "main"
    <3>1. k = 2 /\ Depth("main") >= 2
      BY <1>1, <2>2, <2>3 DEF Called, MainShape, Levels
    <3> QED BY <2>1, <2>2, <2>3, <3>1 DEF Work, MainCall
  <2>4. CASE t = "link"
    <3>1. k = 1 /\ Depth("link") >= 1
      BY <1>1, <2>4 DEF Called, LinkShape, Levels
    <3> QED BY <2>1, <2>2, <2>4, <3>1 DEF Work, LinkCall
  <2> QED BY <2>3, <2>4 DEF Thread
<1>3. PICK i \in DOMAIN stack[t] : stack[t][i].at = "init"
  BY DEF Opens
<1>4. x = Work(t).screen /\ Work(t).at = "init"
  <2>1. \A f \in {stack[t][j] : j \in DOMAIN stack[t]} : f.at = "init" => f = Work(t)
    BY <1>2
  <2>2. stack[t][i] \in {stack[t][j] : j \in DOMAIN stack[t]} /\ stack[t][i] = Work(t) /\ Work(t).at = "init"
    BY <1>2, <1>3
  <2>3. (CHOOSE f \in {stack[t][j] : j \in DOMAIN stack[t]} : f.at = "init") = Work(t)
    BY <2>1, <2>2
  <2>4. x \in {(CHOOSE f \in {stack[t][j] : j \in DOMAIN stack[t]} : f.at = "init").screen}
    BY <1>3 DEF Opens
  <2> QED BY <2>2, <2>3, <2>4
<1>5. Work(t).op \in {"start", "apply", "probe"}
  BY <1>4, WorkOld DEF Called, FrameOK, Placed
<1> QED BY <1>4, <1>5, JobIs

LEMMA GuardedIs ==
  ASSUME ~EarlyPush, Called, StartOK, Known, Quiet(Job)
  PROVE  OpenGuarded
<1> SUFFICES ASSUME NEW t \in Thread, NEW x \in Opens(t), NEW s \in slots, worker[s] # None,
                    WritingOn(worker[s], x)
             PROVE  FALSE
  BY DEF OpenGuarded
<1>1. Job.at = "init" /\ x = Job.screen /\ s \in Slot
  BY OpensIs DEF Called, Typed, Values
<1>2. Job.op \in {"start", "apply", "probe"}
  BY <1>1, JobOK DEF FrameOK, Placed
<1>3. on[worker[s]] = s
  BY DEF Known, Draws, Busy, WritingOn
<1>4. BusOf(screen[s]) = BusOf(x) /\ InTick(worker[s])
  BY <1>3 DEF WritingOn, InTick
<1>5. CASE Job.op = "start"
  BY <1>1, <1>5, OpsAre DEF StartOK, Job
<1>6. CASE Job.op \in {"apply", "probe"}
  BY <1>1, <1>4, <1>6 DEF Quiet, Calm
<1> QED BY <1>2, <1>5, <1>6

\* No worker that a slot knows of writes on the bus of a device while that is
\* being reset and initialised, by start(), apply() or a probe, whichever of them
\* stay inside a tick, and whatever the watchdog and a signal do meanwhile.
THEOREM OpenGuardedHolds ==
  ASSUME ~EarlyPush
  PROVE  Spec => []OpenGuarded
<1> DEFINE I == Called /\ Panels /\ Drawers /\ Known /\ Quiet(Job)
<1>1. Init => I
  <2> SUFFICES ASSUME Init
               PROVE  I
    OBVIOUS
  <2>1. Called /\ Panels /\ slots = {} /\ Work("main").at = "open" /\ Work("link") = Idle
    BY InitIs
  <2>2. \A w \in Worker : ~Busy(w) /\ on[w] = None
    BY DEF Init, Busy
  <2>3. Drawers
    BY <2>1, <2>2 DEF Drawers, StartOK, WorkerOK
  <2>4. Known /\ Quiet(Job)
    BY <2>1, IdleIs DEF Known, Quiet, Job, Thread
  <2> QED BY <2>1, <2>3, <2>4
<1>2. I /\ [Next]_vars => I'
  <2>1. ASSUME I, Next
        PROVE  I'
    BY <2>1, CalledStep, PanelsStep, DrawersStep, KnownStep, QuietStep
  <2>2. ASSUME I, UNCHANGED vars
        PROVE  I'
    <3>1. UNCHANGED <<worker, lease, thread, slots, live, screen, held, stopped, shut, closes>>
      BY <2>2 DEF vars, slot
    <3>2. \A t \in Thread : Work(t)' = Work(t)
      BY <2>2, AllUntouched DEF Moved, Moves, vars
    <3>3. Called' /\ Panels' /\ Drawers'
      BY <2>2, <3>1, <3>2, VarsStay, DrawersStay, PanelsMove DEF Thread
    <3>4. \A w \in Worker : Busy(w)' => Busy(w) /\ on'[w] = on[w]
      BY <3>1 DEF Busy, thread
    <3>5. Known'
      BY <2>2, <3>1, <3>2, <3>4, KnownKeeps
    <3>6. Quiet(Job)'
      BY <2>2, <3>1, <3>2, JobStays, SameCalm, QuietStays
    <3> QED BY <3>3, <3>5, <3>6
  <2> QED BY <2>1, <2>2
<1>3. I => OpenGuarded
  BY GuardedIs DEF Drawers
<1> QED BY <1>1, <1>2, <1>3, PTL DEF Spec

-----------------------------------------------------------------------------
(* One panel on a device.                                                  *)

Apart(C) == \A x, y \in C : x.device = y.device => x = y

\* A call that opens the panels of a configuration, the screens it has still to
\* open, and the slots that go on when it is done.
Brings(f) == f.op \in {"start", "apply"} /\ f.at # "enter"
Ahead(f) == IF Brings(f) THEN f.screens \cup (IF f.at = "init" THEN {f.screen} ELSE {}) ELSE {}
Onward(f) == IF f.op = "apply" /\ f.at = "join" THEN f.kept ELSE slots

\* The slots that go on show screens of the configuration, of the push that
\* brought it, and none that is still to be opened; what a probe opens is on
\* none of its devices.
Placings(f) ==
  /\ Apart(config.screens)
  /\ \A s \in Onward(f) : screen[s] \in config.screens /\ screen[s] \notin Ahead(f)
  /\ Ahead(f) \subseteq config.screens
  /\ Brings(f) /\ f.at = "init" => f.screen \notin f.screens
  /\ f.op = "apply" /\ f.at = "enter" => Apart(f.screens)
  /\ f.op = "apply" /\ f.at # "enter" => \A s \in Onward(f) : issue[s] = config.issue
  /\ f.op = "probe" /\ f.at \in {"pause", "open"} =>
        \A x \in f.screens, y \in config.screens : x.device # y.device

LEMMA PlacingsKeeps ==
  ASSUME Placings(Job), UNCHANGED config,
         \A s \in Onward(Job)' : s \in Onward(Job) /\ screen'[s] = screen[s] /\ issue'[s] = issue[s],
         Ahead(Job)' \subseteq Ahead(Job),
         Brings(Job)' /\ Job'.at = "init" => Job'.screen \notin Job'.screens,
         Job'.op = "apply" => Job.op = "apply" /\ Job.at # "enter" /\ Job'.at # "enter",
         Job'.op = "probe" /\ Job'.at \in {"pause", "open"} =>
            \A x \in Job'.screens, y \in config.screens : x.device # y.device
  PROVE  Placings(Job)'
<1>1. Apart(config.screens)' /\ Ahead(Job)' \subseteq config'.screens
  BY DEF Placings, Apart
<1>2. \A s \in Onward(Job)' : screen'[s] \in config'.screens /\ screen'[s] \notin Ahead(Job)'
  BY DEF Placings
<1>3. Job'.op = "apply" => \A s \in Onward(Job)' : issue'[s] = config'.issue
  BY DEF Placings
<1> HIDE DEF Ahead, Onward, Brings
<1> QED BY <1>1, <1>2, <1>3 DEF Placings

\* The call stays where it is, or is over.
LEMMA PlacingsStay ==
  ASSUME Placings(Job), UNCHANGED <<config, slots>>, Job' = Job \/ Job' = Idle,
         \A s \in Slot : s \in slots => screen'[s] = screen[s] /\ issue'[s] = issue[s],
         slots \subseteq Slot, Job.op = "apply" /\ Job.at = "join" => Job.kept \subseteq slots,
         Job' = Idle => ~(Job.op = "apply" /\ Job.at = "join")
  PROVE  Placings(Job)'
<1>1. CASE Job' = Idle
  <2>1. Onward(Job)' = slots /\ Onward(Job) = slots /\ Ahead(Job)' = {}
    BY <1>1, IdleIs DEF Onward, Ahead, Brings
  <2>2. Job'.op = "run" /\ ~Brings(Job)'
    BY <1>1, IdleIs DEF Brings
  <2> QED BY <2>1, <2>2, PlacingsKeeps
<1>2. CASE Job' = Job
  <2>1. /\ Onward(Job)' = Onward(Job) /\ Ahead(Job)' = Ahead(Job) /\ Onward(Job) \subseteq slots
    BY <1>2 DEF Onward, Ahead, Brings
  <2>2. Apart(Job.screens)' <=> Apart(Job.screens)
    BY <1>2 DEF Apart
  <2>3. Apart(config.screens)'
    BY DEF Placings, Apart
  <2>4. Brings(Job)' <=> Brings(Job)
    BY <1>2 DEF Brings
  <2> HIDE DEF Onward, Ahead, Brings
  <2> QED BY <1>2, <2>1, <2>2, <2>3, <2>4 DEF Placings
<1> QED BY <1>1, <1>2

LEMMA SlotsStay ==
  ASSUME UNCHANGED <<config, slots, screen, issue>>
  PROVE  \A s \in slots' : s \in slots /\ screen'[s] = screen[s] /\ issue'[s] = issue[s]
OBVIOUS

LEMMA PlacingsOpening ==
  ASSUME ~EarlyPush, Called, Placings(Job), Typed', NEW t \in Thread, Opening(t)
  PROVE  Placings(Job)'
<1> Stacks'
  BY DEF Typed
<1>1. ASSUME UNCHANGED config,
             \A s \in slots' : s \in slots /\ screen'[s] = screen[s] /\ issue'[s] = issue[s],
             Job'.op = Job.op, Job.at \notin {"enter", "join"}, Job'.at \notin {"enter", "join"},
             Job.op = "probe" => Job'.at = "init", Job'.screens \subseteq Job.screens,
             Job'.at = "init" => Job'.screen \in Job.screens \ Job'.screens
      PROVE  Placings(Job)'
  <2>1. Onward(Job)' = slots' /\ Onward(Job) = slots
    BY <1>1 DEF Onward
  <2>2. Ahead(Job)' \subseteq Ahead(Job)
    BY <1>1 DEF Ahead, Brings
  <2> QED BY <1>1, <2>1, <2>2, PlacingsKeeps
<1>2. ASSUME NEW x, BeginOpen(t, x)
      PROVE  Placings(Job)'
  <2>1. /\ Job' = [Job EXCEPT !.at = "init", !.screen = x, !.screens = @ \ {x}]
        /\ Job \in FrameType /\ Job.at = "open" /\ x \in Job.screens
    BY <1>2, JobBeginOpen
  <2>2. /\ Job'.op = Job.op /\ Job'.at = "init" /\ Job'.screen = x
        /\ Job'.screens = Job.screens \ {x}
    BY <2>1 DEF FrameType
  <2> QED BY <1>1, <1>2, <2>1, <2>2, SlotsStay DEF BeginOpen, slot
<1>3. ASSUME NEW x, SkipOpen(t, x)
      PROVE  Placings(Job)'
  <2>1. /\ Job' = [Job EXCEPT !.screens = @ \ {x}]
        /\ Job \in FrameType /\ Job.op = "apply" /\ Job.at = "open"
    BY <1>3, JobSkipOpen
  <2>2. Job'.op = Job.op /\ Job'.at = "open" /\ Job'.screens = Job.screens \ {x}
    BY <2>1 DEF FrameType
  <2> QED BY <1>1, <1>3, <2>1, <2>2, SlotsStay DEF SkipOpen, slot
<1>4. CASE OpenFails(t)
  <2>1. /\ Job' = [Job EXCEPT !.at = "open", !.screen = None]
        /\ Job \in FrameType /\ Job.op \in {"start", "apply"} /\ Job.at = "init"
    BY <1>4, JobOpenFails
  <2>2. Job'.op = Job.op /\ Job'.at = "open" /\ Job'.screens = Job.screens
    BY <2>1 DEF FrameType
  <2> QED BY <1>1, <1>4, <2>1, <2>2, SlotsStay DEF OpenFails, slot
<1>5. ASSUME NEW s \in Slot, OpenPanel(t, s)
      PROVE  Placings(Job)'
  <2>1. /\ Job' = [Job EXCEPT !.at = "open", !.screen = None] /\ Top(t) = Job
        /\ Job \in FrameType /\ Job.op \in {"start", "apply"} /\ Job.at = "init"
    BY <1>5, JobOpenPanel
  <2>2. Job'.op = Job.op /\ Job'.at = "open" /\ Job'.screens = Job.screens
    BY <2>1 DEF FrameType
  <2>3. UNCHANGED config /\ slots' = slots \cup {s} /\ Opened(t, s)
    BY <1>5 DEF OpenPanel
  <2>4. /\ screen'[s] = Job.screen /\ issue'[s] = (IF Job.op = "start" THEN 0 ELSE config.issue)
        /\ \A o \in Slot \ {s} : screen'[o] = screen[o] /\ issue'[o] = issue[o]
        /\ Vacant(s)
    BY <2>1, <2>3, OpenedIs DEF Called
  <2>5. Onward(Job) = slots /\ Onward(Job)' = slots'
    BY <2>1, <2>2 DEF Onward
  <2>6. Ahead(Job)' = Job.screens /\ Ahead(Job) = Job.screens \cup {Job.screen} /\ Brings(Job)
    BY <2>1, <2>2 DEF Ahead, Brings
  <2>7. ASSUME NEW o \in slots'
        PROVE  /\ screen'[o] \in config.screens /\ screen'[o] \notin Job.screens
               /\ Job.op = "apply" => issue'[o] = config.issue
    <3>1. CASE o = s
      BY <2>1, <2>4, <2>6, <3>1 DEF Placings
    <3>2. CASE o # s
      <4>1. o \in slots /\ screen'[o] = screen[o] /\ issue'[o] = issue[o]
        BY <2>3, <2>4, <3>2 DEF Called, Typed, Values
      <4> QED BY <2>1, <2>5, <2>6, <4>1 DEF Placings
    <3> QED BY <3>1, <3>2
  <2>8. Apart(config.screens)' /\ Job.screens \subseteq config.screens
    BY <2>3, <2>6 DEF Placings, Apart
  <2> QED BY <2>1, <2>2, <2>3, <2>5, <2>6, <2>7, <2>8 DEF Placings
<1>6. CASE OpensDone(t)
  <2>1. /\ Job' = [Job EXCEPT !.at = "work", !.slots = slots]
        /\ Job \in FrameType /\ Job.op \in {"start", "apply"} /\ Job.at = "open"
    BY <1>6, JobOpensDone
  <2>2. Job'.op = Job.op /\ Job'.at = "work" /\ Job'.screens = Job.screens
    BY <2>1 DEF FrameType
  <2> QED BY <1>1, <1>6, <2>1, <2>2, SlotsStay DEF OpensDone, slot
<1>7. ASSUME NEW s \in Slot, NEW w \in Worker, StartWorker(t, s, w)
      PROVE  Placings(Job)'
  <2>1. /\ Job' = [Job EXCEPT !.at = "begun", !.slots = @ \ {s}, !.slot = s, !.worker = w]
        /\ Job \in FrameType /\ Job.op \in {"start", "apply"} /\ Job.at = "work"
    BY <1>7, JobStartWorker
  <2>2. Job'.op = Job.op /\ Job'.at = "begun" /\ Job'.screens = Job.screens
    BY <2>1 DEF FrameType
  <2> QED BY <1>1, <1>7, <2>1, <2>2, SlotsStay DEF StartWorker, slot
<1>8. ASSUME NEW s \in Slot, StartFails(t, s)
      PROVE  Placings(Job)'
  <2>1. /\ Job' = [Job EXCEPT !.at = "failed", !.slots = @ \ {s}, !.slot = s]
        /\ Job \in FrameType /\ Job.op \in {"start", "apply"} /\ Job.at = "work"
    BY <1>8, JobStartFails
  <2>2. Job'.op = Job.op /\ Job'.at = "failed" /\ Job'.screens = Job.screens
    BY <2>1 DEF FrameType
  <2> QED BY <1>1, <1>8, <2>1, <2>2, SlotsStay DEF StartFails, slot
<1>9. CASE RecordWorker(t)
  <2>1. /\ Job' = [Job EXCEPT !.at = "work", !.slot = None, !.worker = None]
        /\ Job \in FrameType /\ Job.op \in {"start", "apply"} /\ Job.at = "begun"
    BY <1>9, JobRecordWorker
  <2>2. Job'.op = Job.op /\ Job'.at = "work" /\ Job'.screens = Job.screens
    BY <2>1 DEF FrameType
  <2>3. UNCHANGED <<config, slots, screen, issue>>
    BY <1>9 DEF RecordWorker
  <2> QED BY <1>1, <2>1, <2>2, <2>3, SlotsStay
<1>10. CASE DropSlot(t)
  <2>1. UNCHANGED <<config, screen, issue>> /\ slots' \subseteq slots
    BY <1>10 DEF DropSlot
  <2>2. Job \in FrameType /\ Job.at = "failed"
    BY <1>10, JobDropSlot
  <2>3. CASE Job' = Idle
    <3>1. Onward(Job)' = slots' /\ Onward(Job) = slots /\ Ahead(Job)' = {} /\ ~Brings(Job)'
      BY <2>2, <2>3, IdleIs DEF Onward, Ahead, Brings
    <3> QED BY <2>1, <2>3, <3>1, IdleIs, PlacingsKeeps
  <2>4. CASE Job.op = "apply" /\ Job' = [Job EXCEPT !.at = "work", !.slot = None]
    <3>1. Job'.op = Job.op /\ Job'.at = "work" /\ Job'.screens = Job.screens
      BY <2>2, <2>4 DEF FrameType
    <3> QED BY <1>1, <2>1, <2>2, <2>4, <3>1
  <2> QED BY <1>10, <2>3, <2>4, JobDropSlot
<1> QED BY <1>2, <1>3, <1>4, <1>5, <1>6, <1>7, <1>8, <1>9, <1>10 DEF Opening

LEMMA PlacingsMain ==
  ASSUME ~EarlyPush, Called, Panels, Placings(Job), Typed', Main
  PROVE  Placings(Job)'
<1>1. UNCHANGED <<config, slots, screen, issue>>
  BY MainKeeps
<1>2. Job.op = "apply" => Job = Work("link")
  BY OpsAre DEF Job
<1>3. Job.op = "apply" /\ Job.at = "join" => Job.kept \subseteq slots
  BY <1>2 DEF Panels, LinkHas
<1>4. Job' = Job \/ (Job' = Idle /\ Job.op = "start")
  BY JobMain
<1>5. slots \subseteq Slot
  BY DEF Called, Typed, Values
<1> QED BY <1>1, <1>3, <1>4, <1>5, IdleIs, PlacingsStay

LEMMA PlacingsLink ==
  ASSUME ~EarlyPush, Called, Panels, Placings(Job), Typed', Link
  PROVE  Placings(Job)'
<1> Stacks'
  BY DEF Typed
<1>1. ASSUME UNCHANGED config,
             \A s \in Onward(Job)' : s \in Onward(Job) /\ screen'[s] = screen[s] /\ issue'[s] = issue[s],
             Job'.op = Job.op, Job'.screens = Job.screens, Job.at \notin {"enter", "init"},
             Job'.at \notin {"enter", "init"},
             Job.op = "probe" => Job'.at = "lit" \/ Job.at = "pause"
      PROVE  Placings(Job)'
  <2>1. Ahead(Job)' \subseteq Ahead(Job)
    BY <1>1 DEF Ahead, Brings
  <2>2. Job'.op = "probe" /\ Job'.at \in {"pause", "open"} =>
          \A x \in Job'.screens, y \in config.screens : x.device # y.device
    BY <1>1 DEF Placings
  <2> QED BY <1>1, <2>1, <2>2, PlacingsKeeps
<1>2. ASSUME Job' = Idle, UNCHANGED <<config, slots, screen, issue>>,
             ~(Job.op = "apply" /\ Job.at = "join")
      PROVE  Placings(Job)'
  <2>1. slots \subseteq Slot
    BY DEF Called, Typed, Values
  <2> QED BY <1>2, <2>1, PlacingsStay
<1>3. CASE EnterApply
  <2>1. /\ Job \in FrameType /\ Job.op = "apply" /\ Job.at = "enter" /\ UNCHANGED <<slots, screen>>
    BY <1>3, JobEnterApply DEF EnterApply
  <2>2. CASE stopped
    <3>1. Job' = Idle /\ UNCHANGED <<config, issue>>
      BY <1>3, <2>2, JobEnterApply
    <3> QED BY <1>2, <2>1, <3>1
  <2>3. CASE ~stopped
    <3> DEFINE K == Keeps(Job.screens)
    <3>1. config'.screens = Job.screens /\ config'.issue = pushes
      BY <1>3, <2>3, JobEnterApply
    <3>2. Apart(config.screens)'
      BY <2>1, <3>1 DEF Placings, Apart
    <3>3. \A s \in K : s \in slots /\ s \in Slot /\ screen[s] \in Job.screens
      BY DEF Keeps, Called, Typed, Values
    <3>4. CASE Job' = Idle /\ slots = K
      <4>1. Onward(Job)' = slots /\ Ahead(Job)' = {} /\ ~Brings(Job)' /\ Job'.op = "run"
        BY <2>1, <3>4, IdleIs DEF Onward, Ahead, Brings
      <4>2. \A s \in slots : screen'[s] \in Job.screens
        BY <2>1, <3>3, <3>4
      <4> HIDE DEF Onward, Ahead, Brings, K
      <4> QED BY <3>1, <3>2, <4>1, <4>2 DEF Placings
    <3>5. CASE /\ Job'.op = "apply" /\ Job'.at = "join" /\ Job'.kept = K
               /\ Job'.screens = Job.screens \ {screen[s] : s \in K}
               /\ issue' = [s \in Slot |-> IF s \in K THEN pushes ELSE issue[s]]
      <4>1. Onward(Job)' = K /\ Ahead(Job)' = Job'.screens
        BY <3>5 DEF Onward, Ahead, Brings
      <4>2. \A s \in K : screen'[s] \in Job.screens /\ screen'[s] \notin Job'.screens /\ issue'[s] = pushes
        BY <2>1, <3>3, <3>5
      <4>3. Job'.screens \subseteq Job.screens
        BY <3>5
      <4> HIDE DEF Onward, Ahead, Brings, K
      <4> QED BY <3>1, <3>2, <3>5, <4>1, <4>2, <4>3 DEF Placings
    <3> QED BY <1>3, <2>3, <3>4, <3>5, JobEnterApply
  <2> QED BY <2>2, <2>3
<1>4. CASE JoinRetired
  <2>1. /\ Job' = [Job EXCEPT !.at = "pause", !.slots = HasWorker(Job.kept)]
        /\ Job \in FrameType /\ Job.op = "apply" /\ Job.at = "join" /\ slots' = Job.kept
        /\ UNCHANGED <<config, screen, issue>>
    BY <1>4, JobJoinRetired DEF JoinRetired, slot
  <2>2. Job'.op = "apply" /\ Job'.at = "pause" /\ Job'.screens = Job.screens
    BY <2>1 DEF FrameType
  <2>3. Onward(Job)' = slots' /\ Onward(Job) = slots'
    BY <2>1, <2>2 DEF Onward
  <2> QED BY <1>1, <2>1, <2>2, <2>3
<1>5. ASSUME NEW s \in Slot, Pause(s) \/ PauseFails(s)
      PROVE  Placings(Job)'
  <2>1. /\ UNCHANGED <<config, slots, screen, issue>> /\ Job \in FrameType /\ Job.at = "pause"
        /\ Job.op \in {"apply", "probe"}
    BY <1>5, JobPause DEF Pause, PauseFails, slot
  <2>2. Job'.op = Job.op /\ Job'.at = "pause" /\ Job'.screens = Job.screens
    <3>1. CASE Job' = [Job EXCEPT !.slots = @ \ {s}]
      BY <2>1, <3>1 DEF FrameType
    <3>2. CASE Job' = [Job EXCEPT !.slots = @ \ {s}, !.buses = @ \cup {BusOf(screen[s])}]
      BY <2>1, <3>2 DEF FrameType
    <3> QED BY <1>5, <3>1, <3>2, JobPause
  <2>3. Onward(Job)' = slots /\ Onward(Job) = slots
    BY <2>1, <2>2 DEF Onward
  <2> QED BY <1>1, <2>1, <2>2, <2>3
<1>6. CASE BlankRetired
  <2>1. /\ Job' = [Job EXCEPT !.at = "open", !.retired = {}] /\ Job \in FrameType
        /\ Job.op = "apply" /\ Job.at = "pause" /\ UNCHANGED <<config, slots, screen, issue>>
    BY <1>6, JobBlankRetired DEF BlankRetired
  <2>2. Job'.op = "apply" /\ Job'.at = "open" /\ Job'.screens = Job.screens
    BY <2>1 DEF FrameType
  <2>3. Onward(Job)' = slots /\ Onward(Job) = slots
    BY <2>1, <2>2 DEF Onward
  <2> QED BY <1>1, <2>1, <2>2, <2>3
<1>7. CASE ApplyReturns
  <2>1. /\ Job' = Idle /\ Job.op = "apply" /\ Job.at = "work"
        /\ config' = IF \A s \in slots : issue[s] = config.issue THEN config ELSE Job.before
        /\ UNCHANGED <<slots, screen, issue>>
    BY <1>7, JobApplyReturns DEF ApplyReturns, slot
  <2>2. \A s \in slots : issue[s] = config.issue
    BY <2>1 DEF Placings, Onward
  <2> QED BY <1>2, <2>1, <2>2
<1>8. CASE ProbeReturns
  <2>1. Job' = Idle /\ Job.op = "probe" /\ UNCHANGED <<config, slots, screen, issue>>
    BY <1>8, JobProbeReturns DEF ProbeReturns
  <2> QED BY <1>2, <2>1
<1>9. CASE EnterProbe
  <2>1. Job \in FrameType /\ Job.op = "probe" /\ UNCHANGED <<config, slots, screen, issue>>
    BY <1>9, JobEnterProbe DEF EnterProbe, slot
  <2>2. CASE Job' = Idle
    BY <1>2, <2>1, <2>2
  <2>3. CASE /\ Job' = [Job EXCEPT !.at = "pause", !.slots = HasWorker(slots)]
             /\ \A x \in Job.screens, y \in config.screens : x.device # y.device
    <3>1. Job'.op = "probe" /\ Job'.at = "pause" /\ Job'.screens = Job.screens
      BY <2>1, <2>3 DEF FrameType
    <3>2. Onward(Job)' = slots /\ Onward(Job) = slots /\ Ahead(Job)' = {} /\ ~Brings(Job)'
      BY <2>1, <3>1 DEF Onward, Ahead, Brings
    <3> QED BY <2>1, <2>3, <3>1, <3>2, PlacingsKeeps
  <2> QED BY <1>9, <2>2, <2>3, JobEnterProbe
<1>10. CASE ProbePaused
  <2>1. Job \in FrameType /\ Job.op = "probe" /\ Job.at = "pause" /\ UNCHANGED <<config, slots, screen, issue>>
    BY <1>10, JobProbePaused DEF ProbePaused, slot
  <2>2. CASE Job' = Idle
    BY <1>2, <2>1, <2>2
  <2>3. CASE Job' = [Job EXCEPT !.at = "open"]
    <3>1. Job'.op = "probe" /\ Job'.at = "open" /\ Job'.screens = Job.screens
      BY <2>1, <2>3 DEF FrameType
    <3>2. Onward(Job)' = slots /\ Onward(Job) = slots
      BY <2>1, <3>1 DEF Onward
    <3> QED BY <1>1, <2>1, <3>1, <3>2
  <2> QED BY <1>10, <2>2, <2>3, JobProbePaused
<1>11. ASSUME NEW s \in Slot, ProbeLights(s)
       PROVE  Placings(Job)'
  <2>1. /\ Job' = [Job EXCEPT !.at = "lit", !.slot = s] /\ Job \in FrameType /\ Job.op = "probe"
    BY <1>11, JobProbeLights
  <2>2. Job'.op = "probe" /\ Job'.at = "lit"
    BY <2>1 DEF FrameType
  <2>3. UNCHANGED <<config, slots>> /\ Opened("link", s) /\ "link" \in Thread
    BY <1>11 DEF ProbeLights, Thread
  <2>4. /\ \A o \in Slot \ {s} : screen'[o] = screen[o] /\ issue'[o] = issue[o]
        /\ s \notin slots
    BY <2>3, OpenedIs DEF Called, Vacant
  <2>5. \A o \in slots : o \in Slot /\ o # s /\ screen'[o] = screen[o] /\ issue'[o] = issue[o]
    BY <2>4 DEF Called, Typed, Values
  <2>6. Onward(Job)' = slots /\ Onward(Job) = slots /\ Ahead(Job)' = {} /\ ~Brings(Job)'
    BY <2>1, <2>2, <2>3 DEF Onward, Ahead, Brings
  <2> QED BY <2>2, <2>3, <2>5, <2>6, PlacingsKeeps
<1> QED BY <1>3, <1>4, <1>5, <1>6, <1>7, <1>8, <1>9, <1>10, <1>11 DEF Link

LEMMA PlacingsStep ==
  ASSUME ~EarlyPush, Called, Panels, Placings(Job), Next
  PROVE  Placings(Job)'
<1>1. Typed' /\ slots \subseteq Slot
  BY TypeStep DEF Called, Typed, Values
<1>2. ASSUME Job' = Job, UNCHANGED <<config, slots, screen, issue>>
      PROVE  Placings(Job)'
  <2>1. Job.op = "apply" => Job = Work("link")
    BY OpsAre DEF Job
  <2>2. Job.op = "apply" /\ Job.at = "join" => Job.kept \subseteq slots
    BY <2>1 DEF Panels, LinkHas
  <2>3. Job' = Idle => ~(Job.op = "apply" /\ Job.at = "join")
    BY <1>2, IdleIs
  <2> QED BY <1>1, <1>2, <2>2, <2>3, PlacingsStay
<1>3. ASSUME NEW w \in Worker, Drawing(w)
      PROVE  Placings(Job)'
  BY <1>2, <1>3, JobDrawing DEF slot
<1>4. ASSUME NEW t \in Thread, Stopping(t)
      PROVE  Placings(Job)'
  BY <1>1, <1>2, <1>4, JobStopping
<1>5. CASE Calls
  <2>1. UNCHANGED <<config, slots, screen, issue>>
    BY <1>1, <1>5, JobCalls DEF slot
  <2>2. CASE /\ Job = Idle /\ Job'.op \in {"apply", "probe"} /\ Job'.at = "enter"
             /\ Job'.op = "apply" => Job'.screens \in Config
    <3>1. Onward(Job)' = slots /\ Onward(Job) = slots /\ Ahead(Job)' = {} /\ ~Brings(Job)'
      BY <2>1, <2>2, IdleIs DEF Onward, Ahead, Brings
    <3>2. Job'.op = "apply" => Apart(Job.screens)'
      BY <2>2, ConfigAssumption DEF Apart
    <3>3. Apart(config.screens)'
      BY <2>1 DEF Placings, Apart
    <3>4. \A s \in slots : screen[s] \in config.screens
      BY <3>1 DEF Placings
    <3> HIDE DEF Onward, Ahead, Brings
    <3> QED BY <2>1, <2>2, <3>1, <3>2, <3>3, <3>4 DEF Placings
  <2> QED BY <1>1, <1>2, <1>5, <2>1, <2>2, JobCalls
<1> QED BY <1>1, <1>3, <1>4, <1>5, PlacingsOpening, PlacingsMain, PlacingsLink DEF Next

\* Lit panels are on devices of their own, and so is what is being opened.
Chips ==
  /\ \A s, o \in Slot : Lit(s) /\ Lit(o) /\ screen[s].device = screen[o].device => s = o
  /\ Job.at = "init" => \A s \in Slot : Lit(s) => screen[s].device # Job.screen.device

LEMMA ChipsKeep ==
  ASSUME Chips, \A s \in Slot : Lit(s)' => Lit(s) /\ screen'[s] = screen[s],
         Job'.at = "init" => Job' = Job
  PROVE  Chips'
BY DEF Chips

LEMMA ChipsOpened ==
  ASSUME Called, Chips, NEW t \in Thread, NEW s \in Slot, Opened(t, s), Top(t) = Job,
         Job.at = "init", Job'.at # "init"
  PROVE  Chips'
<1>1. /\ screen'[s] = Job.screen
      /\ \A o \in Slot \ {s} : screen'[o] = screen[o] /\ closes'[o] = closes[o]
  BY OpenedIs DEF Called
<1>2. \A o \in Slot \ {s} : (Lit(o)' <=> Lit(o)) /\ screen'[o] = screen[o]
  BY <1>1 DEF Lit
<1>3. \A o \in Slot \ {s} : Lit(o)' => screen'[o].device # screen'[s].device
  BY <1>1, <1>2 DEF Chips
<1> HIDE DEF Lit
<1> QED BY <1>2, <1>3 DEF Chips

LEMMA ChipsShut ==
  ASSUME Called, NEW S, ShutDown(S)
  PROVE  \A s \in Slot : Lit(s)' => Lit(s)
<1>1. closes \in [Slot -> Nat] /\ closes' = [s \in Slot |-> IF s \in S THEN closes[s] + 1 ELSE closes[s]]
  BY DEF ShutDown, Called, Typed, Values
<1>2. \A s \in Slot : closes'[s] = closes[s] \/ closes'[s] = closes[s] + 1
  BY <1>1
<1>3. \A s \in Slot : closes[s] \in Nat
  BY <1>1
<1> QED BY <1>2, <1>3 DEF Lit

\* A panel that is lit is a slot's while a call goes on to open another.
LEMMA LitInSlots ==
  ASSUME ~EarlyPush, Called, Panels, Job.op \in {"start", "apply", "probe"}, Job.at = "open",
         Job.op = "start" => ~stopped, NEW s \in Slot, Lit(s)
  PROVE  s \in slots
<1>1. (s \in slots /\ ~shut[s]) \/ Claimed(s) \/ InHand(Work("link"), s)
  BY DEF Panels, PanelOK, Lit
<1>2. ~stopped
  <2>1. CASE Job.op \in {"apply", "probe"}
    BY <2>1, OpsAre DEF Job, Called, Locks
  <2> QED BY <2>1
<1>3. ~Claimed(s)
  BY <1>2 DEF Called, Locks, Claimed, Claims
<1>4. ~InHand(Work("link"), s)
  <2>1. CASE Job.op = "start"
    <3>1. Work("link") = Idle
      BY <2>1, OpsAre DEF Job, Called, Locks
    <3> QED BY <3>1, IdleIs DEF InHand
  <2>2. CASE Job.op \in {"apply", "probe"}
    BY <2>2, OpsAre DEF Job, InHand
  <2> QED BY <2>1, <2>2
<1> QED BY <1>1, <1>3, <1>4

LEMMA ChipsOpening ==
  ASSUME ~EarlyPush, Called, Panels, Placings(Job), Chips, Typed', NEW t \in Thread, Opening(t)
  PROVE  Chips'
<1> Stacks'
  BY DEF Typed
<1>1. ASSUME UNCHANGED <<closes, screen>>, Job'.at # "init"
      PROVE  Chips'
  BY <1>1, ChipsKeep DEF Lit
<1>2. ASSUME NEW x, BeginOpen(t, x)
      PROVE  Chips'
  <2>1. /\ Job' = [Job EXCEPT !.at = "init", !.screen = x, !.screens = @ \ {x}]
        /\ Job \in FrameType /\ Job.op \in {"start", "apply", "probe"} /\ Job.at = "open"
        /\ x \in Job.screens /\ (Job.op = "start" => ~stopped)
    BY <1>2, JobBeginOpen
  <2>2. Job'.screen = x
    BY <2>1 DEF FrameType
  <2>3. UNCHANGED <<closes, screen>>
    BY <1>2 DEF BeginOpen, slot
  <2>4. ASSUME NEW s \in Slot, Lit(s)
        PROVE  screen[s].device # x.device
    <3>1. s \in slots
      BY <2>1, <2>4, LitInSlots
    <3>2. screen[s] \in config.screens /\ screen[s] \notin Ahead(Job)
      BY <2>1, <3>1 DEF Placings, Onward
    <3>3. CASE Job.op = "probe"
      BY <2>1, <3>2, <3>3 DEF Placings
    <3>4. CASE Job.op \in {"start", "apply"}
      <4>1. x \in Ahead(Job)
        BY <2>1, <3>4 DEF Ahead, Brings
      <4>2. x \in config.screens /\ Apart(config.screens)
        BY <4>1 DEF Placings
      <4> QED BY <3>2, <4>1, <4>2 DEF Apart
    <3> QED BY <2>1, <3>3, <3>4
  <2>5. \A s \in Slot : Lit(s)' <=> Lit(s)
    BY <2>3 DEF Lit
  <2> HIDE DEF Lit
  <2> QED BY <2>2, <2>3, <2>4, <2>5 DEF Chips
<1>3. ASSUME NEW x, SkipOpen(t, x)
      PROVE  Chips'
  <2>1. Job' = [Job EXCEPT !.screens = @ \ {x}] /\ Job \in FrameType /\ Job.at = "open"
    BY <1>3, JobSkipOpen
  <2>2. Job'.at = "open"
    BY <2>1 DEF FrameType
  <2> QED BY <1>1, <1>3, <2>2 DEF SkipOpen, slot
<1>4. CASE OpenFails(t)
  <2>1. Job' = [Job EXCEPT !.at = "open", !.screen = None] /\ Job \in FrameType
    BY <1>4, JobOpenFails
  <2>2. Job'.at = "open"
    BY <2>1 DEF FrameType
  <2> QED BY <1>1, <1>4, <2>2 DEF OpenFails, slot
<1>5. ASSUME NEW s \in Slot, OpenPanel(t, s)
      PROVE  Chips'
  <2>1. /\ Job' = [Job EXCEPT !.at = "open", !.screen = None] /\ Job \in FrameType
        /\ Job.at = "init" /\ Top(t) = Job
    BY <1>5, JobOpenPanel
  <2>2. Job'.at = "open"
    BY <2>1 DEF FrameType
  <2> QED BY <1>5, <2>1, <2>2, ChipsOpened DEF OpenPanel
<1>6. CASE OpensDone(t)
  <2>1. Job' = [Job EXCEPT !.at = "work", !.slots = slots] /\ Job \in FrameType
    BY <1>6, JobOpensDone
  <2>2. Job'.at = "work"
    BY <2>1 DEF FrameType
  <2> QED BY <1>1, <1>6, <2>2 DEF OpensDone, slot
<1>7. ASSUME NEW s \in Slot, NEW w \in Worker, StartWorker(t, s, w)
      PROVE  Chips'
  <2>1. /\ Job' = [Job EXCEPT !.at = "begun", !.slots = @ \ {s}, !.slot = s, !.worker = w]
        /\ Job \in FrameType
    BY <1>7, JobStartWorker
  <2>2. Job'.at = "begun"
    BY <2>1 DEF FrameType
  <2> QED BY <1>1, <1>7, <2>2 DEF StartWorker, slot
<1>8. ASSUME NEW s \in Slot, StartFails(t, s)
      PROVE  Chips'
  <2>1. /\ Job' = [Job EXCEPT !.at = "failed", !.slots = @ \ {s}, !.slot = s]
        /\ Job \in FrameType
    BY <1>8, JobStartFails
  <2>2. Job'.at = "failed"
    BY <2>1 DEF FrameType
  <2> QED BY <1>1, <1>8, <2>2 DEF StartFails, slot
<1>9. CASE RecordWorker(t)
  <2>1. Job' = [Job EXCEPT !.at = "work", !.slot = None, !.worker = None] /\ Job \in FrameType
    BY <1>9, JobRecordWorker
  <2>2. Job'.at = "work"
    BY <2>1 DEF FrameType
  <2> QED BY <1>1, <1>9, <2>2 DEF RecordWorker
<1>10. CASE DropSlot(t)
  <2>1. Job' = Idle \/ (Job \in FrameType /\ Job' = [Job EXCEPT !.at = "work", !.slot = None])
    BY <1>10, JobDropSlot
  <2>2. Job'.at # "init"
    BY <2>1, IdleIs DEF FrameType
  <2>3. UNCHANGED screen /\ \A s \in Slot : Lit(s)' => Lit(s)
    BY <1>10, ChipsShut DEF DropSlot
  <2> QED BY <2>2, <2>3, ChipsKeep
<1> QED BY <1>2, <1>3, <1>4, <1>5, <1>6, <1>7, <1>8, <1>9, <1>10 DEF Opening

LEMMA ChipsLink ==
  ASSUME ~EarlyPush, Called, Chips, Typed', Link
  PROVE  Chips'
<1> Stacks'
  BY DEF Typed
<1>1. ASSUME UNCHANGED <<closes, screen>>, Job'.at # "init"
      PROVE  Chips'
  BY <1>1, ChipsKeep DEF Lit
<1>2. CASE EnterApply \/ JoinRetired \/ ApplyReturns \/ EnterProbe \/ ProbePaused
  <2>1. UNCHANGED <<closes, screen>>
    BY <1>2 DEF EnterApply, JoinRetired, ApplyReturns, EnterProbe, ProbePaused, slot
  <2>2. CASE EnterApply
    BY <1>1, <2>1, <2>2, JobEnterApply, IdleIs
  <2>3. CASE JoinRetired
    <3>1. Job' = [Job EXCEPT !.at = "pause", !.slots = HasWorker(Job.kept)] /\ Job \in FrameType
      BY <2>3, JobJoinRetired
    <3>2. Job'.at = "pause"
      BY <3>1 DEF FrameType
    <3> QED BY <1>1, <2>1, <3>2
  <2>4. CASE ApplyReturns
    BY <1>1, <2>1, <2>4, JobApplyReturns, IdleIs
  <2>5. CASE EnterProbe
    <3>1. Job' = Idle \/ (Job \in FrameType /\ Job' = [Job EXCEPT !.at = "pause", !.slots = HasWorker(slots)])
      BY <2>5, JobEnterProbe
    <3>2. Job'.at # "init"
      BY <3>1, IdleIs DEF FrameType
    <3> QED BY <1>1, <2>1, <3>2
  <2>6. CASE ProbePaused
    <3>1. Job' = Idle \/ (Job \in FrameType /\ Job' = [Job EXCEPT !.at = "open"])
      BY <2>6, JobProbePaused
    <3>2. Job'.at # "init"
      BY <3>1, IdleIs DEF FrameType
    <3> QED BY <1>1, <2>1, <3>2
  <2> QED BY <1>2, <2>2, <2>3, <2>4, <2>5, <2>6
<1>3. CASE BlankRetired \/ ProbeReturns
  <2>1. UNCHANGED screen /\ \A s \in Slot : Lit(s)' => Lit(s)
    BY <1>3, ChipsShut DEF BlankRetired, ProbeReturns
  <2>2. Job' = Idle \/ (Job \in FrameType /\ Job' = [Job EXCEPT !.at = "open", !.retired = {}])
    BY <1>3, JobBlankRetired, JobProbeReturns
  <2>3. Job'.at # "init"
    BY <2>2, IdleIs DEF FrameType
  <2> QED BY <2>1, <2>3, ChipsKeep
<1>4. ASSUME NEW s \in Slot, Pause(s) \/ PauseFails(s)
      PROVE  Chips'
  <2>1. UNCHANGED <<closes, screen>> /\ Job \in FrameType /\ Job.at = "pause"
    BY <1>4, JobPause DEF Pause, PauseFails, slot
  <2>2. Job'.at = "pause"
    <3>1. CASE Job' = [Job EXCEPT !.slots = @ \ {s}]
      BY <2>1, <3>1 DEF FrameType
    <3>2. CASE Job' = [Job EXCEPT !.slots = @ \ {s}, !.buses = @ \cup {BusOf(screen[s])}]
      BY <2>1, <3>2 DEF FrameType
    <3> QED BY <1>4, <3>1, <3>2, JobPause
  <2> QED BY <1>1, <2>1, <2>2
<1>5. ASSUME NEW s \in Slot, ProbeLights(s)
      PROVE  Chips'
  <2>1. /\ Job' = [Job EXCEPT !.at = "lit", !.slot = s] /\ Job \in FrameType
        /\ Job.at = "init" /\ Top("link") = Job
    BY <1>5, JobProbeLights
  <2>2. Job'.at = "lit" /\ "link" \in Thread /\ Opened("link", s)
    BY <1>5, <2>1 DEF FrameType, ProbeLights, Thread
  <2> QED BY <2>1, <2>2, ChipsOpened
<1> QED BY <1>2, <1>3, <1>4, <1>5 DEF Link

LEMMA ChipsStep ==
  ASSUME ~EarlyPush, Called, Panels, Placings(Job), Chips, Next
  PROVE  Chips'
<1>1. Typed'
  BY TypeStep DEF Called
<1>2. ASSUME UNCHANGED <<closes, screen>>, Job' = Job \/ Job'.at # "init"
      PROVE  Chips'
  BY <1>2, ChipsKeep DEF Lit
<1>3. ASSUME NEW w \in Worker, Drawing(w)
      PROVE  Chips'
  BY <1>2, <1>3, JobDrawing DEF slot
<1>4. ASSUME NEW t \in Thread, Stopping(t)
      PROVE  Chips'
  BY <1>1, <1>4, JobStopping, ChipsKeep
<1>5. CASE Calls
  BY <1>1, <1>2, <1>5, JobCalls DEF slot
<1>6. CASE Main
  BY <1>1, <1>2, <1>6, JobMain, MainKeeps, IdleIs
<1> QED BY <1>1, <1>3, <1>4, <1>5, <1>6, ChipsOpening, ChipsLink DEF Next

LEMMA PlacingsInit ==
  ASSUME Init
  PROVE  Placings(Job) /\ Chips /\ Job.op = "start" /\ Job.at = "open" /\ Job.screens = config.screens
<1>1. PICK C \in Boot :
        /\ config = [screens |-> C, issue |-> 0]
        /\ stack = [t \in Thread |->
                     IF t = "main"
                       THEN <<[Frame("start", "open") EXCEPT !.screens = C],
                              Frame("run", "loop")>>
                       ELSE <<>>]
  BY DEF Init
<1>2. Work("main") = [Frame("start", "open") EXCEPT !.screens = C]
  <2>1. stack["main"] = <<[Frame("start", "open") EXCEPT !.screens = C], Frame("run", "loop")>>
    BY <1>1 DEF Thread
  <2>2. Depth("main") = 2 /\ MainCall = [Frame("start", "open") EXCEPT !.screens = C]
    BY <2>1 DEF Depth, MainCall, Fr
  <2> QED BY <2>2 DEF Work, Frame
<1>3. Work("main").op = "start" /\ Work("main").at = "open" /\ Work("main").screens = C
  BY <1>2 DEF Frame
<1>4. Job.op = "start" /\ Job.at = "open" /\ Job.screens = C
  BY <1>3 DEF Job
<1>5. slots = {} /\ \A s \in Slot : ~Lit(s)
  BY DEF Init, Lit
<1>6. Apart(C)
  BY ConfigAssumption DEF Apart
<1>7. Onward(Job) = {} /\ Ahead(Job) = C
  BY <1>4, <1>5 DEF Onward, Ahead, Brings
<1> HIDE DEF Onward, Ahead, Lit
<1> QED BY <1>1, <1>4, <1>5, <1>6, <1>7 DEF Placings, Chips, Brings

Arranged == Called /\ Panels /\ Placings(Job) /\ Chips

LEMMA ArrangedStays ==
  ASSUME Arranged, UNCHANGED vars
  PROVE  Arranged' /\ Job' = Job
<1>1. UNCHANGED <<config, slots, screen, issue, closes, stopped, shut>>
  BY DEF vars, slot
<1>2. \A t \in Thread : Work(t)' = Work(t)
  BY AllUntouched DEF Arranged, Moved, Moves, vars
<1>3. Called' /\ Panels' /\ Job' = Job
  BY <1>1, <1>2, VarsStay, PanelsMove, JobStays DEF Arranged, Thread
<1>4. Placings(Job)'
  <2>1. Onward(Job)' = Onward(Job) /\ Ahead(Job)' = Ahead(Job) /\ (Brings(Job)' <=> Brings(Job))
    BY <1>1, <1>3 DEF Onward, Ahead, Brings
  <2>2. (Apart(config.screens)' <=> Apart(config.screens)) /\ (Apart(Job.screens)' <=> Apart(Job.screens))
    BY <1>1, <1>3 DEF Apart
  <2> HIDE DEF Onward, Ahead, Brings
  <2> QED BY <1>1, <1>3, <2>1, <2>2 DEF Arranged, Placings
<1>5. Chips'
  BY <1>1, <1>3, ChipsKeep DEF Arranged, Lit
<1> QED BY <1>3, <1>4, <1>5 DEF Arranged

\* No device is opened while a panel on it is open, and no two open panels are
\* on one device, by start(), by a push that moved a screen or by a probe,
\* whatever panel was refused or would not open before.
THEOREM OneOpenPerDeviceHolds ==
  ASSUME ~EarlyPush
  PROVE  Spec => []OneOpenPerDevice
<1>1. Init => Arranged
  BY InitIs, PlacingsInit DEF Arranged
<1>2. Arranged /\ [Next]_vars => Arranged'
  <2>1. ASSUME Arranged, Next
        PROVE  Arranged'
    BY <2>1, CalledStep, PanelsStep, PlacingsStep, ChipsStep DEF Arranged
  <2> QED BY <2>1, ArrangedStays
<1>3. Arranged => OneOpenPerDevice
  <2> SUFFICES ASSUME Arranged
               PROVE  OneOpenPerDevice
    OBVIOUS
  <2>1. \A t \in Thread : \A x \in Opens(t) : Job.at = "init" /\ x = Job.screen
    BY OpensIs DEF Arranged
  <2> QED BY <2>1 DEF Arranged, OneOpenPerDevice, Chips
<1> QED BY <1>1, <1>2, <1>3, PTL DEF Spec

-----------------------------------------------------------------------------
(* A rack at rest.                                                         *)

\* Nothing has ended the loop, and nobody has told the rack to stop.
Up == ~stopped /\ Looping

LEMMA UpStep ==
  ASSUME Called, Next
  PROVE  Up' => Up
<1>1. Typed'
  BY TypeStep DEF Called
<1>2. ASSUME NEW w \in Worker, Drawing(w)
      PROVE  Up' => Up
  <2>1. UNCHANGED <<stack, stopped>>
    BY <1>2, JobDrawing
  <2> QED BY <2>1 DEF Up, Looping, Depth, Fr
<1>3. ASSUME NEW t \in Thread, Opening(t)
      PROVE  Up' => Up
  <2>1. Looping' => Looping
    BY <1>1, <1>3, OpeningMoves DEF Moves
  <2>2. UNCHANGED stopped
    BY <1>3 DEF Opening, BeginOpen, SkipOpen, OpenFails, OpensDone, OpenPanel, StartFails,
                StartWorker, RecordWorker, DropSlot
  <2> QED BY <2>1, <2>2 DEF Up
<1>4. ASSUME NEW t \in Thread, Stopping(t)
      PROVE  Up' => Up
  BY <1>1, <1>4, JobStopping DEF StopMoved, Up
<1>5. CASE Main
  BY <1>1, <1>5, MainMoves DEF Moves, Up
<1>6. CASE Link
  <2>1. Looping' => Looping
    BY <1>1, <1>6, LinkMoves DEF Moves
  <2>2. UNCHANGED stopped
    BY <1>6 DEF Link, EnterApply, JoinRetired, BlankRetired, ApplyReturns, EnterProbe, ProbePaused,
                ProbeReturns, Pause, PauseFails, ProbeLights
  <2> QED BY <2>1, <2>2 DEF Up
<1>7. CASE Calls
  BY <1>1, <1>7, BeginIs DEF Up
<1> QED BY <1>2, <1>3, <1>4, <1>5, <1>6, <1>7 DEF Next

\* No two slots show one screen.
LEMMA OneSlot ==
  ASSUME Called, Panels, Chips, ~stopped, NEW s \in slots, NEW o \in slots, screen[s] = screen[o]
  PROVE  s = o
<1>1. s \in Slot /\ o \in Slot
  BY DEF Called, Typed, Values
<1>2. Lit(s) /\ Lit(o)
  BY <1>1 DEF Panels, PanelOK, Lit
<1> QED BY <1>1, <1>2 DEF Chips

\* A worker is held only while something may be opened, and what was to be
\* opened has been when workers are started.
Freed(f) ==
  /\ held # {} => f.op \in {"apply", "probe"} /\ f.at \in {"pause", "open", "init", "lit"}
  /\ f.op \in {"start", "apply"} /\ f.at \in {"work", "begun", "failed"} => f.screens = {}

\* A slot without a worker is one that the call has still to start.
Awaits(f, s) ==
  /\ f.op \in {"start", "apply"}
  /\ \/ f.at \in {"open", "init"}
     \/ f.at \in {"work", "begun", "failed"} /\ s \in f.slots
     \/ f.at \in {"begun", "failed"} /\ s = f.slot
Staffed(f) == Up => \A s \in slots : worker[s] = None => Awaits(f, s)

\* Every screen of the configuration is still to be opened, or a slot shows it,
\* or it is reported; until the retired are gone, what was reported before is.
Joining(f) == f.op = "apply" /\ f.at = "join"
Reported(f) ==
  Up => /\ \A s \in Onward(f) : screen[s] \notin unavailable
        /\ ~Joining(f) => Ahead(f) \cap unavailable = {}
        /\ \A x \in config.screens : \/ x \in Ahead(f) \/ \E s \in Onward(f) : screen[s] = x
                                     \/ x \in unavailable /\ ~Joining(f)

Settling(f) == Freed(f) /\ Staffed(f) /\ Reported(f)

LEMMA StaffedKeeps ==
  ASSUME Staffed(Job), Up' => Up,
         \A s \in slots' : worker'[s] = None =>
           s \in slots /\ worker[s] = None /\ (Awaits(Job, s) => Awaits(Job', s))
  PROVE  Staffed(Job)'
<1> SUFFICES ASSUME Up', NEW s \in slots', worker'[s] = None
             PROVE  Awaits(Job', s)
  BY DEF Staffed, Awaits
<1> QED BY DEF Staffed

LEMMA ReportedKeeps ==
  ASSUME Reported(Job), Up' => Up, UNCHANGED <<config, unavailable>>, Onward(Job)' = Onward(Job),
         \A s \in Onward(Job) : screen'[s] = screen[s],
         Ahead(Job)' = Ahead(Job), Joining(Job)' <=> Joining(Job)
  PROVE  Reported(Job)'
<1> SUFFICES ASSUME Up', Up
             PROVE  Reported(Job)'
  BY DEF Reported
<1>1. \A s \in Onward(Job)' : screen'[s] \notin unavailable'
  BY DEF Reported
<1>2. ~Joining(Job)' => Ahead(Job)' \cap unavailable' = {}
  BY DEF Reported
<1>3. \A x \in config'.screens : \/ x \in Ahead(Job)' \/ \E s \in Onward(Job)' : screen'[s] = x
                                 \/ x \in unavailable' /\ ~Joining(Job)'
  BY DEF Reported
<1> HIDE DEF Onward, Ahead, Joining
<1> QED BY <1>1, <1>2, <1>3 DEF Reported

\* A step of the call that opens nothing and reports nothing.
LEMMA SettlingOn ==
  ASSUME Settling(Job), Up' => Up, UNCHANGED <<config, slots, unavailable, screen>>,
         Job'.op = Job.op, Job'.screens = Job.screens, Freed(Job)',
         Job.at \notin {"enter", "init", "join"}, Job'.at \notin {"enter", "init", "join"},
         \A s \in slots : worker'[s] = None =>
           worker[s] = None /\ (Awaits(Job, s) => Awaits(Job', s))
  PROVE  Settling(Job)'
<1>1. Staffed(Job)'
  BY StaffedKeeps DEF Settling
<1>2. Onward(Job)' = Onward(Job) /\ Ahead(Job)' = Ahead(Job) /\ (Joining(Job)' <=> Joining(Job))
  BY DEF Onward, Ahead, Brings, Joining
<1>3. Reported(Job)'
  BY <1>2, ReportedKeeps DEF Settling
<1> QED BY <1>1, <1>3 DEF Settling

\* The call ends, or stays where it is.
LEMMA SettlingEnds ==
  ASSUME Settling(Job), Up' => Up, UNCHANGED <<config, slots, unavailable, screen>>,
         Job' = Idle, held' = {}, Ahead(Job) = {}, ~Joining(Job),
         \A s \in slots : worker'[s] = None => worker[s] = None /\ ~Awaits(Job, s)
  PROVE  Settling(Job)'
<1>1. Freed(Job)'
  BY IdleIs DEF Freed
<1>2. Staffed(Job)'
  BY StaffedKeeps DEF Settling
<1>3. Onward(Job)' = slots /\ Onward(Job) = slots /\ Ahead(Job)' = {} /\ ~Joining(Job)'
  BY IdleIs DEF Onward, Ahead, Brings, Joining
<1>4. Reported(Job)'
  BY <1>3, ReportedKeeps DEF Settling
<1> QED BY <1>1, <1>2, <1>4 DEF Settling

LEMMA SettlingStays ==
  ASSUME Settling(Job), Up' => Up, UNCHANGED <<config, slots, unavailable, screen, held>>, Job' = Job,
         \A s \in slots : worker'[s] = None => worker[s] = None,
         Joining(Job) => Job.kept \subseteq slots
  PROVE  Settling(Job)'
<1>1. Freed(Job)'
  BY DEF Freed, Settling
<1>2. Staffed(Job)'
  BY StaffedKeeps DEF Settling
<1>3. Onward(Job)' = Onward(Job) /\ Ahead(Job)' = Ahead(Job) /\ (Joining(Job)' <=> Joining(Job))
  BY DEF Onward, Ahead, Brings, Joining
<1>4. Reported(Job)'
  BY <1>3, ReportedKeeps DEF Settling
<1> QED BY <1>1, <1>2, <1>4 DEF Settling

LEMMA SettlingOpens ==
  ASSUME ~EarlyPush, Called, Panels, Placings(Job), Chips, Settling(Job), Typed', Up' => Up,
         NEW t \in Thread, \/ \E x : BeginOpen(t, x) \/ SkipOpen(t, x)
                           \/ OpenFails(t) \/ \E s \in Slot : OpenPanel(t, s)
  PROVE  Settling(Job)'
<1> Stacks'
  BY DEF Typed
<1>1. ASSUME NEW x, BeginOpen(t, x)
      PROVE  Settling(Job)'
  <2>1. /\ Job' = [Job EXCEPT !.at = "init", !.screen = x, !.screens = @ \ {x}]
        /\ Job \in FrameType /\ Job.at = "open" /\ x \in Job.screens
    BY <1>1, JobBeginOpen
  <2>2. /\ Job'.op = Job.op /\ Job'.at = "init" /\ Job'.screen = x
        /\ Job'.screens = Job.screens \ {x}
    BY <2>1 DEF FrameType
  <2>3. UNCHANGED <<config, slots, unavailable, screen, worker, held>>
    BY <1>1 DEF BeginOpen, slot
  <2>4. Freed(Job)'
    BY <2>1, <2>2, <2>3 DEF Settling, Freed
  <2>5. Staffed(Job)'
    BY <2>1, <2>2, <2>3, StaffedKeeps DEF Settling, Awaits
  <2>6. Onward(Job)' = Onward(Job) /\ (Joining(Job)' <=> Joining(Job))
    BY <2>1, <2>2, <2>3 DEF Onward, Joining
  <2>7. Ahead(Job)' = Ahead(Job)
    BY <2>1, <2>2 DEF Ahead, Brings
  <2> QED BY <2>3, <2>4, <2>5, <2>6, <2>7, ReportedKeeps DEF Settling
<1>2. ASSUME NEW x, SkipOpen(t, x)
      PROVE  Settling(Job)'
  <2>1. /\ Job' = [Job EXCEPT !.screens = @ \ {x}]
        /\ Job \in FrameType /\ Job.op = "apply" /\ Job.at = "open" /\ x \in Job.screens
    BY <1>2, JobSkipOpen
  <2>2. Job'.op = Job.op /\ Job'.at = "open" /\ Job'.screens = Job.screens \ {x}
    BY <2>1 DEF FrameType
  <2>3. UNCHANGED <<config, slots, screen, worker, held>> /\ unavailable' = unavailable \cup {x}
    BY <1>2 DEF SkipOpen, slot
  <2>4. Freed(Job)'
    BY <2>1, <2>2, <2>3 DEF Settling, Freed
  <2>5. Staffed(Job)'
    BY <2>1, <2>2, <2>3, StaffedKeeps DEF Settling, Awaits
  <2>6. Onward(Job)' = slots /\ Onward(Job) = slots /\ ~Joining(Job)' /\ ~Joining(Job)
    BY <2>1, <2>2, <2>3 DEF Onward, Joining
  <2>7. Ahead(Job)' = Job.screens \ {x} /\ Ahead(Job) = Job.screens
    BY <2>1, <2>2 DEF Ahead, Brings
  <2>8. Reported(Job)'
    <3> SUFFICES ASSUME Up, Up'
                 PROVE  Reported(Job)'
      BY DEF Reported
    <3>1. \A s \in slots : screen[s] \notin unavailable'
      BY <2>1, <2>3, <2>6, <2>7 DEF Settling, Reported, Placings
    <3>2. \A y \in config.screens : y \in Ahead(Job)' \/ (\E s \in slots : screen[s] = y)
                                   \/ y \in unavailable'
      BY <2>3, <2>6, <2>7 DEF Settling, Reported
    <3>3. Ahead(Job)' \cap unavailable' = {}
      BY <2>3, <2>6, <2>7 DEF Settling, Reported
    <3> HIDE DEF Onward, Ahead, Joining
    <3> QED BY <2>3, <2>6, <3>1, <3>2, <3>3 DEF Reported
  <2> QED BY <2>4, <2>5, <2>8 DEF Settling
<1>3. CASE OpenFails(t)
  <2>1. /\ Job' = [Job EXCEPT !.at = "open", !.screen = None]
        /\ Job \in FrameType /\ Job.op \in {"start", "apply"} /\ Job.at = "init" /\ Top(t) = Job
    BY <1>3, JobOpenFails
  <2>2. Job'.op = Job.op /\ Job'.at = "open" /\ Job'.screens = Job.screens
    BY <2>1 DEF FrameType
  <2>3. /\ UNCHANGED <<config, slots, screen, worker, held>>
        /\ unavailable' = unavailable \cup {Job.screen}
    BY <1>3, <2>1 DEF OpenFails, slot
  <2>4. Freed(Job)'
    BY <2>1, <2>2, <2>3 DEF Settling, Freed
  <2>5. Staffed(Job)'
    BY <2>1, <2>2, <2>3, StaffedKeeps DEF Settling, Awaits
  <2>6. Onward(Job)' = slots /\ Onward(Job) = slots /\ ~Joining(Job)' /\ ~Joining(Job) /\ Brings(Job)
    BY <2>1, <2>2, <2>3 DEF Onward, Joining, Brings
  <2>7. Ahead(Job)' = Job.screens /\ Ahead(Job) = Job.screens \cup {Job.screen}
    BY <2>1, <2>2 DEF Ahead, Brings
  <2>8. Reported(Job)'
    <3> SUFFICES ASSUME Up, Up'
                 PROVE  Reported(Job)'
      BY DEF Reported
    <3>1. \A s \in slots : screen[s] \notin unavailable'
      BY <2>3, <2>6, <2>7 DEF Settling, Reported, Placings
    <3>2. \A y \in config.screens : y \in Ahead(Job)' \/ (\E s \in slots : screen[s] = y)
                                   \/ y \in unavailable'
      BY <2>3, <2>6, <2>7 DEF Settling, Reported
    <3>3. Ahead(Job)' \cap unavailable' = {}
      BY <2>1, <2>3, <2>6, <2>7 DEF Settling, Reported, Placings
    <3> HIDE DEF Onward, Ahead, Joining
    <3> QED BY <2>3, <2>6, <3>1, <3>2, <3>3 DEF Reported
  <2> QED BY <2>4, <2>5, <2>8 DEF Settling
<1>4. ASSUME NEW s \in Slot, OpenPanel(t, s)
      PROVE  Settling(Job)'
  <2>1. /\ Job' = [Job EXCEPT !.at = "open", !.screen = None] /\ Top(t) = Job
        /\ Job \in FrameType /\ Job.op \in {"start", "apply"} /\ Job.at = "init"
    BY <1>4, JobOpenPanel
  <2>2. Job'.op = Job.op /\ Job'.at = "open" /\ Job'.screens = Job.screens
    BY <2>1 DEF FrameType
  <2>3. UNCHANGED <<config, unavailable, held>> /\ slots' = slots \cup {s} /\ Opened(t, s)
    BY <1>4 DEF OpenPanel
  <2>4. /\ screen'[s] = Job.screen /\ s \notin slots
        /\ \A o \in Slot \ {s} : screen'[o] = screen[o]
    BY <2>1, <2>3, OpenedIs DEF Called, Vacant
  <2>5. \A o \in slots : o \in Slot /\ o # s /\ screen'[o] = screen[o]
    BY <2>4 DEF Called, Typed, Values
  <2>6. Freed(Job)'
    BY <2>1, <2>2, <2>3 DEF Settling, Freed
  <2>7. Staffed(Job)'
    BY <2>1, <2>2 DEF Staffed, Awaits
  <2>8. Onward(Job)' = slots' /\ Onward(Job) = slots /\ ~Joining(Job)' /\ ~Joining(Job)
    BY <2>1, <2>2 DEF Onward, Joining
  <2>9. Ahead(Job)' = Job.screens /\ Ahead(Job) = Job.screens \cup {Job.screen}
    BY <2>1, <2>2 DEF Ahead, Brings
  <2>10. Reported(Job)'
    <3> SUFFICES ASSUME Up, Up'
                 PROVE  Reported(Job)'
      BY DEF Reported
    <3>1. \A o \in slots' : screen'[o] \notin unavailable
      BY <2>3, <2>4, <2>5, <2>8, <2>9 DEF Settling, Reported
    <3>2. ASSUME NEW y \in config.screens
          PROVE  y \in Job.screens \/ (\E o \in slots' : screen'[o] = y) \/ y \in unavailable
      BY <2>3, <2>4, <2>5, <2>8, <2>9 DEF Settling, Reported
    <3>3. Ahead(Job)' \cap unavailable = {}
      BY <2>8, <2>9 DEF Settling, Reported
    <3> HIDE DEF Onward, Ahead, Joining
    <3> QED BY <2>3, <2>8, <2>9, <3>1, <3>2, <3>3 DEF Reported
  <2> QED BY <2>6, <2>7, <2>10 DEF Settling
<1> QED BY <1>1, <1>2, <1>3, <1>4

LEMMA SettlingStarts ==
  ASSUME ~EarlyPush, Called, Panels, Placings(Job), Chips, Settling(Job), Typed', Up' => Up,
         NEW t \in Thread, \/ OpensDone(t) \/ RecordWorker(t) \/ DropSlot(t)
                           \/ \E s \in Slot : StartFails(t, s) \/ \E w \in Worker : StartWorker(t, s, w)
  PROVE  Settling(Job)'
<1> Stacks'
  BY DEF Typed
<1>1. CASE OpensDone(t)
  <2>1. /\ Job' = [Job EXCEPT !.at = "work", !.slots = slots] /\ Job.screens = {}
        /\ Job \in FrameType /\ Job.op \in {"start", "apply"} /\ Job.at = "open"
        /\ held' = (IF Job.op = "apply" THEN {} ELSE held)
    BY <1>1, JobOpensDone
  <2>2. Job'.op = Job.op /\ Job'.at = "work" /\ Job'.screens = Job.screens /\ Job'.slots = slots
    BY <2>1 DEF FrameType
  <2>3. UNCHANGED <<config, slots, unavailable, screen, worker>>
    BY <1>1 DEF OpensDone, slot
  <2>4. Freed(Job)'
    BY <2>1, <2>2 DEF Settling, Freed
  <2>5. \A s \in slots : Awaits(Job', s)
    BY <2>1, <2>2 DEF Awaits
  <2> QED BY <2>1, <2>2, <2>3, <2>4, <2>5, SettlingOn
<1>2. ASSUME NEW s \in Slot, NEW w \in Worker, StartWorker(t, s, w)
      PROVE  Settling(Job)'
  <2>1. /\ Job' = [Job EXCEPT !.at = "begun", !.slots = @ \ {s}, !.slot = s, !.worker = w]
        /\ Job \in FrameType /\ Job.op \in {"start", "apply"} /\ Job.at = "work"
    BY <1>2, JobStartWorker
  <2>2. /\ Job'.op = Job.op /\ Job'.at = "begun" /\ Job'.screens = Job.screens
        /\ Job'.slots = Job.slots \ {s} /\ Job'.slot = s
    BY <2>1 DEF FrameType
  <2>3. UNCHANGED <<config, slots, unavailable, screen, worker, held>>
    BY <1>2 DEF StartWorker, slot
  <2>4. Freed(Job)'
    BY <2>1, <2>2, <2>3 DEF Settling, Freed
  <2>5. \A o \in slots : Awaits(Job, o) => Awaits(Job', o)
    BY <2>1, <2>2 DEF Awaits
  <2> QED BY <2>1, <2>2, <2>3, <2>4, <2>5, SettlingOn
<1>3. ASSUME NEW s \in Slot, StartFails(t, s)
      PROVE  Settling(Job)'
  <2>1. /\ Job' = [Job EXCEPT !.at = "failed", !.slots = @ \ {s}, !.slot = s]
        /\ Job \in FrameType /\ Job.op \in {"start", "apply"} /\ Job.at = "work"
    BY <1>3, JobStartFails
  <2>2. /\ Job'.op = Job.op /\ Job'.at = "failed" /\ Job'.screens = Job.screens
        /\ Job'.slots = Job.slots \ {s} /\ Job'.slot = s
    BY <2>1 DEF FrameType
  <2>3. UNCHANGED <<config, slots, unavailable, screen, worker, held>>
    BY <1>3 DEF StartFails, slot
  <2>4. Freed(Job)'
    BY <2>1, <2>2, <2>3 DEF Settling, Freed
  <2>5. \A o \in slots : Awaits(Job, o) => Awaits(Job', o)
    BY <2>1, <2>2 DEF Awaits
  <2> QED BY <2>1, <2>2, <2>3, <2>4, <2>5, SettlingOn
<1>4. CASE RecordWorker(t)
  <2>1. /\ Job' = [Job EXCEPT !.at = "work", !.slot = None, !.worker = None]
        /\ Job \in FrameType /\ Job.op \in {"start", "apply"} /\ Job.at = "begun"
        /\ Job.slot \in Slot /\ Job.worker \in Worker
        /\ worker' = [worker EXCEPT ![Job.slot] = Job.worker]
    BY <1>4, JobRecordWorker
  <2>2. /\ Job'.op = Job.op /\ Job'.at = "work" /\ Job'.screens = Job.screens
        /\ Job'.slots = Job.slots
    BY <2>1 DEF FrameType
  <2>3. UNCHANGED <<config, slots, unavailable, screen, held>>
    BY <1>4 DEF RecordWorker
  <2>4. Freed(Job)'
    BY <2>1, <2>2, <2>3 DEF Settling, Freed
  <2>5. ASSUME NEW o \in slots, worker'[o] = None
        PROVE  worker[o] = None /\ (Awaits(Job, o) => Awaits(Job', o))
    <3>1. o # Job.slot /\ worker[o] = None
      BY <2>1, <2>5, Numbers DEF Called, Typed, Values
    <3> QED BY <2>1, <2>2, <3>1 DEF Awaits
  <2> QED BY <2>1, <2>2, <2>3, <2>4, <2>5, SettlingOn
<1>5. CASE DropSlot(t)
  <2>1. Job \in FrameType /\ Job.at = "failed" /\ Top(t) = Job /\ Job.slot \in Slot
    BY <1>5, JobDropSlot
  <2>2. /\ UNCHANGED <<config, screen, worker, held>> /\ slots' = slots \ {Job.slot}
        /\ unavailable' = unavailable \cup {screen[Job.slot]}
    BY <1>5, <2>1 DEF DropSlot
  <2>3. CASE Job.op = "start"
    <3>1. Job' = Idle /\ ~Looping'
      BY <1>5, <2>1, <2>3, JobDropSlot, SeesDropSlot DEF Steps
    <3>2. held' = {}
      BY <2>2, <2>3 DEF Settling, Freed
    <3>3. ~Up'
      BY <3>1 DEF Up
    <3>4. Freed(Job)'
      BY <3>1, <3>2, IdleIs DEF Freed
    <3> QED BY <3>3, <3>4 DEF Settling, Staffed, Reported
  <2>4. CASE Job.op # "start"
    <3>1. Job.op = "apply" /\ Job' = [Job EXCEPT !.at = "work", !.slot = None]
      BY <1>5, <2>4, JobDropSlot
    <3>2. Job'.op = "apply" /\ Job'.at = "work" /\ Job'.screens = Job.screens /\ Job'.slots = Job.slots
      BY <2>1, <3>1 DEF FrameType
    <3>3. Job = Work("link")
      BY <2>4, <3>1, OpsAre DEF Job
    <3>4. Job.slot \in slots /\ ~stopped
      BY <2>1, <3>1, <3>3 DEF Panels, LinkHas, Called, Locks
    <3>5. Freed(Job)'
      BY <2>1, <2>2, <3>1, <3>2 DEF Settling, Freed
    <3>6. \A o \in slots' : Awaits(Job, o) => Awaits(Job', o)
      BY <2>1, <2>2, <3>1, <3>2 DEF Awaits
    <3>7. Staffed(Job)'
      BY <2>2, <3>6, StaffedKeeps DEF Settling
    <3>8. Onward(Job)' = slots' /\ Onward(Job) = slots /\ ~Joining(Job)' /\ ~Joining(Job)
      BY <2>1, <3>2 DEF Onward, Joining
    <3>9. Ahead(Job)' = Ahead(Job)
      BY <2>1, <3>1, <3>2 DEF Ahead, Brings
    <3>10. Reported(Job)'
      <4> SUFFICES ASSUME Up, Up'
                   PROVE  Reported(Job)'
        BY DEF Reported
      <4>1. \A o \in slots' : o \in slots /\ screen[o] # screen[Job.slot]
        BY <2>2, <3>4, OneSlot
      <4>2. \A o \in slots' : screen[o] \notin unavailable'
        BY <2>2, <3>8, <4>1 DEF Settling, Reported
      <4>3. screen[Job.slot] \notin Ahead(Job)
        BY <3>4, <3>8 DEF Placings
      <4>4. Ahead(Job) \cap unavailable' = {}
        BY <2>2, <3>8, <4>3 DEF Settling, Reported
      <4>5. ASSUME NEW y \in config.screens
            PROVE  y \in Ahead(Job) \/ (\E o \in slots' : screen[o] = y) \/ y \in unavailable'
        <5>1. y \in Ahead(Job) \/ (\E o \in slots : screen[o] = y) \/ y \in unavailable
          BY <3>8 DEF Settling, Reported
        <5> QED BY <2>2, <5>1
      <4> HIDE DEF Onward, Ahead, Joining
      <4> QED BY <2>2, <3>8, <3>9, <4>2, <4>4, <4>5 DEF Reported
    <3> QED BY <3>5, <3>7, <3>10 DEF Settling
  <2> QED BY <2>3, <2>4
<1> QED BY <1>1, <1>2, <1>3, <1>4, <1>5

LEMMA SettlingMain ==
  ASSUME ~EarlyPush, Called, Panels, Settling(Job), Typed', Up' => Up, Main
  PROVE  Settling(Job)'
<1>1. UNCHANGED <<stopped, config, slots, unavailable, screen, held>>
  BY MainKeeps
<1>2. \A s \in slots : worker'[s] = None => worker[s] = None
  <2>1. CASE UNCHANGED worker
    BY <2>1
  <2>2. CASE RecordReplacement
    <3>1. In("main", {"tick"}, "begun") /\ "main" \in Thread
          /\ worker' = [worker EXCEPT ![Top("main").slot] = Top("main").worker]
      BY <2>2 DEF RecordReplacement, Thread
    <3>2. Top("main") = Work("main") /\ Work("main").at = "begun"
      <4>1. {"tick"} \subseteq {"start", "tick", "apply", "probe"}
        OBVIOUS
      <4> QED BY <3>1, <4>1, WorkIs DEF Called, Typed
    <3>3. Work("main").worker \in Worker
      BY <3>1, <3>2, WorkOld DEF Called, FrameOK
    <3> QED BY <3>1, <3>2, <3>3, Numbers DEF Called, Typed, Values
  <2> QED BY <2>1, <2>2, MainKeeps
<1>3. CASE Job' = Job
  <2>1. Joining(Job) => Job = Work("link")
    BY OpsAre DEF Job, Joining
  <2>2. Joining(Job) => Job.kept \subseteq slots
    BY <2>1 DEF Joining, Panels, LinkHas
  <2> QED BY <1>1, <1>2, <1>3, <2>2, SettlingStays
<1>4. CASE StartReturns
  <2>1. Job.op = "start" /\ Job' = Idle /\ (stopped \/ (Job.at = "work" /\ Job.slots = {}))
    BY <1>4, JobMain, IdleIs
  <2>2. held' = {}
    BY <1>1, <2>1 DEF Settling, Freed
  <2>3. CASE stopped
    <3>1. ~Up'
      BY <1>1, <2>3 DEF Up
    <3>2. Freed(Job)'
      BY <2>1, <2>2, IdleIs DEF Freed
    <3> QED BY <3>1, <3>2 DEF Settling, Staffed, Reported
  <2>4. CASE Job.at = "work" /\ Job.slots = {}
    <3>1. Job.screens = {}
      BY <2>1, <2>4 DEF Settling, Freed
    <3>2. Ahead(Job) = {} /\ ~Joining(Job) /\ \A s \in slots : ~Awaits(Job, s)
      BY <2>1, <2>4, <3>1 DEF Ahead, Brings, Joining, Awaits
    <3> QED BY <1>1, <1>2, <2>1, <2>2, <3>2, SettlingEnds
  <2> QED BY <2>1, <2>3, <2>4
<1> QED BY <1>3, <1>4, JobMain

LEMMA SettlingEnterApply ==
  ASSUME ~EarlyPush, Called, Panels, Settling(Job), Typed', Up' => Up, EnterApply
  PROVE  Settling(Job)'
<1> Stacks'
  BY DEF Typed
<1> DEFINE K == Keeps(Job.screens)
<1>1. /\ Job.op = "apply" /\ Job.at = "enter"
      /\ UNCHANGED <<stopped, slots, unavailable, screen, worker, held>>
  BY JobEnterApply DEF EnterApply
<1>2. held' = {}
  BY <1>1 DEF Settling, Freed
<1>3. CASE stopped
  <2>1. Job' = Idle /\ ~Up'
    BY <1>1, <1>3, JobEnterApply DEF Up
  <2>2. Freed(Job)'
    BY <1>2, <2>1, IdleIs DEF Freed
  <2> QED BY <2>1, <2>2 DEF Settling, Staffed, Reported
<1>4. CASE ~stopped
  <2>1. config'.screens = Job.screens /\ K \subseteq slots
    BY <1>4, JobEnterApply DEF Keeps
  <2>2. Onward(Job) = slots /\ ~Joining(Job) /\ \A s \in slots : ~Awaits(Job, s)
    BY <1>1 DEF Onward, Joining, Awaits
  <2>3. Staffed(Job)'
    BY <1>1, <2>2, StaffedKeeps DEF Settling
  <2>4. Up' => \A s \in slots : screen'[s] \notin unavailable'
    BY <1>1, <2>2 DEF Settling, Reported
  <2>5. CASE Job' = Idle /\ slots = K /\ Job.screens \subseteq {screen[s] : s \in slots}
    <3>1. Freed(Job)'
      BY <1>2, <2>5, IdleIs DEF Freed
    <3>2. Onward(Job)' = slots' /\ Ahead(Job)' = {}
      BY <2>5, IdleIs DEF Onward, Ahead, Brings
    <3>3. \A x \in config'.screens : \E s \in slots' : screen'[s] = x
      BY <1>1, <2>1, <2>5
    <3> HIDE DEF Onward, Ahead, Joining, K
    <3>4. Reported(Job)'
      BY <1>1, <2>4, <3>2, <3>3 DEF Reported
    <3> QED BY <2>3, <3>1, <3>4 DEF Settling
  <2>6. CASE /\ Job'.op = "apply" /\ Job'.at = "join" /\ Job'.kept = K
             /\ Job'.screens = Job.screens \ {screen[s] : s \in K}
    <3>1. Freed(Job)'
      BY <1>2, <2>6 DEF Freed
    <3>2. Onward(Job)' = K /\ Ahead(Job)' = Job'.screens /\ Joining(Job)'
      BY <2>6 DEF Onward, Ahead, Brings, Joining
    <3>3. ASSUME NEW x \in config'.screens
          PROVE  x \in Job'.screens \/ (\E s \in K : screen'[s] = x)
      BY <1>1, <2>1, <2>6
    <3> HIDE DEF Onward, Ahead, Joining, K
    <3>4. Reported(Job)'
      BY <1>1, <2>1, <2>4, <3>2, <3>3 DEF Reported
    <3> QED BY <2>3, <3>1, <3>4 DEF Settling
  <2> QED BY <1>4, <2>5, <2>6, JobEnterApply
<1> QED BY <1>3, <1>4

LEMMA SettlingJoinRetired ==
  ASSUME ~EarlyPush, Called, Panels, Placings(Job), Settling(Job), Typed', Up' => Up, JoinRetired
  PROVE  Settling(Job)'
<1> Stacks'
  BY DEF Typed
<1>1. /\ Job' = [Job EXCEPT !.at = "pause", !.slots = HasWorker(Job.kept)]
      /\ Job \in FrameType /\ Job.op = "apply" /\ Job.at = "join"
      /\ slots' = Job.kept /\ unavailable' = {} /\ Job = Work("link")
      /\ UNCHANGED <<config, screen, worker, held>>
  BY JobJoinRetired DEF JoinRetired, slot
<1>2. Job'.op = "apply" /\ Job'.at = "pause" /\ Job'.screens = Job.screens
  BY <1>1 DEF FrameType
<1>3. slots' \subseteq slots
  BY <1>1 DEF Panels, LinkHas
<1>4. held' = {} /\ Freed(Job)'
  BY <1>1, <1>2 DEF Settling, Freed
<1>5. \A s \in slots : ~Awaits(Job, s)
  BY <1>1 DEF Awaits
<1>6. Staffed(Job)'
  BY <1>1, <1>3, <1>5, StaffedKeeps DEF Settling
<1>7. /\ Onward(Job)' = slots' /\ Onward(Job) = slots' /\ Ahead(Job)' = Ahead(Job)
      /\ ~Joining(Job)' /\ Joining(Job)
  BY <1>1, <1>2 DEF Onward, Ahead, Brings, Joining
<1>8. Reported(Job)'
  <2> SUFFICES ASSUME Up', Up
               PROVE  Reported(Job)'
    BY DEF Reported
  <2>1. \A x \in config.screens : x \in Ahead(Job) \/ (\E s \in slots' : screen[s] = x)
    BY <1>7 DEF Settling, Reported
  <2> HIDE DEF Onward, Ahead, Joining
  <2> QED BY <1>1, <1>7, <2>1 DEF Reported
<1> QED BY <1>4, <1>6, <1>8 DEF Settling

LEMMA SettlingLink ==
  ASSUME ~EarlyPush, Called, Panels, Placings(Job), Settling(Job), Typed', Up' => Up, Link
  PROVE  Settling(Job)'
<1> Stacks'
  BY DEF Typed
<1>1. ASSUME Job.op = "probe", Job' = Idle, held' = {},
             UNCHANGED <<config, slots, unavailable, screen, worker>>
      PROVE  Settling(Job)'
  <2>1. Ahead(Job) = {} /\ ~Joining(Job) /\ \A s \in slots : ~Awaits(Job, s)
    BY <1>1 DEF Ahead, Brings, Joining, Awaits
  <2> QED BY <1>1, <2>1, SettlingEnds
<1>2. ASSUME NEW s \in Slot, Pause(s) \/ PauseFails(s)
      PROVE  Settling(Job)'
  <2>1. /\ UNCHANGED <<config, slots, unavailable, screen, worker>> /\ Job \in FrameType
        /\ Job.at = "pause" /\ Job.op \in {"apply", "probe"}
    BY <1>2, JobPause DEF Pause, PauseFails, slot
  <2>2. Job'.op = Job.op /\ Job'.at = "pause" /\ Job'.screens = Job.screens
    <3>1. CASE Job' = [Job EXCEPT !.slots = @ \ {s}]
      BY <2>1, <3>1 DEF FrameType
    <3>2. CASE Job' = [Job EXCEPT !.slots = @ \ {s}, !.buses = @ \cup {BusOf(screen[s])}]
      BY <2>1, <3>2 DEF FrameType
    <3> QED BY <1>2, <3>1, <3>2, JobPause
  <2>3. Freed(Job)'
    BY <2>1, <2>2 DEF Freed
  <2>4. \A o \in slots : ~Awaits(Job, o)
    BY <2>1 DEF Awaits
  <2> QED BY <2>1, <2>2, <2>3, <2>4, SettlingOn
<1>3. CASE BlankRetired
  <2>1. /\ Job' = [Job EXCEPT !.at = "open", !.retired = {}] /\ Job \in FrameType
        /\ Job.op = "apply" /\ Job.at = "pause"
        /\ UNCHANGED <<config, slots, unavailable, screen, worker, held>>
    BY <1>3, JobBlankRetired DEF BlankRetired
  <2>2. Job'.op = "apply" /\ Job'.at = "open" /\ Job'.screens = Job.screens
    BY <2>1 DEF FrameType
  <2>3. Freed(Job)' /\ \A o \in slots : ~Awaits(Job, o)
    BY <2>1, <2>2 DEF Freed, Awaits
  <2> QED BY <2>1, <2>2, <2>3, SettlingOn
<1>4. CASE ApplyReturns
  <2>1. /\ Job' = Idle /\ Job.op = "apply" /\ Job.at = "work"
        /\ \A s \in Job.slots : worker[s] # None
        /\ config' = IF \A s \in slots : issue[s] = config.issue THEN config ELSE Job.before
        /\ UNCHANGED <<slots, unavailable, screen, worker, held>>
    BY <1>4, JobApplyReturns DEF ApplyReturns, slot
  <2>2. UNCHANGED config
    BY <2>1 DEF Placings, Onward
  <2>3. held' = {} /\ Job.screens = {}
    BY <2>1 DEF Settling, Freed
  <2>4. Ahead(Job) = {} /\ ~Joining(Job)
    BY <2>1, <2>3 DEF Ahead, Brings, Joining
  <2>5. \A s \in slots : worker[s] = None => ~Awaits(Job, s)
    BY <2>1 DEF Awaits
  <2> QED BY <2>1, <2>2, <2>3, <2>4, <2>5, SettlingEnds
<1>5. CASE EnterProbe
  <2>1. /\ Job \in FrameType /\ Job.op = "probe" /\ Job.at = "enter"
        /\ UNCHANGED <<config, slots, unavailable, screen, worker, held>>
    BY <1>5, JobEnterProbe DEF EnterProbe, slot
  <2>2. held' = {}
    BY <2>1 DEF Settling, Freed
  <2>3. CASE Job' = Idle
    BY <1>1, <2>1, <2>2, <2>3
  <2>4. CASE Job' = [Job EXCEPT !.at = "pause", !.slots = HasWorker(slots)]
    <3>1. Job'.op = "probe" /\ Job'.at = "pause"
      BY <2>1, <2>4 DEF FrameType
    <3>2. Freed(Job)' /\ \A s \in slots : ~Awaits(Job, s)
      BY <2>1, <2>2, <3>1 DEF Freed, Awaits
    <3>3. Staffed(Job)'
      BY <2>1, <3>2, StaffedKeeps DEF Settling
    <3>4. /\ Onward(Job)' = Onward(Job) /\ Ahead(Job)' = Ahead(Job)
          /\ (Joining(Job)' <=> Joining(Job))
      BY <2>1, <3>1 DEF Onward, Ahead, Brings, Joining
    <3> QED BY <2>1, <3>2, <3>3, <3>4, ReportedKeeps DEF Settling
  <2> QED BY <1>5, <2>3, <2>4, JobEnterProbe
<1>6. CASE ProbePaused
  <2>1. /\ Job \in FrameType /\ Job.op = "probe" /\ Job.at = "pause"
        /\ UNCHANGED <<config, slots, unavailable, screen, worker>>
    BY <1>6, JobProbePaused DEF ProbePaused, slot
  <2>2. CASE Job' = Idle /\ held' = {}
    BY <1>1, <2>1, <2>2
  <2>3. CASE Job' = [Job EXCEPT !.at = "open"] /\ UNCHANGED held
    <3>1. Job'.op = "probe" /\ Job'.at = "open" /\ Job'.screens = Job.screens
      BY <2>1, <2>3 DEF FrameType
    <3>2. Freed(Job)' /\ \A s \in slots : ~Awaits(Job, s)
      BY <2>1, <3>1 DEF Freed, Awaits
    <3> QED BY <2>1, <3>1, <3>2, SettlingOn
  <2> QED BY <1>6, <2>2, <2>3, JobProbePaused
<1>7. CASE ProbeReturns
  <2>1. /\ Job' = Idle /\ Job.op = "probe" /\ held' = {}
        /\ UNCHANGED <<config, slots, unavailable, screen, worker>>
    BY <1>7, JobProbeReturns DEF ProbeReturns
  <2> QED BY <1>1, <2>1
<1>8. ASSUME NEW s \in Slot, ProbeLights(s)
      PROVE  Settling(Job)'
  <2>1. /\ Job' = [Job EXCEPT !.at = "lit", !.slot = s] /\ Job \in FrameType
        /\ Job.op = "probe" /\ Job.at = "init"
    BY <1>8, JobProbeLights
  <2>2. Job'.op = "probe" /\ Job'.at = "lit"
    BY <2>1 DEF FrameType
  <2>3. /\ UNCHANGED <<config, slots, unavailable, held>> /\ Opened("link", s) /\ "link" \in Thread
    BY <1>8 DEF ProbeLights, Thread
  <2>4. /\ \A o \in Slot \ {s} : screen'[o] = screen[o] /\ worker'[o] = worker[o]
        /\ s \notin slots
    BY <2>3, OpenedIs DEF Called, Vacant
  <2>5. \A o \in slots : screen'[o] = screen[o] /\ worker'[o] = worker[o] /\ ~Awaits(Job, o)
    BY <2>1, <2>4 DEF Called, Typed, Values, Awaits
  <2>6. Freed(Job)'
    BY <2>1, <2>2 DEF Freed
  <2>7. Staffed(Job)'
    BY <2>3, <2>5, StaffedKeeps DEF Settling
  <2>8. /\ Onward(Job)' = Onward(Job) /\ Onward(Job) = slots /\ Ahead(Job)' = Ahead(Job)
        /\ (Joining(Job)' <=> Joining(Job))
    BY <2>1, <2>2, <2>3 DEF Onward, Ahead, Brings, Joining
  <2>9. Reported(Job)'
    BY <2>3, <2>5, <2>8, ReportedKeeps DEF Settling
  <2> QED BY <2>6, <2>7, <2>9 DEF Settling
<1> QED BY <1>2, <1>3, <1>4, <1>5, <1>6, <1>7, <1>8, SettlingEnterApply, SettlingJoinRetired DEF Link

LEMMA SettlingStep ==
  ASSUME ~EarlyPush, Called, Panels, Placings(Job), Chips, Settling(Job), Next
  PROVE  Settling(Job)'
<1>1. Typed' /\ (Up' => Up)
  BY TypeStep, UpStep DEF Called
<1>2. ASSUME Job' = Job, UNCHANGED <<config, slots, unavailable, screen, worker, held>>
      PROVE  Settling(Job)'
  <2>1. Joining(Job) => Job = Work("link")
    BY OpsAre DEF Job, Joining
  <2>2. Joining(Job) => Job.kept \subseteq slots
    BY <2>1 DEF Joining, Panels, LinkHas
  <2> QED BY <1>1, <1>2, <2>2, SettlingStays
<1>3. ASSUME NEW w \in Worker, Drawing(w)
      PROVE  Settling(Job)'
  BY <1>2, <1>3, JobDrawing DEF slot
<1>4. ASSUME NEW t \in Thread, Stopping(t)
      PROVE  Settling(Job)'
  BY <1>1, <1>2, <1>4, JobStopping
<1>5. CASE Calls
  <2>1. UNCHANGED <<config, slots, unavailable, screen, worker, held>>
    BY <1>1, <1>5, JobCalls DEF slot
  <2>2. CASE Job = Idle /\ Job'.op \in {"apply", "probe"} /\ Job'.at = "enter"
    <3>1. /\ Onward(Job)' = Onward(Job) /\ Ahead(Job)' = Ahead(Job)
          /\ (Joining(Job)' <=> Joining(Job)) /\ \A s \in slots : ~Awaits(Job, s)
      BY <2>1, <2>2, IdleIs DEF Onward, Ahead, Brings, Joining, Awaits
    <3>2. Freed(Job)'
      BY <2>1, <2>2, IdleIs DEF Settling, Freed
    <3>3. Staffed(Job)'
      BY <1>1, <2>1, <3>1, StaffedKeeps DEF Settling
    <3>4. Reported(Job)'
      BY <1>1, <2>1, <3>1, ReportedKeeps DEF Settling
    <3> QED BY <3>2, <3>3, <3>4 DEF Settling
  <2> QED BY <1>1, <1>2, <1>5, <2>1, <2>2, JobCalls
<1>6. ASSUME NEW t \in Thread, Opening(t)
      PROVE  Settling(Job)'
  BY <1>1, <1>6, SettlingOpens, SettlingStarts DEF Opening
<1>7. CASE Main
  BY <1>1, <1>7, SettlingMain
<1>8. CASE Link
  BY <1>1, <1>8, SettlingLink
<1> QED BY <1>3, <1>4, <1>5, <1>6, <1>7, <1>8 DEF Next

LEMMA SettlingInit ==
  ASSUME Init
  PROVE  Settling(Job)
<1>1. Job.op = "start" /\ Job.at = "open" /\ Job.screens = config.screens
  BY PlacingsInit
<1>2. slots = {} /\ unavailable = {} /\ held = {}
  BY DEF Init
<1>3. Freed(Job) /\ Staffed(Job)
  BY <1>1, <1>2 DEF Freed, Staffed
<1>4. Onward(Job) = {} /\ Ahead(Job) = config.screens /\ ~Joining(Job)
  BY <1>1, <1>2 DEF Onward, Ahead, Brings, Joining
<1> HIDE DEF Onward, Ahead, Joining
<1>5. Reported(Job)
  BY <1>2, <1>4 DEF Reported
<1> QED BY <1>3, <1>5 DEF Settling

\* Between calls nobody is in one, and the loop goes on.
LEMMA SettledIs ==
  ASSUME Called, Settled
  PROVE  Job = Idle /\ Up
<1>1. Work("link") = Idle
  <2>1. Depth("link") = 0
    BY DEF Settled, Depth
  <2> QED BY <2>1 DEF Work
<1>2. /\ Depth("main") \in Nat /\ Depth("main") >= 1 /\ Top("main") = Fr("main", Depth("main"))
      /\ Depth("main") \in Levels("main") /\ Top("main").op = "run" /\ Top("main").at = "loop"
  <2>1. In("main", {"run"}, "loop") /\ "main" \in Thread
    BY DEF Settled, In, Thread
  <2> QED BY <2>1, InIs DEF Called, Typed, Levels
<1>3. Depth("main") = 1
  <2>1. ~(Depth("main") >= 3)
    BY <1>2 DEF Called, MainShape
  <2>2. Depth("main") # 2
    BY <1>2 DEF Called, MainShape, MainCall
  <2> QED BY <1>2, <2>1, <2>2
<1>4. Work("main") = Idle /\ Looping
  BY <1>2, <1>3 DEF Work, Looping
<1>5. ~stopped
  BY DEF Settled
<1> QED BY <1>1, <1>4, <1>5 DEF Job, Up

\* Between calls every slot shows a screen of the configuration and has a worker,
\* every screen of the configuration has one slot or is reported unavailable,
\* and no worker is held, whatever was refused, would not open or wedged before.
THEOREM CoherentHolds ==
  ASSUME ~EarlyPush
  PROVE  Spec => []Coherent
<1> DEFINE I == Arranged /\ Settling(Job)
<1>1. Init => I
  BY InitIs, PlacingsInit, SettlingInit DEF Arranged
<1>2. I /\ [Next]_vars => I'
  <2>1. ASSUME I, Next
        PROVE  I'
    BY <2>1, CalledStep, PanelsStep, PlacingsStep, ChipsStep, SettlingStep DEF Arranged
  <2>2. ASSUME I, UNCHANGED vars
        PROVE  I'
    <3>1. UNCHANGED <<config, slots, unavailable, screen, worker, held>> /\ (Up' => Up)
      BY <2>2 DEF vars, slot, Up, Looping, Depth, Fr
    <3>2. Arranged' /\ Job' = Job
      BY <2>2, ArrangedStays
    <3>3. Joining(Job) => Job.kept \subseteq slots
      <4>1. Joining(Job) => Job = Work("link")
        BY <2>2, OpsAre DEF Arranged, Job, Joining
      <4> QED BY <2>2, <4>1 DEF Arranged, Joining, Panels, LinkHas
    <3>4. Settling(Job)'
      BY <2>2, <3>1, <3>2, <3>3, SettlingStays
    <3> QED BY <3>2, <3>4
  <2> QED BY <2>1, <2>2
<1>3. I => Coherent
  <2> SUFFICES ASSUME I, Settled
               PROVE  /\ \A s \in slots : screen[s] \in config.screens /\ worker[s] # None
                      /\ \A x \in config.screens :
                           Cardinality(Shows(x)) = IF x \in unavailable THEN 0 ELSE 1
                      /\ held = {}
    BY DEF Coherent
  <2>1. Job = Idle /\ Up /\ ~stopped
    BY SettledIs DEF Arranged, Up
  <2>2. Onward(Job) = slots /\ Ahead(Job) = {} /\ ~Joining(Job) /\ \A s \in slots : ~Awaits(Job, s)
    BY <2>1, IdleIs DEF Onward, Ahead, Brings, Joining, Awaits
  <2>3. \A s \in slots : screen[s] \in config.screens /\ worker[s] # None
    BY <2>1, <2>2 DEF Arranged, Placings, Settling, Staffed
  <2>4. ASSUME NEW x \in config.screens
        PROVE  Cardinality(Shows(x)) = IF x \in unavailable THEN 0 ELSE 1
    <3>1. CASE x \in unavailable
      <4>1. \A s \in slots : screen[s] # x
        BY <2>1, <2>2, <3>1 DEF Settling, Reported
      <4>2. Shows(x) = {}
        BY <4>1 DEF Shows
      <4> QED BY <3>1, <4>2, FS_EmptySet
    <3>2. CASE x \notin unavailable
      <4>1. PICK s \in slots : screen[s] = x
        BY <2>1, <2>2, <3>2 DEF Settling, Reported
      <4>2. Shows(x) = {s}
        BY <2>1, <4>1, OneSlot DEF Arranged, Shows
      <4> QED BY <3>2, <4>2, FS_Singleton
    <3> QED BY <3>1, <3>2
  <2>5. held = {}
    BY <2>1, IdleIs DEF Settling, Freed
  <2> QED BY <2>3, <2>4, <2>5
<1> QED BY <1>1, <1>2, <1>3, PTL DEF Spec

=============================================================================
