----------------------- MODULE WorkflowRunCallbackProofs -----------------------
(***************************************************************************)
(* What a run asks for.  A step is requested at most as often in one visit *)
(* as its retry policy allows, however many publications fail; every       *)
(* durable callback that is scheduled between two envelopes is one the     *)
(* kernel holds the lease of; and a timeout the kernel acts on was         *)
(* scheduled for the attempt under way.  All of it for every workflow with *)
(* any timeouts, policies and backoffs.                                    *)
(*                                                                         *)
(* The attempts are a budget: the requests made for the current step, the  *)
(* one a pending dispatch owes and the one a waiting backoff owes are at   *)
(* most one more than the retries counted (Within).  A handler may leave   *)
(* that for a while; BudgetTodo says that it is settled again before the   *)
(* next request, so that a publication may fail at each of them.           *)
(*                                                                         *)
(* Between two envelopes the kernel state is Settled: no dispatch is       *)
(* pending, only the current step of an active run has a timeout or a      *)
(* backoff, and what is scheduled is that.  A handler leaves this state    *)
(* and comes back to it.  Promised says how much of the way is left:       *)
(* nothing that matters (Resting), a last save of a state that is in       *)
(* order (Landing), or before that one new callback that this state will   *)
(* own (Scheduling); whatever it will not own is among the leases still to *)
(* be cancelled (Held).  Each handler is shown to begin with a promise,    *)
(* and each effect to keep it.                                             *)
(*                                                                         *)
(* A callback's id is made from the envelope at work.  Ident says that no  *)
(* two envelopes have one id, so no callback replaces another, every one   *)
(* is of generation 1, and an id tells the attempts of a step apart.       *)
(***************************************************************************)
EXTENDS WorkflowRunProofs

USE DEF control

-----------------------------------------------------------------------------
(* Attempts: what a saved state and the rest of a handler may ask for      *)

\* A backoff that has not fired, or whose redispatch has not begun.
Waits(k, s) == k.backoffs[s] # NoBackoff /\ ~k.backoffs[s].dispatching

\* Requests the state has announced for its step and not made.
Owed(k) == (IF k.pending THEN 1 ELSE 0) + (IF Waits(k, k.step) THEN 1 ELSE 0)

\* Only the current step may have a backoff, and the requests made and owed for
\* it are at most one more than the retries counted.
Within(k, t) ==
    k.active /\ k.step \in Steps =>
        /\ \A s \in Steps \ {k.step} : k.backoffs[s] = NoBackoff
        /\ t[k.step] + Owed(k) <= k.retries[k.step] + 1

Ready(k, s, t) == Within(k, t) /\ k.active /\ k.pending /\ k.step = s

Reset(t, S) == [s \in Steps |-> IF s \in S THEN 0 ELSE t[s]]
More(t, s) == [t EXCEPT ![s] = @ + 1]

\* Effects that ask for nothing and begin no visit; those before a request; those
\* of a handler that makes none any more.
QuietEffect == {e \in SaveEffect : e.enters = {}} \cup ArmEffect \cup CancelEffect
AskEffect(s, t) == {e \in SaveEffect : e.enters = {} /\ Ready(e.k, s, t)} \cup ArmEffect
AgentEffects == PersistEffect \cup DisableEffect \cup OpenEffect
CalmEffect(t) ==
    {e \in SaveEffect : e.enters = {} /\ Within(e.k, t)} \cup ArmEffect \cup CancelEffect
        \cup AgainEffect \cup CompletionEffect \cup EndEffect \cup AgentEffects
AnyEffect == KernelEffect \cup AgentEffects

\* The state saved last is within its budget, or the handler is about to save
\* one that is.  A request is followed by the save of the state it leaves.
Asking(q, s, t) ==
    \E a \in Seq(AskEffect(s, t)), r \in RequestEffect, y \in Seq(CalmEffect(More(t, s))) :
        /\ r.step = s
        /\ y # <<>> /\ Head(y).do = "save"
        /\ q = a \o (<<r>> \o y)
Stage(q, k, t) ==
    \/ Within(k, t) /\ q \in Seq(CalmEffect(t))
    \/ \E s \in Steps : Ready(k, s, t) /\ Asking(q, s, t)
Settling(q, t) ==
    \E p \in Seq(QuietEffect), e \in SaveEffect :
        \E z : Stage(z, e.k, Reset(t, e.enters)) /\ q = p \o (<<e>> \o z)
BudgetTodo(q, k, t) == Stage(q, k, t) \/ Settling(q, t)

LEMMA EffectKinds ==
    ASSUME NEW s, NEW t
    PROVE  /\ Seq(QuietEffect) \subseteq Seq(AnyEffect) /\ Seq(CalmEffect(t)) \subseteq Seq(AnyEffect)
           /\ Seq(AskEffect(s, t)) \subseteq Seq(QuietEffect)
           /\ RequestEffect \subseteq AnyEffect /\ SaveEffect \subseteq AnyEffect
<1>1. /\ QuietEffect \subseteq AnyEffect /\ CalmEffect(t) \subseteq AnyEffect
      /\ AskEffect(s, t) \subseteq QuietEffect
      /\ RequestEffect \subseteq AnyEffect /\ SaveEffect \subseteq AnyEffect
  BY DEF QuietEffect, CalmEffect, AskEffect, AnyEffect, KernelEffect, WorkEffect, AgentEffects
<1>2. \A S, T : S \subseteq T => Seq(S) \subseteq Seq(T)
  OBVIOUS
<1> QED BY <1>1, <1>2

LEMMA KindsApart ==
    /\ \A e \in SaveEffect : e.do = "save" /\ e.k \in KernelState /\ e.enters \subseteq Steps
    /\ \A e \in RequestEffect : e.do = "request" /\ e.step \in Steps
    /\ \A e \in ArmEffect : e.do = "arm"
    /\ \A e \in CancelEffect : e.do = "cancel"
    /\ \A e \in AgainEffect \cup CompletionEffect \cup EndEffect \cup AgentEffects :
           e.do \notin {"save", "request", "arm", "cancel"}
BY DEF SaveEffect, RequestEffect, ArmEffect, CancelEffect, AgainEffect, CompletionEffect,
       EndEffect, AgentEffects, PersistEffect, DisableEffect, OpenEffect

LEMMA TriesTyped ==
    ASSUME NEW t \in [Steps -> Nat], NEW s \in Steps, NEW S
    PROVE  /\ Reset(t, S) \in [Steps -> Nat] /\ More(t, s) \in [Steps -> Nat]
           /\ Reset(t, {}) = t
           /\ More(t, s)[s] = t[s] + 1
BY DEF Reset, More

LEMMA AskingTyped ==
    ASSUME NEW s \in Steps, NEW t, NEW q, Asking(q, s, t)
    PROVE  q \in Seq(AnyEffect) /\ q # <<>>
<1>1. PICK a \in Seq(AskEffect(s, t)), r \in RequestEffect, y \in Seq(CalmEffect(More(t, s))) :
          q = a \o (<<r>> \o y)
  BY DEF Asking
<1>2. a \in Seq(AnyEffect) /\ r \in AnyEffect /\ y \in Seq(AnyEffect)
  <2>1. /\ Seq(AskEffect(s, t)) \subseteq Seq(AnyEffect) /\ RequestEffect \subseteq AnyEffect
        /\ Seq(CalmEffect(More(t, s))) \subseteq Seq(AnyEffect)
    BY EffectKinds
  <2> QED BY <2>1
<1>3. <<r>> \o y \in Seq(AnyEffect) /\ <<r>> \o y # <<>>
  BY <1>2, RangePrefixed
<1>4. a \o (<<r>> \o y) \in Seq(AnyEffect) /\ a \o (<<r>> \o y) # <<>>
  BY <1>2, <1>3
<1> QED BY <1>1, <1>4

LEMMA StageTyped ==
    ASSUME NEW k, NEW t, NEW q, Stage(q, k, t)
    PROVE  q \in Seq(AnyEffect)
<1>1. Seq(CalmEffect(t)) \subseteq Seq(AnyEffect)
  BY EffectKinds
<1> QED BY <1>1, AskingTyped DEF Stage

\* The rest of a handler once its next effect is performed.
LEMMA CalmStep ==
    ASSUME NEW t, NEW q \in Seq(CalmEffect(t)), q # <<>>
    PROVE  /\ Tail(q) \in Seq(CalmEffect(t))
           /\ Head(q).do # "request"
           /\ Head(q).do = "save" => /\ Head(q) \in SaveEffect /\ Head(q).enters = {}
                                     /\ Within(Head(q).k, t)
<1>1. Head(q) \in CalmEffect(t) /\ Tail(q) \in Seq(CalmEffect(t))
  BY RangeTaken
<1> QED BY <1>1, KindsApart DEF CalmEffect

LEMMA AskingStep ==
    ASSUME NEW t \in [Steps -> Nat], NEW s \in Steps, NEW q, Asking(q, s, t)
    PROVE  /\ Head(q) \in SaveEffect \cup ArmEffect \cup RequestEffect
           /\ Head(q).do = "save" =>
                  Head(q).enters = {} /\ Ready(Head(q).k, s, t) /\ Asking(Tail(q), s, t)
           /\ Head(q).do = "arm" => Asking(Tail(q), s, t)
           /\ Head(q).do = "request" => Head(q).step = s /\ Settling(Tail(q), More(t, s))
<1>1. PICK a \in Seq(AskEffect(s, t)), r \in RequestEffect, y \in Seq(CalmEffect(More(t, s))) :
          /\ r.step = s /\ y # <<>> /\ Head(y).do = "save"
          /\ q = a \o (<<r>> \o y)
  BY DEF Asking
<1> DEFINE c == <<r>> \o y
<1>2. a \in Seq(AnyEffect) /\ r \in AnyEffect /\ y \in Seq(AnyEffect)
  <2>1. /\ Seq(AskEffect(s, t)) \subseteq Seq(AnyEffect) /\ RequestEffect \subseteq AnyEffect
        /\ Seq(CalmEffect(More(t, s))) \subseteq Seq(AnyEffect)
    BY EffectKinds
  <2> QED BY <2>1
<1>3. c \in Seq(AnyEffect) /\ c # <<>> /\ Head(c) = r /\ Tail(c) = y
  BY <1>2, RangePrefixed
<1>4. q = a \o c
  BY <1>1
<1> HIDE DEF c
<1>5. CASE a = <<>>
  <2>1. q = c
    BY <1>3, <1>4, <1>5, ConcatEmptySeq
  <2>2. /\ Tail(y) \in Seq(CalmEffect(More(t, s)))
        /\ Head(y) \in SaveEffect /\ Head(y).enters = {} /\ Within(Head(y).k, More(t, s))
    BY <1>1, CalmStep
  <2>3. Reset(More(t, s), {}) = More(t, s)
    BY TriesTyped
  <2>4. Stage(Tail(y), Head(y).k, Reset(More(t, s), Head(y).enters))
    BY <2>2, <2>3 DEF Stage
  <2>5. y = <<>> \o (<<Head(y)>> \o Tail(y)) /\ <<>> \in Seq(QuietEffect)
    <3>1. y = <<Head(y)>> \o Tail(y)
      BY <1>1, RangeTaken
    <3>2. <<>> \o y = y
      BY ConcatEmptySeq
    <3> QED BY <3>1, <3>2
  <2>6. Settling(y, More(t, s))
    BY <2>2, <2>4, <2>5 DEF Settling
  <2> QED BY <1>1, <1>3, <2>1, <2>6, KindsApart
<1>6. CASE a # <<>>
  <2>1. Head(q) = Head(a) /\ Tail(q) = Tail(a) \o c
    BY <1>2, <1>3, <1>4, <1>6, JoinedTail
  <2>2. Head(a) \in AskEffect(s, t) /\ Tail(a) \in Seq(AskEffect(s, t))
    BY <1>6
  <2>3. Asking(Tail(q), s, t)
    BY <1>1, <2>1, <2>2 DEF Asking, c
  <2> QED BY <2>1, <2>2, <2>3, KindsApart DEF AskEffect
<1> QED BY <1>5, <1>6

LEMMA StageStep ==
    ASSUME NEW t \in [Steps -> Nat], NEW k, NEW q, q # <<>>, Stage(q, k, t)
    PROVE  /\ Head(q).do = "save" => /\ Head(q) \in SaveEffect /\ Head(q).enters = {}
                                     /\ Stage(Tail(q), Head(q).k, t)
           /\ Head(q).do = "request" =>
                  /\ Head(q).step \in Steps /\ Ready(k, Head(q).step, t)
                  /\ Settling(Tail(q), More(t, Head(q).step))
           /\ Head(q).do \notin {"save", "request"} => Stage(Tail(q), k, t)
           /\ Head(q).do \notin {"save", "request", "arm"} =>
                  Within(k, t) /\ Tail(q) \in Seq(CalmEffect(t))
<1>1. CASE Within(k, t) /\ q \in Seq(CalmEffect(t))
  BY <1>1, CalmStep DEF Stage
<1>2. ASSUME NEW s \in Steps, Ready(k, s, t), Asking(q, s, t)
      PROVE  /\ Head(q).do = "save" => /\ Head(q) \in SaveEffect /\ Head(q).enters = {}
                                       /\ Stage(Tail(q), Head(q).k, t)
             /\ Head(q).do = "request" =>
                    /\ Head(q).step \in Steps /\ Ready(k, Head(q).step, t)
                    /\ Settling(Tail(q), More(t, Head(q).step))
             /\ Head(q).do \notin {"save", "request"} => Stage(Tail(q), k, t)
             /\ Head(q).do \notin {"save", "request", "arm"} =>
                    Within(k, t) /\ Tail(q) \in Seq(CalmEffect(t))
  <2>1. /\ Head(q) \in SaveEffect \cup ArmEffect \cup RequestEffect
        /\ Head(q).do = "save" =>
                  Head(q).enters = {} /\ Ready(Head(q).k, s, t) /\ Asking(Tail(q), s, t)
        /\ Head(q).do = "arm" => Asking(Tail(q), s, t)
        /\ Head(q).do = "request" => Head(q).step = s /\ Settling(Tail(q), More(t, s))
    BY <1>2, AskingStep
  <2>2. Head(q).do = "save" => Head(q) \in SaveEffect
    BY <2>1, KindsApart
  <2>3. Head(q).do \in {"save", "arm", "request"}
    BY <2>1, KindsApart
  <2> QED BY <1>2, <2>1, <2>2, <2>3 DEF Stage, Ready
<1> QED BY <1>1, <1>2 DEF Stage

LEMMA SettlingStep ==
    ASSUME NEW t \in [Steps -> Nat], NEW q, Settling(q, t)
    PROVE  /\ q # <<>>
           /\ Head(q).do \in {"save", "arm", "cancel"}
           /\ Head(q).do = "save" =>
                  /\ Head(q) \in SaveEffect
                  /\ \/ Stage(Tail(q), Head(q).k, Reset(t, Head(q).enters))
                     \/ Head(q).enters = {} /\ Settling(Tail(q), t)
           /\ Head(q).do # "save" => Settling(Tail(q), t)
<1>1. PICK p \in Seq(QuietEffect), e \in SaveEffect :
          \E z : Stage(z, e.k, Reset(t, e.enters)) /\ q = p \o (<<e>> \o z)
  BY DEF Settling
<1>2. PICK z : Stage(z, e.k, Reset(t, e.enters)) /\ q = p \o (<<e>> \o z)
  BY <1>1
<1>3. z \in Seq(AnyEffect) /\ e \in AnyEffect /\ p \in Seq(AnyEffect)
  <2>1. Seq(QuietEffect) \subseteq Seq(AnyEffect) /\ SaveEffect \subseteq AnyEffect
    BY EffectKinds
  <2>2. z \in Seq(AnyEffect)
    BY <1>2, StageTyped
  <2> QED BY <2>1, <2>2
<1> DEFINE c == <<e>> \o z
<1>4. c \in Seq(AnyEffect) /\ c # <<>> /\ Head(c) = e /\ Tail(c) = z
  BY <1>3, RangePrefixed
<1>5. q = p \o c
  BY <1>2
<1> HIDE DEF c
<1>6. CASE p = <<>>
  <2>1. q = c
    BY <1>4, <1>5, <1>6, ConcatEmptySeq
  <2> QED BY <1>2, <1>4, <2>1, KindsApart
<1>7. CASE p # <<>>
  <2>1. q # <<>> /\ Head(q) = Head(p) /\ Tail(q) = Tail(p) \o c
    BY <1>3, <1>4, <1>5, <1>7, JoinedTail
  <2>2. Head(p) \in QuietEffect /\ Tail(p) \in Seq(QuietEffect)
    BY <1>7
  <2>3. Settling(Tail(q), t)
    BY <1>2, <2>1, <2>2 DEF Settling, c
  <2> QED BY <2>1, <2>2, <2>3, KindsApart DEF QuietEffect
<1> QED BY <1>6, <1>7

-----------------------------------------------------------------------------
(* The pieces of a handler and its budget                                  *)

LEMMA QuietPieces ==
    /\ \A k \in KernelState : Save(k) \in Seq(QuietEffect)
    /\ \A l \in LeaseType : Cancel(l) \in Seq(QuietEffect)
    /\ \A cb \in Due, n \in Nat : Arm(cb, n) \in Seq(QuietEffect)
    /\ <<>> \in Seq(QuietEffect)
<1>1. ASSUME NEW k \in KernelState PROVE Save(k) \in Seq(QuietEffect)
  <2>1. [do |-> "save", k |-> k, enters |-> {}] \in QuietEffect
    BY DEF QuietEffect, SaveEffect
  <2> QED BY <2>1 DEF Save
<1>2. ASSUME NEW l \in LeaseType PROVE Cancel(l) \in Seq(QuietEffect)
  <2>1. [do |-> "cancel", leases |-> {l}] \in QuietEffect
    BY DEF QuietEffect, CancelEffect
  <2> QED BY <2>1 DEF Cancel
<1>3. ASSUME NEW cb \in Due, NEW n \in Nat PROVE Arm(cb, n) \in Seq(QuietEffect)
  <2>1. [do |-> "arm", cb |-> cb, attempt |-> n] \in QuietEffect
    BY DEF QuietEffect, ArmEffect
  <2> QED BY <2>1 DEF Arm
<1> QED BY <1>1, <1>2, <1>3

LEMMA CalmPieces ==
    ASSUME NEW t
    PROVE  /\ \A k \in KernelState : Within(k, t) => Save(k) \in Seq(CalmEffect(t))
           /\ \A l \in LeaseType : Cancel(l) \in Seq(CalmEffect(t))
           /\ \A leases \in SUBSET LeaseType : CancelAll(leases) \in Seq(CalmEffect(t))
           /\ Again \in Seq(CalmEffect(t)) /\ <<>> \in Seq(CalmEffect(t))
<1>1. ASSUME NEW k \in KernelState, Within(k, t) PROVE Save(k) \in Seq(CalmEffect(t))
  <2>1. [do |-> "save", k |-> k, enters |-> {}] \in CalmEffect(t)
    BY <1>1 DEF CalmEffect, SaveEffect
  <2> QED BY <2>1 DEF Save
<1>2. \A leases \in SUBSET LeaseType : [do |-> "cancel", leases |-> leases] \in CalmEffect(t)
  BY DEF CalmEffect, CancelEffect
<1>3. ASSUME NEW l \in LeaseType PROVE Cancel(l) \in Seq(CalmEffect(t))
  <2>1. [do |-> "cancel", leases |-> {l}] \in CalmEffect(t)
    BY <1>2
  <2> QED BY <2>1 DEF Cancel
<1>4. ASSUME NEW leases \in SUBSET LeaseType PROVE CancelAll(leases) \in Seq(CalmEffect(t))
  BY <1>2 DEF CancelAll
<1>5. Again \in Seq(CalmEffect(t))
  <2>1. [do |-> "again"] \in CalmEffect(t)
    BY DEF CalmEffect, AgainEffect
  <2> QED BY <2>1 DEF Again
<1> QED BY <1>1, <1>3, <1>4, <1>5

LEMMA OutcomeCalm ==
    ASSUME NEW t, NEW result \in OutcomeKinds, NEW s \in Steps \cup {NoStep}
    PROVE  Outcome(result, s) \in Seq(CalmEffect(t))
<1>1. PICK m \in Envelope :
          /\ m.type = "runCompleted"
          /\ Outcome(result, s) = <<[do |-> "post", m |-> m], [do |-> "tell", m |-> m]>>
  BY OutcomeTyped
<1>2. [do |-> "post", m |-> m] \in CalmEffect(t) /\ [do |-> "tell", m |-> m] \in CalmEffect(t)
  BY <1>1 DEF CalmEffect, EndEffect
<1> QED BY <1>1, <1>2

\* A handler may begin with effects that ask for nothing.
LEMMA SettlingPrefixed ==
    ASSUME NEW t, NEW x \in Seq(QuietEffect), NEW q, Settling(q, t)
    PROVE  Settling(x \o q, t)
<1>1. PICK p \in Seq(QuietEffect), e \in SaveEffect :
          \E z : Stage(z, e.k, Reset(t, e.enters)) /\ q = p \o (<<e>> \o z)
  BY DEF Settling
<1>2. PICK z : Stage(z, e.k, Reset(t, e.enters)) /\ q = p \o (<<e>> \o z)
  BY <1>1
<1>3. z \in Seq(AnyEffect) /\ e \in AnyEffect /\ p \in Seq(AnyEffect) /\ x \in Seq(AnyEffect)
  <2>1. Seq(QuietEffect) \subseteq Seq(AnyEffect) /\ SaveEffect \subseteq AnyEffect
    BY EffectKinds
  <2>2. z \in Seq(AnyEffect)
    BY <1>2, StageTyped
  <2> QED BY <2>1, <2>2
<1> DEFINE c == <<e>> \o z
<1>4. c \in Seq(AnyEffect)
  BY <1>3, RangePrefixed
<1>5. q = p \o c
  BY <1>2
<1> HIDE DEF c
<1>6. x \o q = (x \o p) \o c
  <2>1. (x \o p) \o c = x \o (p \o c)
    BY <1>3, <1>4, ConcatAssociative
  <2> QED BY <1>5, <2>1
<1>7. x \o p \in Seq(QuietEffect)
  BY Joined
<1> QED BY <1>2, <1>6, <1>7 DEF Settling, c

\* The save with which the budget is kept again.
LEMMA SettlesWith ==
    ASSUME NEW t, NEW e \in SaveEffect, NEW z, Stage(z, e.k, Reset(t, e.enters))
    PROVE  Settling(<<e>> \o z, t)
<1>1. z \in Seq(AnyEffect) /\ e \in AnyEffect
  BY StageTyped, EffectKinds
<1>2. <<e>> \o z \in Seq(AnyEffect)
  BY <1>1, RangePrefixed
<1>3. <<e>> \o z = <<>> \o (<<e>> \o z)
  BY <1>2, ConcatEmptySeq
<1> QED BY <1>3, QuietPieces DEF Settling

LEMMA SaveSettles ==
    ASSUME NEW t \in [Steps -> Nat], NEW k \in KernelState, Within(k, t),
           NEW c \in Seq(CalmEffect(t))
    PROVE  Settling(Save(k) \o c, t)
<1> DEFINE e == [do |-> "save", k |-> k, enters |-> {}]
<1>1. e \in SaveEffect /\ e.k = k /\ e.enters = {} /\ Save(k) = <<e>>
  BY DEF SaveEffect, Save
<1> HIDE DEF e
<1>2. Reset(t, {}) = t
  BY DEF Reset
<1>3. Stage(c, e.k, Reset(t, e.enters))
  BY <1>1, <1>2 DEF Stage
<1> QED BY <1>1, <1>3, SettlesWith

\* A run that ends: the state is cleared before anything else.
LEMMA CleanupSettles ==
    ASSUME NEW t \in [Steps -> Nat], NEW k \in KernelState, NEW result \in OutcomeKinds,
           NEW s \in Steps \cup {NoStep}
    PROVE  Settling(Cleanup(k) \o Outcome(result, s), t) /\ Settling(Cleanup(k), t)
<1> DEFINE leases == ({k.timeouts[r] : r \in Steps} \cup {k.backoffs[r].lease : r \in Steps})
                     \ {NoLease}
           cancel == CancelAll(leases)
           o == Outcome(result, s)
<1>1. leases \in SUBSET LeaseType
  BY DEF KernelState, KernelType
<1>2. Cleanup(k) = Save(Idle) \o cancel
  BY DEF Cleanup, CancelAll
<1> HIDE DEF leases
<1>3. cancel \in Seq(CalmEffect(t)) /\ o \in Seq(CalmEffect(t))
  BY <1>1, CalmPieces, OutcomeCalm
<1>4. Idle \in KernelState /\ Within(Idle, t)
  BY IdleTyped DEF Within, Idle
<1>5. Save(Idle) \in Seq(CalmEffect(t))
  BY <1>4, CalmPieces
<1> HIDE DEF cancel, o
<1>6. cancel \o o \in Seq(CalmEffect(t)) /\ Cleanup(k) \o o = Save(Idle) \o (cancel \o o)
  BY <1>2, <1>3, <1>5, ConcatAssociative
<1>7. Settling(Save(Idle) \o (cancel \o o), t)
  BY <1>4, <1>6, SaveSettles
<1>8. Settling(Save(Idle) \o cancel, t)
  BY <1>3, <1>4, SaveSettles
<1> QED BY <1>2, <1>6, <1>7, <1>8 DEF o

\* A request with what comes before and after it.
LEMMA Asks ==
    ASSUME NEW t, NEW s \in Steps, NEW x \in Seq(AskEffect(s, t)), NEW r \in RequestEffect,
           r.step = s, NEW k \in KernelState, Within(k, More(t, s)),
           NEW c \in Seq(CalmEffect(More(t, s)))
    PROVE  /\ Asking(x \o <<r>> \o Save(k) \o c, s, t)
           /\ x \o <<r>> \o Save(k) \in Seq(AnyEffect) /\ c \in Seq(AnyEffect)
<1> DEFINE C == CalmEffect(More(t, s))
           e == [do |-> "save", k |-> k, enters |-> {}]
           y == <<e>> \o c
<1>1. e \in C /\ e.do = "save" /\ Save(k) = <<e>>
  BY DEF CalmEffect, SaveEffect, Save
<1> HIDE DEF e
<1>2. y \in Seq(C) /\ y # <<>> /\ Head(y) = e
  BY <1>1, RangePrefixed
<1>3. /\ x \in Seq(AnyEffect) /\ <<r>> \in Seq(AnyEffect) /\ <<e>> \in Seq(AnyEffect)
      /\ c \in Seq(AnyEffect)
  <2>1. /\ Seq(AskEffect(s, t)) \subseteq Seq(AnyEffect) /\ RequestEffect \subseteq AnyEffect
        /\ Seq(C) \subseteq Seq(AnyEffect)
    BY EffectKinds
  <2>2. <<e>> \in Seq(C) /\ c \in Seq(C)
    BY <1>1
  <2> HIDE DEF C
  <2>3. <<e>> \in Seq(AnyEffect) /\ c \in Seq(AnyEffect) /\ x \in Seq(AnyEffect)
    BY <2>1, <2>2
  <2>4. r \in AnyEffect
    BY <2>1
  <2> QED BY <2>3, <2>4
<1> HIDE DEF y
<1>4. x \o <<r>> \o <<e>> \o c = x \o (<<r>> \o y)
  <2>1. x \o <<r>> \in Seq(AnyEffect) /\ x \o <<r>> \o <<e>> \in Seq(AnyEffect)
    BY <1>3, Joined
  <2>2. x \o <<r>> \o <<e>> \o c = (x \o <<r>>) \o (<<e>> \o c)
    BY <1>3, <2>1, ConcatAssociative
  <2>3. <<e>> \o c \in Seq(AnyEffect)
    BY <1>3, Joined
  <2>4. (x \o <<r>>) \o (<<e>> \o c) = x \o (<<r>> \o (<<e>> \o c))
    BY <1>3, <2>3, ConcatAssociative
  <2> QED BY <2>2, <2>4 DEF y
<1>5. Asking(x \o <<r>> \o <<e>> \o c, s, t)
  BY <1>1, <1>2, <1>4 DEF Asking
<1>6. x \o <<r>> \o <<e>> \in Seq(AnyEffect)
  <2>1. x \o <<r>> \in Seq(AnyEffect)
    BY <1>3, Joined
  <2> QED BY <1>3, <2>1, Joined
<1> QED BY <1>1, <1>3, <1>5, <1>6

LEMMA AskPieces ==
    ASSUME NEW t, NEW s
    PROVE  /\ \A k \in KernelState : Ready(k, s, t) => Save(k) \in Seq(AskEffect(s, t))
           /\ \A cb \in Due, n \in Nat : Arm(cb, n) \in Seq(AskEffect(s, t))
           /\ <<>> \in Seq(AskEffect(s, t))
<1>1. ASSUME NEW k \in KernelState, Ready(k, s, t) PROVE Save(k) \in Seq(AskEffect(s, t))
  <2>1. [do |-> "save", k |-> k, enters |-> {}] \in AskEffect(s, t)
    BY <1>1 DEF AskEffect, SaveEffect
  <2> QED BY <2>1 DEF Save
<1>2. ASSUME NEW cb \in Due, NEW n \in Nat PROVE Arm(cb, n) \in Seq(AskEffect(s, t))
  <2>1. [do |-> "arm", cb |-> cb, attempt |-> n] \in AskEffect(s, t)
    BY DEF AskEffect, ArmEffect
  <2> QED BY <2>1 DEF Arm
<1> QED BY <1>1, <1>2

\* A state that announces a request and has no backoff to wait for.
LEMMA WithinBudget ==
    ASSUME NEW k \in KernelState, NEW s \in Steps, NEW t \in [Steps -> Nat], k.step = s,
           \A r \in Steps \ {s} : k.backoffs[r] = NoBackoff, ~Waits(k, s),
           t[s] + (IF k.pending THEN 1 ELSE 0) <= k.retries[s] + 1
    PROVE  Within(k, t)
<1>1. k.retries[s] \in Nat /\ t[s] \in Nat
  BY KernelParts
<1>2. Owed(k) = IF k.pending THEN 1 ELSE 0
  BY DEF Owed
<1> QED BY <1>1, <1>2 DEF Within

\* The dispatch that was saved and not carried through is worth one request.
LEMMA ResumeAsks ==
    ASSUME NEW k \in KernelState, NEW s \in Steps, NEW t \in [Steps -> Nat], Ready(k, s, t),
           NEW c \in Seq(CalmEffect(More(t, s)))
    PROVE  Asking(Resume(k) \o c, s, t) /\ Resume(k) \in Seq(AnyEffect)
<1> DEFINE arms == k.timeouts[s] = NoLease /\ k.cb # NoCallback
           waiting == IF arms THEN [k EXCEPT !.timeouts[s] = [cb |-> k.cb, gen |-> 0]] ELSE k
           timer == IF arms THEN Arm(k.cb, k.exec[s]) \o Save(waiting) ELSE <<>>
           ready == [waiting EXCEPT !.pending = FALSE]
           r == [do |-> "request", step |-> s, attempt |-> k.exec[s], scheduled |-> arms]
<1>1. k.step = s /\ k.active /\ k.pending /\ Within(k, t)
  BY DEF Ready
<1>2. k.exec[s] \in Nat /\ arms \in BOOLEAN
  BY DEF KernelState, KernelType
<1>3. k.cb \in Due \cup {NoCallback} /\ (arms => k.cb \in Due)
  BY DEF KernelState
<1>4. [cb |-> k.cb, gen |-> 0] \in LeaseType
  BY <1>3, LeasesTyped
<1>5. waiting \in KernelState
  BY <1>4, TimeoutSet
<1>6. /\ waiting.pending = k.pending /\ waiting.active = k.active /\ waiting.step = k.step
      /\ waiting.backoffs = k.backoffs /\ waiting.retries = k.retries
  BY DEF KernelState, KernelType
<1>7. Resume(k) = timer \o Request(s, k.exec[s], arms) \o Save(ready)
  BY <1>1 DEF Resume
<1>8. r \in RequestEffect /\ r.step = s
  BY <1>2 DEF RequestEffect
<1>9. Request(s, k.exec[s], arms) = <<r>>
  BY DEF Request
<1> HIDE DEF arms, waiting, r
<1>10. ready \in KernelState
  BY <1>5, PendingCleared
<1>11. /\ ready.pending = FALSE /\ ready.step = s
       /\ ready.backoffs = k.backoffs /\ ready.retries = k.retries
  BY <1>1, <1>5, <1>6 DEF KernelState, KernelType
<1> HIDE DEF ready
<1>12. Ready(waiting, s, t)
  BY <1>1, <1>6 DEF Ready, Within, Owed, Waits
<1>13. Within(ready, More(t, s))
  <2>1. /\ k.retries[s] \in Nat /\ t[s] \in Nat /\ More(t, s)[s] = t[s] + 1
        /\ \A x \in Steps \ {s} : k.backoffs[x] = NoBackoff
        /\ t[s] + Owed(k) <= k.retries[s] + 1
    BY <1>1, KernelParts, TriesTyped DEF Within
  <2>2. Owed(k) = 1 + IF Waits(k, s) THEN 1 ELSE 0
    BY <1>1 DEF Owed
  <2>3. Owed(ready) = IF Waits(k, s) THEN 1 ELSE 0
    BY <1>11 DEF Owed, Waits
  <2>4. More(t, s)[s] + Owed(ready) <= k.retries[s] + 1
    BY <2>1, <2>2, <2>3
  <2> QED BY <1>11, <2>1, <2>4 DEF Within
<1>14. timer \in Seq(AskEffect(s, t))
  <2>1. Save(waiting) \in Seq(AskEffect(s, t)) /\ <<>> \in Seq(AskEffect(s, t))
    BY <1>5, <1>12, AskPieces
  <2>2. arms => Arm(k.cb, k.exec[s]) \in Seq(AskEffect(s, t))
    BY <1>2, <1>3, AskPieces
  <2> QED BY <2>1, <2>2, Joined
<1> HIDE DEF timer
<1>15. timer \o <<r>> \o Save(ready) \in Seq(AnyEffect) /\ Asking(timer \o <<r>> \o Save(ready) \o c, s, t)
  BY <1>8, <1>10, <1>13, <1>14, Asks
<1> QED BY <1>7, <1>9, <1>15

\* A dispatch: what is saved first may announce the request, as the first of a
\* visit or because a retry was counted or a backoff has fired.
LEMMA DispatchSettles ==
    ASSUME NEW s \in Steps, NEW k \in KernelState, NEW m \in Envelope, NEW visit \in BOOLEAN,
           ids \in Nat, NEW t \in [Steps -> Nat], NEW u, u = Reset(t, IF visit THEN {s} ELSE {}),
           \A r \in Steps \ {s} : k.backoffs[r] = NoBackoff, ~Waits(k, s), k.active,
           u[s] <= k.retries[s],
           NEW c \in Seq(CalmEffect(More(u, s)))
    PROVE  Settling(Dispatch(s, k, m, visit) \o c, t)
<1> DEFINE done == Dispatched(s, k, m)
           waiting == [done EXCEPT !.pending = TRUE]
           first == [waiting EXCEPT !.timeouts[s] = k.timeouts[s]]
           enters == IF visit THEN {s} ELSE {}
           e == [do |-> "save", k |-> first, enters |-> enters]
           timer == IF s \in Timed THEN Arm(done.cb, ids + 1) \o Save(waiting) ELSE <<>>
           r == [do |-> "request", step |-> s, attempt |-> ids + 1, scheduled |-> s \in Timed]
<1>0. ids + 1 \in Nat
  OBVIOUS
<1>1. done \in KernelState /\ waiting \in KernelState
  BY DispatchTyped
<1>2. s \in Timed => done.cb \in Due
  <2>1. m.id \in Nat
    BY DEF Envelope, EnvelopeType
  <2>2. k \in KernelType
    BY DEF KernelState
  <2>3. s \in Timed => done.cb = Callback("timeout", s, m.id)
    BY <2>2 DEF Dispatched, KernelType
  <2> QED BY <2>1, <2>3 DEF Callback, Due
<1>3. /\ done.step = s /\ done.pending = FALSE /\ done.active
      /\ done.backoffs = k.backoffs /\ done.retries = k.retries
  <2>1. k \in KernelType
    BY DEF KernelState
  <2> QED BY <2>1 DEF Dispatched, KernelType
<1>4. k.timeouts[s] \in LeaseType
  BY KernelParts
<1>5. Dispatch(s, k, m, visit) = <<e>> \o timer \o Request(s, ids + 1, s \in Timed) \o Save(done)
  BY DEF Dispatch
<1>6. r \in RequestEffect /\ r.step = s /\ Request(s, ids + 1, s \in Timed) = <<r>>
  BY <1>0 DEF RequestEffect, Request
<1> HIDE DEF done, r
<1>7. /\ waiting.step = s /\ waiting.pending /\ waiting.active
      /\ waiting.backoffs = k.backoffs /\ waiting.retries = k.retries
  BY <1>1, <1>3 DEF KernelState, KernelType
<1> HIDE DEF waiting
<1>8. /\ first \in KernelState
      /\ first.step = s /\ first.pending /\ first.active
      /\ first.backoffs = k.backoffs /\ first.retries = k.retries
  <2>1. first \in KernelState
    BY <1>1, <1>4, TimeoutSet
  <2> QED BY <1>1, <1>7, <2>1 DEF KernelState, KernelType
<1> HIDE DEF first
<1>9. u \in [Steps -> Nat] /\ More(u, s)[s] = u[s] + 1 /\ More(u, s) \in [Steps -> Nat]
  BY TriesTyped
<1>10. k.retries[s] \in Nat /\ u[s] \in Nat
  BY <1>9, KernelParts
<1>11. Ready(first, s, u) /\ Ready(waiting, s, u)
  <2>1. ~Waits(first, s) /\ ~Waits(waiting, s)
    BY <1>7, <1>8 DEF Waits
  <2>2. u[s] + (IF first.pending THEN 1 ELSE 0) <= first.retries[s] + 1
    BY <1>8, <1>10
  <2>3. u[s] + (IF waiting.pending THEN 1 ELSE 0) <= waiting.retries[s] + 1
    BY <1>7, <1>10
  <2>4. /\ \A x \in Steps \ {s} : first.backoffs[x] = NoBackoff
        /\ \A x \in Steps \ {s} : waiting.backoffs[x] = NoBackoff
    BY <1>7, <1>8
  <2>5. Within(first, u)
    BY <1>8, <1>9, <2>1, <2>2, <2>4, WithinBudget
  <2>6. Within(waiting, u)
    BY <1>1, <1>7, <1>9, <2>1, <2>3, <2>4, WithinBudget
  <2> QED BY <1>7, <1>8, <2>5, <2>6 DEF Ready
<1>12. Within(done, More(u, s))
  <2>1. ~Waits(done, s)
    BY <1>3 DEF Waits
  <2>2. More(u, s)[s] + (IF done.pending THEN 1 ELSE 0) <= done.retries[s] + 1
    BY <1>3, <1>9, <1>10
  <2>3. \A x \in Steps \ {s} : done.backoffs[x] = NoBackoff
    BY <1>3
  <2> QED BY <1>1, <1>3, <1>9, <2>1, <2>2, <2>3, WithinBudget
<1>13. timer \in Seq(AskEffect(s, u))
  <2>1. Save(waiting) \in Seq(AskEffect(s, u)) /\ <<>> \in Seq(AskEffect(s, u))
    BY <1>1, <1>11, AskPieces
  <2>2. s \in Timed => Arm(done.cb, ids + 1) \in Seq(AskEffect(s, u))
    BY <1>0, <1>2, AskPieces
  <2> QED BY <2>1, <2>2, Joined
<1>14. e \in SaveEffect /\ e.k = first /\ e.enters = enters
  BY <1>8 DEF SaveEffect
<1>15. e \in AnyEffect
  BY <1>14, EffectKinds
<1> HIDE DEF timer, e, enters
<1>16. /\ Asking(timer \o <<r>> \o Save(done) \o c, s, u)
       /\ timer \o <<r>> \o Save(done) \in Seq(AnyEffect) /\ c \in Seq(AnyEffect)
  BY <1>1, <1>6, <1>12, <1>13, Asks
<1> DEFINE z == timer \o <<r>> \o Save(done) \o c
<1>17. Stage(z, first, u)
  BY <1>11, <1>16 DEF Stage
<1>18. Settling(<<e>> \o z, t)
  BY <1>14, <1>17, SettlesWith DEF enters
<1>19. Dispatch(s, k, m, visit) \o c = <<e>> \o z
  <2>1. /\ timer \in Seq(AnyEffect) /\ <<r>> \in Seq(AnyEffect) /\ Save(done) \in Seq(AnyEffect)
        /\ <<e>> \in Seq(AnyEffect)
    <3>1. RequestEffect \subseteq AnyEffect
      BY EffectKinds
    <3>2. Save(done) \in Seq(QuietEffect) /\ Seq(QuietEffect) \subseteq Seq(AnyEffect)
      BY <1>1, QuietPieces, EffectKinds
    <3>3. r \in AnyEffect
      BY <1>6, <3>1
    <3>4. <<r>> \in Seq(AnyEffect) /\ <<e>> \in Seq(AnyEffect)
      BY <1>15, <3>3
    <3>5. timer \in Seq(AnyEffect)
      <4>1. Seq(AskEffect(s, u)) \subseteq Seq(QuietEffect) /\ Seq(QuietEffect) \subseteq Seq(AnyEffect)
        BY EffectKinds
      <4> QED BY <1>13, <4>1
    <3> QED BY <3>2, <3>4, <3>5
  <2>2. timer \o <<r>> \in Seq(AnyEffect) /\ <<r>> \o Save(done) \in Seq(AnyEffect)
    BY <2>1, Joined
  <2>3. <<e>> \o timer \o <<r>> = <<e>> \o (timer \o <<r>>)
    BY <2>1, ConcatAssociative
  <2>4. <<e>> \o timer \o <<r>> \o Save(done) = <<e>> \o (timer \o <<r>> \o Save(done))
    BY <2>1, <2>2, <2>3, ConcatAssociative
  <2>5. <<e>> \o timer \o <<r>> \o Save(done) \o c = <<e>> \o (timer \o <<r>> \o Save(done) \o c)
    BY <1>16, <2>1, <2>4, ConcatAssociative
  <2> QED BY <1>5, <1>6, <2>5
<1> QED BY <1>18, <1>19

-----------------------------------------------------------------------------
(* What the handlers ask for                                               *)

LEMMA ResumeStage ==
    ASSUME NEW k \in KernelState, NEW t \in [Steps -> Nat], Within(k, t), k.active, k.pending
    PROVE  Stage(Resume(k) \o Again, k, t) /\ Stage(Resume(k), k, t)
<1> DEFINE s == k.step
<1>1. s \in Steps /\ Ready(k, s, t)
  BY KernelParts DEF Ready, KernelState
<1> HIDE DEF s
<1>2. Again \in Seq(CalmEffect(More(t, s))) /\ <<>> \in Seq(CalmEffect(More(t, s)))
  BY CalmPieces
<1>3. /\ Asking(Resume(k) \o Again, s, t) /\ Asking(Resume(k) \o <<>>, s, t)
      /\ Resume(k) \in Seq(AnyEffect)
  BY <1>1, <1>2, ResumeAsks
<1>4. Resume(k) \o <<>> = Resume(k)
  BY <1>3, ConcatEmptySeq
<1> QED BY <1>1, <1>3, <1>4 DEF Stage

\* A new visit to a step, from a state without backoffs.
LEMMA VisitSettles ==
    ASSUME NEW s \in Steps, NEW k \in KernelState, NEW m \in Envelope, ids \in Nat,
           NEW t \in [Steps -> Nat], \A r \in Steps : k.backoffs[r] = NoBackoff, k.active
    PROVE  Settling(Dispatch(s, k, m, TRUE), t)
<1> DEFINE u == Reset(t, IF TRUE THEN {s} ELSE {})
<1>1. u[s] = 0 /\ k.retries[s] \in Nat
  BY KernelParts DEF Reset
<1> HIDE DEF u
<1>2. u[s] <= k.retries[s] /\ ~Waits(k, s)
  BY <1>1 DEF Waits
<1>3. <<>> \in Seq(CalmEffect(More(u, s)))
  BY CalmPieces
<1>4. Settling(Dispatch(s, k, m, TRUE) \o <<>>, t)
  BY <1>2, <1>3, DispatchSettles DEF u
<1>5. Dispatch(s, k, m, TRUE) \o <<>> = Dispatch(s, k, m, TRUE)
  BY DispatchTyped, ConcatEmptySeq
<1> QED BY <1>4, <1>5

LEMMA StartBudget ==
    ASSUME NEW m \in Envelope, kernel \in KernelState, ids \in Nat, tries \in [Steps -> Nat],
           Within(kernel, tries)
    PROVE  BudgetTodo(HandleStart(m), kernel, tries)
<1> DEFINE k == [Idle EXCEPT !.active = TRUE]
<1>1. k \in KernelState
  BY IdleTyped DEF KernelState, KernelType
<1>2. k.active /\ \A r \in Steps : k.backoffs[r] = NoBackoff
  BY DEF Idle
<1> HIDE DEF k
<1>3. Settling(Save(k) \o Dispatch(Entry, k, m, TRUE), tries)
  BY <1>1, <1>2, QuietPieces, VisitSettles, SettlingPrefixed, ConstantsAssumption
<1>4. Stage(<<>>, kernel, tries)
  BY CalmPieces DEF Stage
<1>5. kernel.active /\ kernel.pending => Stage(Resume(kernel), kernel, tries)
  BY ResumeStage
<1>6. Stage(Outcome("active", NoStep), kernel, tries)
  BY OutcomeCalm DEF Stage, OutcomeKinds
<1> QED BY <1>3, <1>4, <1>5, <1>6 DEF HandleStart, BudgetTodo, k

LEMMA TimeoutBudget ==
    ASSUME NEW m \in Envelope, m.type = "timeout", kernel \in KernelState,
           tries \in [Steps -> Nat], Within(kernel, tries)
    PROVE  BudgetTodo(HandleTimeout(m), kernel, tries)
<1> DEFINE c == [Blank EXCEPT !.type = "completed", !.step = m.step, !.result = "timeout",
                              !.attempt = m.attempt]
           k == Untimed(kernel, m.step)
<1>1. m.step \in Steps /\ m.attempt \in Nat
  BY DEF Envelope, EnvelopeType
<1>2. c \in EnvelopeType /\ c.type = "completed" /\ c.step = m.step /\ c.result = "timeout"
  BY <1>1, BlankTyped DEF EnvelopeType, Blank, OutcomeKinds
<1>3. c \in Envelope
  BY <1>1, <1>2 DEF Envelope
<1>4. k \in KernelState
  BY <1>1, TimeoutCleared
<1>5. Within(k, tries)
  <2>1. /\ k.active = kernel.active /\ k.step = kernel.step /\ k.pending = kernel.pending
        /\ k.backoffs = kernel.backoffs /\ k.retries = kernel.retries
    BY DEF Untimed, KernelState, KernelType
  <2> QED BY <2>1 DEF Within, Owed, Waits
<1> HIDE DEF c, k
<1>6. Post(c) \in Seq(CalmEffect(tries))
  <2>1. [do |-> "post", m |-> c] \in CalmEffect(tries)
    BY <1>2, <1>3 DEF CalmEffect, CompletionEffect
  <2> QED BY <2>1 DEF Post
<1>7. Post(c) \o Save(k) \in Seq(CalmEffect(tries))
  BY <1>4, <1>5, <1>6, CalmPieces, Joined
<1>8. Stage(Post(c) \o Save(k), kernel, tries) /\ Stage(<<>>, kernel, tries)
  BY <1>7, CalmPieces DEF Stage
<1>9. ~Stale(m) /\ Resumes(m) => Stage(Resume(kernel) \o Again, kernel, tries)
  BY ResumeStage, KernelParts, <1>1 DEF Stale, Resumes
<1> QED BY <1>8, <1>9 DEF HandleTimeout, Untimed, BudgetTodo, c, k

LEMMA ProceedSettles ==
    ASSUME NEW k \in KernelState, NEW m \in Envelope, m.type = "completed", ids \in Nat,
           NEW t \in [Steps -> Nat], NEW next \in Steps \cup {Done, Invalid},
           \A r \in Steps : k.backoffs[r] = NoBackoff, k.active
    PROVE  Settling(Proceed(next, k, m), t)
<1>1. m.step \in Steps
  BY DEF Envelope
<1>2. /\ Settling(Cleanup(k) \o Outcome("ok", m.step), t)
      /\ Settling(Cleanup(k) \o Outcome("invalid", m.step), t)
  BY <1>1, CleanupSettles DEF OutcomeKinds
<1>3. next \in Steps => Settling(Dispatch(next, k, m, TRUE), t)
  BY VisitSettles
<1>4. CASE next = Done
  BY <1>2, <1>4 DEF Proceed
<1>5. CASE next # Done /\ next = Invalid
  BY <1>2, <1>5 DEF Proceed
<1>6. CASE next # Done /\ next # Invalid
  BY <1>3, <1>6 DEF Proceed
<1> QED BY <1>4, <1>5, <1>6

\* The retry that is counted pays for the request or for the backoff.
LEMMA RetrySettles ==
    ASSUME NEW s \in Steps, NEW k \in KernelState, NEW m \in Envelope, ids \in Nat,
           NEW t \in [Steps -> Nat], RetriesLeft(s, k), Within(k, t), k.active, k.step = s,
           \A r \in Steps : k.backoffs[r] = NoBackoff
    PROVE  Settling(TryRetry(s, k, m), t)
<1>1. /\ k.retries[s] \in Nat /\ k.retries[s] + 1 < MaxAttempts[s] /\ k.exec[s] \in Nat
      /\ m.id \in Nat /\ k.retries[s] + 1 \in Nat /\ t[s] \in Nat
  BY KernelParts DEF RetriesLeft, Envelope, EnvelopeType
<1>2. t[s] + (IF k.pending THEN 1 ELSE 0) <= k.retries[s] + 1
  BY <1>1 DEF Within, Owed, Waits
<1>3. CASE s \in Delayed
  <2> DEFINE cb == Callback("backoff", s, m.id)
             unleased == [cb |-> cb, lease |-> NoLease, dispatching |-> FALSE]
             b == [unleased EXCEPT !.lease = [cb |-> cb, gen |-> 0]]
             waiting == [k EXCEPT !.backoffs[s] = unleased]
             leased == [k EXCEPT !.backoffs[s] = b]
             counted == [leased EXCEPT !.retries[s] = @ + 1]
  <2>1. cb \in Due
    BY <1>1 DEF Callback, Due
  <2>2. unleased \in BackoffType
    BY <2>1, LeasesTyped
  <2>3. [cb |-> cb, gen |-> 0] \in LeaseType
    BY <2>1, LeasesTyped
  <2> HIDE DEF cb, unleased
  <2>4. b \in BackoffType
    BY <2>2, <2>3 DEF BackoffType
  <2> HIDE DEF b
  <2>5. waiting \in KernelState /\ leased \in KernelState
    BY <2>2, <2>4, BackoffSet
  <2>6. /\ leased.retries = k.retries /\ leased.pending = k.pending /\ leased.step = s
        /\ \A r \in Steps \ {s} : leased.backoffs[r] = k.backoffs[r]
    BY DEF KernelState, KernelType
  <2> HIDE DEF leased
  <2>7. counted \in KernelState
    BY <1>1, <2>5, <2>6, RetriesSet
  <2>8. /\ counted.retries[s] = k.retries[s] + 1 /\ counted.pending = k.pending
        /\ counted.step = s /\ counted.backoffs = leased.backoffs
    BY <2>5, <2>6 DEF KernelState, KernelType
  <2> HIDE DEF waiting, counted
  <2>9. Within(counted, t)
    <3>1. Owed(counted) <= (IF k.pending THEN 1 ELSE 0) + 1 /\ Owed(counted) \in Nat
      BY <2>8 DEF Owed
    <3>2. t[s] + Owed(counted) <= counted.retries[s] + 1
      BY <1>1, <1>2, <2>8, <3>1
    <3> QED BY <2>6, <2>8, <3>2 DEF Within
  <2>10. Save(waiting) \o Arm(cb, k.exec[s]) \o Save(leased) \in Seq(QuietEffect)
    <3>1. /\ Save(waiting) \in Seq(QuietEffect) /\ Save(leased) \in Seq(QuietEffect)
          /\ Arm(cb, k.exec[s]) \in Seq(QuietEffect)
      BY <1>1, <2>1, <2>5, QuietPieces
    <3>2. Save(waiting) \o Arm(cb, k.exec[s]) \in Seq(QuietEffect)
      BY <3>1, Joined
    <3> QED BY <3>1, <3>2, Joined
  <2>11. Settling(Save(counted), t)
    <3>1. Settling(Save(counted) \o <<>>, t)
      BY <2>7, <2>9, CalmPieces, SaveSettles
    <3>2. Save(counted) \o <<>> = Save(counted)
      BY <2>7, QuietPieces, ConcatEmptySeq
    <3> QED BY <3>1, <3>2
  <2>12. Settling(Save(waiting) \o Arm(cb, k.exec[s]) \o Save(leased) \o Save(counted), t)
    BY <2>10, <2>11, SettlingPrefixed
  <2> QED BY <1>3, <2>12 DEF TryRetry, StartRetryBackoff, waiting, leased, counted, cb, b, unleased
<1>4. CASE s \notin Delayed
  <2> DEFINE counted == [k EXCEPT !.retries[s] = @ + 1]
             u == Reset(t, IF FALSE THEN {s} ELSE {})
  <2>1. counted \in KernelState
    BY <1>1, RetriesSet
  <2>2. /\ counted.retries[s] = k.retries[s] + 1 /\ counted.backoffs = k.backoffs
        /\ counted.active
    BY DEF KernelState, KernelType
  <2> HIDE DEF counted
  <2>3. u = t
    BY DEF Reset
  <2> HIDE DEF u
  <2>4. u[s] <= counted.retries[s] /\ ~Waits(counted, s)
    BY <1>1, <1>2, <2>2, <2>3 DEF Waits
  <2>5. <<>> \in Seq(CalmEffect(More(u, s)))
    BY CalmPieces
  <2>6. Settling(Dispatch(s, counted, m, FALSE) \o <<>>, t)
    BY <2>1, <2>2, <2>4, <2>5, DispatchSettles DEF u
  <2>7. Dispatch(s, counted, m, FALSE) \o <<>> = Dispatch(s, counted, m, FALSE)
    BY <2>1, DispatchTyped, ConcatEmptySeq
  <2>8. Settling(Save(counted) \o Dispatch(s, counted, m, FALSE), t)
    BY <2>1, <2>6, <2>7, QuietPieces, SettlingPrefixed
  <2> QED BY <1>4, <2>8 DEF TryRetry, counted
<1> QED BY <1>3, <1>4

LEMMA OnErrorSettles ==
    ASSUME NEW s \in Steps, NEW k \in KernelState, NEW m \in Envelope, m.type = "completed",
           ids \in Nat, NEW t \in [Steps -> Nat], k.active,
           \A r \in Steps : k.backoffs[r] = NoBackoff
    PROVE  Settling(TryOnError(s, k, m), t)
<1> DEFINE forgiven == [k EXCEPT !.retries[s] = 0]
<1>1. /\ 0 < MaxAttempts[s] /\ Default[s] \in Steps \cup {Done, Invalid}
      /\ OnError[s] \in Steps \cup {"fail", "skip"}
  BY ConstantsAssumption
<1>2. forgiven \in KernelState
  BY <1>1, RetriesSet
<1>3. forgiven.active /\ \A r \in Steps : forgiven.backoffs[r] = NoBackoff
  BY DEF KernelState, KernelType
<1> HIDE DEF forgiven
<1>4. Settling(Cleanup(k) \o Outcome("error", s), t)
  BY CleanupSettles DEF OutcomeKinds
<1>5. Save(forgiven) \in Seq(QuietEffect)
  BY <1>2, QuietPieces
<1>6. Settling(Save(forgiven) \o Proceed(Default[s], forgiven, m), t)
  <2>1. Settling(Proceed(Default[s], forgiven, m), t)
    BY <1>1, <1>2, <1>3, ProceedSettles
  <2> QED BY <1>5, <2>1, SettlingPrefixed
<1>7. OnError[s] \in Steps => Settling(Save(forgiven) \o Dispatch(OnError[s], forgiven, m, TRUE), t)
  BY <1>2, <1>3, <1>5, VisitSettles, SettlingPrefixed
<1>8. CASE OnError[s] = "fail"
  BY <1>4, <1>8 DEF TryOnError
<1>9. CASE OnError[s] # "fail" /\ OnError[s] = "skip"
  BY <1>6, <1>9 DEF TryOnError, forgiven
<1>10. CASE OnError[s] # "fail" /\ OnError[s] # "skip"
  BY <1>1, <1>7, <1>10 DEF TryOnError, forgiven
<1> QED BY <1>8, <1>9, <1>10

LEMMA CompletedBudget ==
    ASSUME NEW m \in Envelope, m.type = "completed", kernel \in KernelState, ids \in Nat,
           modules \in BOOLEAN, tries \in [Steps -> Nat], Within(kernel, tries)
    PROVE  BudgetTodo(HandleCompleted(m), kernel, tries)
<1> DEFINE s == m.step
           k == AttemptOver(kernel, s)
           backoff == kernel.backoffs[s]
           unwaiting == [k EXCEPT !.backoffs[s] = NoBackoff]
           succeeded == [unwaiting EXCEPT !.retries[s] = 0]
           cancelTimeout == Save(k) \o Cancel(kernel.timeouts[s])
           cancelBackoff == IF backoff = NoBackoff THEN <<>>
                            ELSE Save(unwaiting) \o Cancel(backoff.lease)
<1>1. s \in Steps /\ (m.result = "ok" => m.next \in Steps \cup {Done, Invalid})
  BY DEF Envelope
<1>2. /\ kernel.timeouts[s] \in LeaseType /\ backoff.lease \in LeaseType /\ 0 < MaxAttempts[s]
      /\ NoBackoff \in BackoffType
  BY <1>1, KernelParts, LeasesTyped
<1>3. k \in KernelState
  BY <1>1, AttemptCleared
<1>4. /\ k.active = kernel.active /\ k.step = kernel.step /\ k.pending = kernel.pending
      /\ k.backoffs = kernel.backoffs /\ k.retries = kernel.retries
  BY DEF AttemptOver, KernelState, KernelType
<1>5. unwaiting \in KernelState
  BY <1>1, <1>2, <1>3, BackoffSet
<1>6. /\ unwaiting.active = kernel.active
      /\ \A r \in Steps : unwaiting.backoffs[r] = IF r = s THEN NoBackoff ELSE kernel.backoffs[r]
  <2>1. k \in KernelType
    BY <1>3 DEF KernelState
  <2> HIDE DEF k, s
  <2> QED BY <1>4, <2>1 DEF KernelType
<1>7. succeeded \in KernelState
  BY <1>1, <1>2, <1>5, RetriesSet
<1>8. succeeded.active = unwaiting.active /\ succeeded.backoffs = unwaiting.backoffs
  <2>1. unwaiting \in KernelType
    BY <1>5 DEF KernelState
  <2> HIDE DEF unwaiting
  <2> QED BY <2>1 DEF KernelType
<1>9. Within(k, tries)
  BY <1>4 DEF Within, Owed, Waits
<1>10. HandleCompleted(m) =
          IF Stale(m) THEN <<>>
          ELSE IF Resumes(m) THEN Resume(kernel) \o Again
          ELSE IF m.result = "ok"
          THEN cancelTimeout \o cancelBackoff \o Save(succeeded) \o Proceed(m.next, succeeded, m)
          ELSE IF backoff # NoBackoff THEN cancelTimeout
          ELSE cancelTimeout \o StepFailed(s, k, m)
  BY DEF HandleCompleted, AttemptOver
<1>11. ~Stale(m) /\ ~Resumes(m) => kernel.active /\ kernel.step = s
  BY KernelParts, <1>1 DEF Stale, Resumes
<1>12. ~Stale(m) /\ ~Resumes(m) => \A r \in Steps \ {s} : kernel.backoffs[r] = NoBackoff
  BY <1>1, <1>11 DEF Within
<1> HIDE DEF s, k, backoff, unwaiting, succeeded
<1>13. cancelTimeout \in Seq(QuietEffect) /\ cancelTimeout \in Seq(CalmEffect(tries))
  BY <1>2, <1>3, <1>9, QuietPieces, CalmPieces, Joined
<1>14. cancelBackoff \in Seq(QuietEffect)
  BY <1>2, <1>5, QuietPieces, Joined
<1> HIDE DEF cancelTimeout, cancelBackoff
<1>15. ~Stale(m) /\ Resumes(m) => Stage(Resume(kernel) \o Again, kernel, tries)
  BY ResumeStage, KernelParts, <1>1 DEF Stale, Resumes
<1>16. ASSUME ~Stale(m), ~Resumes(m), m.result = "ok"
       PROVE  Settling(cancelTimeout \o cancelBackoff \o Save(succeeded)
                       \o Proceed(m.next, succeeded, m), tries)
  <2>1. cancelTimeout \o cancelBackoff \o Save(succeeded) \in Seq(QuietEffect)
    <3>1. cancelTimeout \o cancelBackoff \in Seq(QuietEffect)
      BY <1>13, <1>14, Joined
    <3>2. Save(succeeded) \in Seq(QuietEffect)
      BY <1>7, QuietPieces
    <3> QED BY <3>1, <3>2, Joined
  <2>2. succeeded.active /\ \A r \in Steps : succeeded.backoffs[r] = NoBackoff
    BY <1>6, <1>8, <1>11, <1>12, <1>16
  <2>3. Settling(Proceed(m.next, succeeded, m), tries)
    BY <1>1, <1>7, <1>16, <2>2, ProceedSettles
  <2> QED BY <2>1, <2>3, SettlingPrefixed
<1>17. ASSUME ~Stale(m), ~Resumes(m), backoff = NoBackoff
       PROVE  Settling(cancelTimeout \o StepFailed(s, k, m), tries)
  <2>1. k.active /\ k.step = s /\ \A r \in Steps : k.backoffs[r] = NoBackoff
    BY <1>4, <1>11, <1>12, <1>17 DEF backoff
  <2>2. Settling(Cleanup(k) \o Outcome("timeout", s), tries)
    BY <1>1, <1>3, CleanupSettles DEF OutcomeKinds
  <2>3. RetriesLeft(s, k) => Settling(TryRetry(s, k, m), tries)
    BY <1>1, <1>3, <1>9, <2>1, RetrySettles
  <2>4. Settling(TryOnError(s, k, m), tries)
    BY <1>1, <1>3, <2>1, OnErrorSettles
  <2>5. Settling(StepFailed(s, k, m), tries)
    BY <2>2, <2>3, <2>4 DEF StepFailed
  <2> QED BY <1>13, <2>5, SettlingPrefixed
<1>18. Stage(<<>>, kernel, tries) /\ Stage(cancelTimeout, kernel, tries)
  BY <1>13, CalmPieces DEF Stage
<1> QED BY <1>10, <1>15, <1>16, <1>17, <1>18 DEF BudgetTodo

\* The backoff that has fired pays for the request of its redispatch.
LEMMA RedispatchSettles ==
    ASSUME NEW m \in Envelope, NEW s \in Steps, kernel \in KernelState, ids \in Nat,
           tries \in [Steps -> Nat], Within(kernel, tries), kernel.active, kernel.step = s,
           Waits(kernel, s)
    PROVE  Settling(Redispatch(s, m), tries)
<1> DEFINE cb == IF s \in Timed THEN Callback("timeout", s, m.id) ELSE NoCallback
           k == Redispatching(kernel, s, cb)
           over == Dispatched(s, k, m)
           done == [over EXCEPT !.backoffs[s] = NoBackoff]
           u == Reset(tries, IF FALSE THEN {s} ELSE {})
<1>1. m.id \in Nat /\ NoBackoff \in BackoffType
  BY LeasesTyped DEF Envelope, EnvelopeType
<1>2. cb \in Due \cup {NoCallback}
  BY <1>1 DEF Callback, Due
<1> HIDE DEF cb
<1>3. k \in KernelState
  BY <1>2, DispatchingSet
<1>4. /\ k.active /\ k.retries = kernel.retries
      /\ k.backoffs[s].dispatching = TRUE
      /\ \A r \in Steps \ {s} : k.backoffs[r] = kernel.backoffs[r]
  <2>1. kernel.backoffs[s] \in BackoffType
    BY KernelParts
  <2> QED BY <2>1 DEF Redispatching, KernelState, KernelType, BackoffType
<1>5. \A r \in Steps \ {s} : kernel.backoffs[r] = NoBackoff
  BY DEF Within
<1>6. /\ tries[s] <= kernel.retries[s] /\ tries[s] \in Nat /\ kernel.retries[s] \in Nat
  <2>1. Owed(kernel) \in Nat /\ Owed(kernel) >= 1
    BY DEF Owed
  <2>2. tries[s] \in Nat /\ kernel.retries[s] \in Nat
    BY KernelParts
  <2>3. tries[s] + Owed(kernel) <= kernel.retries[s] + 1
    BY DEF Within
  <2> QED BY <2>1, <2>2, <2>3
<1> HIDE DEF k
<1>7. over \in KernelState
  BY <1>3, DispatchTyped
<1>8. /\ over.pending = FALSE /\ over.step = s /\ over.backoffs = k.backoffs
      /\ over.retries = k.retries
  BY <1>3 DEF Dispatched, KernelState, KernelType
<1> HIDE DEF over
<1>9. done \in KernelState
  BY <1>1, <1>7, BackoffSet
<1>10. /\ done.pending = FALSE /\ done.step = s /\ done.retries = k.retries
       /\ done.backoffs[s] = NoBackoff
       /\ \A r \in Steps \ {s} : done.backoffs[r] = k.backoffs[r]
  BY <1>7, <1>8 DEF KernelState, KernelType
<1> HIDE DEF done
<1>11. u = tries
  BY DEF Reset
<1> HIDE DEF u
<1>12. Within(done, More(u, s))
  <2>1. More(u, s) \in [Steps -> Nat] /\ More(u, s)[s] = tries[s] + 1
    BY <1>11, TriesTyped
  <2>2. ~Waits(done, s) /\ \A r \in Steps \ {s} : done.backoffs[r] = NoBackoff
    BY <1>4, <1>5, <1>10 DEF Waits
  <2>3. More(u, s)[s] + (IF done.pending THEN 1 ELSE 0) <= done.retries[s] + 1
    BY <1>4, <1>6, <1>10, <2>1
  <2> QED BY <1>9, <1>10, <2>1, <2>2, <2>3, WithinBudget
<1>13. Save(done) \in Seq(CalmEffect(More(u, s)))
  BY <1>9, <1>12, CalmPieces
<1>14. u[s] <= k.retries[s] /\ ~Waits(k, s) /\ \A r \in Steps \ {s} : k.backoffs[r] = NoBackoff
  BY <1>4, <1>5, <1>6, <1>11 DEF Waits
<1>15. Settling(Dispatch(s, k, m, FALSE) \o Save(done), tries)
  BY <1>3, <1>4, <1>13, <1>14, DispatchSettles DEF u
<1>16. Settling(Save(k) \o (Dispatch(s, k, m, FALSE) \o Save(done)), tries)
  BY <1>3, <1>15, QuietPieces, SettlingPrefixed
<1>17. Save(k) \o Dispatch(s, k, m, FALSE) \o Save(done)
           = Save(k) \o (Dispatch(s, k, m, FALSE) \o Save(done))
  <2>1. /\ Save(k) \in Seq(WorkEffect) /\ Save(done) \in Seq(WorkEffect)
        /\ Dispatch(s, k, m, FALSE) \in Seq(WorkEffect)
    BY <1>3, <1>9, SaveTyped, DispatchTyped
  <2>2. \A x, y, z \in Seq(WorkEffect) : x \o y \o z = x \o (y \o z)
    BY ConcatAssociative
  <2> QED BY <2>1, <2>2, Zenon
<1>18. Redispatch(s, m) = Save(k) \o Dispatch(s, k, m, FALSE) \o Save(done)
  BY DEF Redispatch, Redispatching, k, cb, done, over
<1> QED BY <1>16, <1>17, <1>18

LEMMA BackoffBudget ==
    ASSUME NEW m \in Envelope, m.type = "backoff", kernel \in KernelState, ids \in Nat,
           tries \in [Steps -> Nat], Within(kernel, tries)
    PROVE  BudgetTodo(HandleBackoff(m), kernel, tries)
<1> DEFINE s == m.step
           b == kernel.backoffs[m.step]
           cleared == [kernel EXCEPT !.backoffs[m.step] = NoBackoff]
<1>1. s \in Steps /\ NoBackoff \in BackoffType
  BY LeasesTyped DEF Envelope
<1>2. cleared \in KernelState
  BY <1>1, BackoffSet
<1>3. /\ cleared.active = kernel.active /\ cleared.step = kernel.step
      /\ cleared.pending = kernel.pending /\ cleared.retries = kernel.retries
      /\ \A r \in Steps : cleared.backoffs[r] = IF r = s THEN NoBackoff ELSE kernel.backoffs[r]
  BY <1>1 DEF KernelState, KernelType
<1> HIDE DEF cleared
<1>4. Within(cleared, tries)
  <2> SUFFICES ASSUME kernel.active, kernel.step \in Steps
               PROVE  /\ \A r \in Steps \ {kernel.step} : cleared.backoffs[r] = NoBackoff
                      /\ tries[kernel.step] + Owed(cleared) <= kernel.retries[kernel.step] + 1
    BY <1>3 DEF Within
  <2>1. /\ \A r \in Steps \ {kernel.step} : kernel.backoffs[r] = NoBackoff
        /\ tries[kernel.step] + Owed(kernel) <= kernel.retries[kernel.step] + 1
    BY DEF Within
  <2>2. Waits(cleared, kernel.step) => Waits(kernel, kernel.step)
    BY <1>3 DEF Waits
  <2>3. Owed(cleared) <= Owed(kernel) /\ Owed(cleared) \in Nat /\ Owed(kernel) \in Nat
    BY <1>3, <2>2 DEF Owed
  <2>4. tries[kernel.step] \in Nat /\ kernel.retries[kernel.step] \in Nat
    BY KernelParts
  <2> QED BY <1>3, <2>1, <2>3, <2>4
<1>5. Save(cleared) \in Seq(CalmEffect(tries))
  BY <1>2, <1>4, CalmPieces
<1>6. Stage(<<>>, kernel, tries) /\ Stage(Save(cleared), kernel, tries)
  BY <1>5, CalmPieces DEF Stage
<1>7. kernel.active /\ kernel.pending => Stage(Resume(kernel) \o Again, kernel, tries)
  BY ResumeStage
<1>8. kernel.active /\ kernel.step = s /\ b # NoBackoff /\ ~b.dispatching =>
          Settling(Redispatch(s, m), tries)
  BY <1>1, RedispatchSettles DEF Waits
<1> QED BY <1>6, <1>7, <1>8 DEF HandleBackoff, Resumes, BudgetTodo, cleared

LEMMA AgentBudget ==
    ASSUME NEW t \in [Steps -> Nat], NEW q \in AgentTodos
    PROVE  q \in Seq(CalmEffect(t))
<1> DEFINE C == CalmEffect(t)
<1>1. /\ \A st \in {"running"} \cup Terminal : [do |-> "persist", status |-> st] \in C
      /\ [do |-> "disable"] \in C /\ [do |-> "post", m |-> StartMessage] \in C
  BY DEF CalmEffect, AgentEffects, PersistEffect, DisableEffect, OpenEffect
<1> SUFFICES q \in Seq(C)
  OBVIOUS
<1> HIDE DEF C
<1>2. Post(StartMessage) \in Seq(C) /\ Disable \in Seq(C)
  BY <1>1 DEF Post, Disable
<1>3. \A st \in {"running"} \cup Terminal : Persist(st) \in Seq(C)
  <2> SUFFICES ASSUME NEW st \in {"running"} \cup Terminal PROVE Persist(st) \in Seq(C)
    OBVIOUS
  <2> DEFINE e == [do |-> "persist", status |-> st]
  <2>1. e \in C /\ Persist(st) = <<e>>
    BY <1>1 DEF Persist
  <2> HIDE DEF e
  <2> QED BY <2>1
<1>4. Persist("running") \o Post(StartMessage) \in Seq(C)
  BY <1>2, <1>3, Joined
<1>5. \A st \in Terminal : Persist(st) \o Disable \in Seq(C)
  BY <1>2, <1>3, Joined
<1> QED BY <1>2, <1>4, <1>5 DEF AgentTodos

\* Whatever the envelope, its handler keeps the budget it finds.
LEMMA HandlerBudget ==
    ASSUME TypeInv, NEW m \in Envelope, m.type # "request", Within(kernel, tries)
    PROVE  BudgetTodo(Handler(m), kernel, tries)
<1>1. m.type \in HandlerTypes
  BY DEF Envelope, EnvelopeType, HandlerTypes
<1>2. kernel \in KernelState /\ ids \in Nat /\ modules \in BOOLEAN /\ tries \in [Steps -> Nat]
  BY DEF TypeInv
<1>3. CASE m.type \in {"chat", "runCompleted"}
  <2>1. Handler(m) \in AgentTodos
    BY <1>2, <1>3, AgentTyped DEF Handler
  <2> QED BY <1>2, <2>1, AgentBudget DEF BudgetTodo, Stage
<1>4. CASE m.type = "start"
  BY <1>2, <1>4, StartBudget DEF Handler
<1>5. CASE m.type = "timeout"
  BY <1>2, <1>5, TimeoutBudget DEF Handler
<1>6. CASE m.type = "backoff"
  BY <1>2, <1>6, BackoffBudget DEF Handler
<1>7. CASE m.type = "completed"
  BY <1>2, <1>7, CompletedBudget DEF Handler
<1>8. CASE m.type = "stop"
  <2>1. Persist("stopped") \o Disable \in AgentTodos
    BY DEF AgentTodos, Terminal
  <2>2. Stage(<<>>, kernel, tries) /\ Stage(Persist("stopped") \o Disable, kernel, tries)
    BY <1>2, <2>1, AgentBudget, CalmPieces DEF Stage
  <2>3. NoStep \in Steps \cup {NoStep} /\ "ok" \in OutcomeKinds
    BY DEF OutcomeKinds
  <2>4. Settling(Cleanup(kernel), tries)
    BY <1>2, <2>3, CleanupSettles
  <2> QED BY <1>8, <2>2, <2>4 DEF Handler, HandleStopped, BudgetTodo
<1> QED BY <1>1, <1>3, <1>4, <1>5, <1>6, <1>7, <1>8 DEF HandlerTypes

-----------------------------------------------------------------------------
(* The attempts a step is given                                            *)

\* Up to a crash, which may have a published request published again.
BudgetInv ==
    /\ \A s \in Steps : tries[s] <= MaxAttempts[s]
    /\ BudgetTodo(todo, kernel, tries)

\* The generation granted to a saved lease changes nothing in the budget.
LEMMA GrantedStage ==
    ASSUME NEW k \in KernelState, NEW t \in [Steps -> Nat], NEW q, Stage(q, k, t)
    PROVE  Stage(q, GrantedKernel(k), t)
<1>1. k \in KernelType
  BY DEF KernelState
<1> DEFINE ts == [s \in Steps |-> Granted(k.timeouts[s])]
           b == [s \in Steps |-> [k.backoffs[s] EXCEPT !.lease = Granted(@)]]
           g == GrantedKernel(k)
<1>2. g = [k EXCEPT !.timeouts = ts, !.backoffs = b]
  BY DEF GrantedKernel
<1>3. ASSUME NEW s \in Steps
      PROVE  /\ k.backoffs[s] = NoBackoff => b[s] = NoBackoff
             /\ b[s].dispatching = k.backoffs[s].dispatching
  <2>1. k.backoffs[s] = NoBackoff => b[s] = [NoBackoff EXCEPT !.lease = Granted(NoBackoff.lease)]
    OBVIOUS
  <2>2. Granted(NoBackoff.lease) = NoBackoff.lease
    BY DEF Granted, NoBackoff
  <2>3. k.backoffs[s] = NoBackoff => b[s] = NoBackoff
    BY <2>1, <2>2 DEF NoBackoff
  <2>4. k.backoffs[s] \in BackoffType
    BY KernelParts
  <2>5. b[s].dispatching = k.backoffs[s].dispatching
    BY <2>4 DEF BackoffType
  <2> QED BY <2>3, <2>5
<1> HIDE DEF ts, b
<1>4. /\ g.active = k.active /\ g.pending = k.pending /\ g.step = k.step
      /\ g.retries = k.retries /\ g.backoffs = b
  BY <1>1, <1>2 DEF KernelType
<1> HIDE DEF g
<1>5. ASSUME Within(k, t) PROVE Within(g, t)
  <2> SUFFICES ASSUME k.active, k.step \in Steps
               PROVE  /\ \A s \in Steps \ {k.step} : b[s] = NoBackoff
                      /\ t[k.step] + Owed(g) <= k.retries[k.step] + 1
    BY <1>4 DEF Within
  <2>1. /\ \A s \in Steps \ {k.step} : k.backoffs[s] = NoBackoff
        /\ t[k.step] + Owed(k) <= k.retries[k.step] + 1
    BY <1>5 DEF Within
  <2>2. Waits(g, k.step) => Waits(k, k.step)
    BY <1>3, <1>4 DEF Waits
  <2>3. Owed(g) <= Owed(k) /\ Owed(g) \in Nat /\ Owed(k) \in Nat
    BY <1>4, <2>2 DEF Owed
  <2>4. t[k.step] \in Nat /\ k.retries[k.step] \in Nat
    BY KernelParts
  <2> QED BY <1>3, <2>1, <2>3, <2>4
<1> QED BY <1>4, <1>5 DEF Stage, Ready, g

LEMMA RestWithin ==
    ASSUME NEW k, NEW t \in [Steps -> Nat], BudgetTodo(<<>>, k, t)
    PROVE  Within(k, t)
<1>1. ~Settling(<<>>, t)
  BY SettlingStep
<1>2. \A s \in Steps : ~Asking(<<>>, s, t)
  BY AskingTyped
<1> QED BY <1>1, <1>2 DEF BudgetTodo, Stage

LEMMA RestBudget ==
    ASSUME NEW k, NEW t, Within(k, t)
    PROVE  BudgetTodo(<<>>, k, t)
BY CalmPieces DEF BudgetTodo, Stage

\* A handler performs its next effect.
LEMMA PerformBudget ==
    ASSUME TypeInv, BudgetInv, Perform
    PROVE  BudgetInv'
<1> USE DEF runVars
<1> DEFINE e == Head(todo)
<1>1. todo # <<>> /\ tries \in [Steps -> Nat] /\ kernel \in KernelState
  BY PerformKind DEF TypeInv
<1>2. CASE e.do = "save"
  <2>1. SaveState
    BY <1>2, PerformKind
  <2>2. /\ todo' = Tail(todo) /\ kernel' = GrantedKernel(e.k)
        /\ tries' = Reset(tries, e.enters)
    BY <2>1 DEF SaveState, Step, GrantedKernel, Reset
  <2>3. e \in SaveEffect
    BY <1>1, <1>2, StageStep, SettlingStep DEF BudgetInv, BudgetTodo
  <2>4. e.k \in KernelState /\ tries' \in [Steps -> Nat]
    BY <1>1, <2>2, <2>3, KindsApart DEF Reset
  <2>5. Stage(Tail(todo), e.k, tries') \/ Settling(Tail(todo), tries')
    <3>1. Reset(tries, {}) = tries
      BY <1>1 DEF Reset
    <3>2. CASE Stage(todo, kernel, tries)
      BY <1>1, <1>2, <2>2, <3>1, <3>2, StageStep
    <3>3. CASE Settling(todo, tries)
      BY <1>1, <1>2, <2>2, <3>1, <3>3, SettlingStep
    <3> QED BY <3>2, <3>3 DEF BudgetInv, BudgetTodo
  <2>6. BudgetTodo(todo', kernel', tries')
    BY <2>2, <2>4, <2>5, GrantedStage DEF BudgetTodo
  <2>7. \A s \in Steps : tries'[s] <= MaxAttempts[s]
    <3> SUFFICES ASSUME NEW s \in Steps PROVE tries'[s] <= MaxAttempts[s]
      OBVIOUS
    <3>1. 0 < MaxAttempts[s] /\ MaxAttempts[s] \in Nat
      BY ConstantsAssumption
    <3>2. tries'[s] = 0 \/ tries'[s] = tries[s]
      BY <2>2 DEF Reset
    <3> QED BY <3>1, <3>2 DEF BudgetInv
  <2> QED BY <2>6, <2>7 DEF BudgetInv
<1>3. CASE e.do = "request"
  <2>1. PublishRequest
    BY <1>3, PerformKind
  <2>2. todo' = Tail(todo) /\ kernel' = kernel /\ tries' = More(tries, e.step)
    BY <2>1 DEF PublishRequest, Step, More
  <2>3. /\ e.step \in Steps /\ Ready(kernel, e.step, tries)
        /\ Settling(Tail(todo), More(tries, e.step))
    <3>1. ~Settling(todo, tries)
      BY <1>1, <1>3, SettlingStep
    <3> QED BY <1>1, <1>3, <3>1, StageStep DEF BudgetInv, BudgetTodo
  <2>4. BudgetTodo(todo', kernel', tries')
    BY <2>2, <2>3 DEF BudgetTodo
  <2>5. tries[e.step] + 1 <= MaxAttempts[e.step]
    <3>1. /\ tries[e.step] \in Nat /\ kernel.retries[e.step] \in Nat
          /\ kernel.retries[e.step] < MaxAttempts[e.step] /\ MaxAttempts[e.step] \in Nat
      BY <1>1, <2>3, KernelParts
    <3>2. tries[e.step] + Owed(kernel) <= kernel.retries[e.step] + 1
      BY <2>3 DEF Ready, Within
    <3>3. Owed(kernel) \in Nat /\ Owed(kernel) >= 1
      BY <2>3 DEF Ready, Owed
    <3> QED BY <3>1, <3>2, <3>3
  <2>6. \A s \in Steps : tries'[s] <= MaxAttempts[s]
    BY <1>1, <2>2, <2>3, <2>5 DEF BudgetInv, More
  <2> QED BY <2>4, <2>6 DEF BudgetInv
<1>4. CASE e.do \in {"arm", "cancel"}
  <2>1. todo' = Tail(todo) /\ kernel' = kernel /\ tries' = tries
    BY <1>4, PerformKind DEF ScheduleCallback, CancelCallbacks, Step
  <2>2. BudgetTodo(Tail(todo), kernel, tries)
    BY <1>1, <1>4, StageStep, SettlingStep DEF BudgetInv, BudgetTodo
  <2> QED BY <2>1, <2>2 DEF BudgetInv
<1>5. ASSUME e.do \notin {"save", "request", "arm", "cancel"}
      PROVE  Within(kernel, tries) /\ Tail(todo) \in Seq(CalmEffect(tries))
  <2>1. ~Settling(todo, tries)
    BY <1>1, <1>5, SettlingStep
  <2> QED BY <1>1, <1>5, <2>1, StageStep DEF BudgetInv, BudgetTodo
<1>6. CASE e.do = "again"
  <2>1. todo' = Handler(now) /\ kernel' = kernel /\ tries' = tries
    BY <1>6, PerformKind DEF Reload
  <2>2. now \in Envelope /\ now.type # "request"
    BY <1>1 DEF TypeInv
  <2>3. BudgetTodo(Handler(now), kernel, tries)
    BY <1>5, <1>6, <2>2, HandlerBudget
  <2> QED BY <2>1, <2>3 DEF BudgetInv
<1>7. CASE e.do = "persist"
  <2>1. /\ todo' = Tail(todo) /\ tries' = tries
        /\ kernel' = Idle \/ kernel' = kernel
    BY <1>7, PerformKind DEF PersistStatus, Step
  <2>2. Within(Idle, tries)
    BY DEF Within, Idle
  <2>3. Stage(todo', kernel', tries')
    BY <1>5, <1>7, <2>1, <2>2 DEF Stage
  <2> QED BY <2>1, <2>3 DEF BudgetInv, BudgetTodo
<1>8. CASE e.do \in {"post", "tell", "disable"}
  <2>1. todo' = Tail(todo) /\ tries' = tries /\ kernel' = kernel
    BY <1>8, PerformKind DEF PublishSelf, TellParent, DisableModules, Step
  <2>2. Stage(todo', kernel', tries')
    BY <1>5, <1>8, <2>1 DEF Stage
  <2> QED BY <2>1, <2>2 DEF BudgetInv, BudgetTodo
<1>9. e.do \in {"save", "post", "request", "tell", "arm", "cancel", "again", "persist", "disable"}
  BY DEF Perform, SaveState, PublishSelf, PublishRequest, TellParent, ScheduleCallback,
         CancelCallbacks, Reload, PersistStatus, DisableModules, Effect
<1> QED BY <1>2, <1>3, <1>4, <1>6, <1>7, <1>8, <1>9

LEMMA FailureBudget ==
    ASSUME TypeInv, BudgetInv, PublishFails
    PROVE  BudgetInv'
<1>1. tries \in [Steps -> Nat] /\ kernel \in KernelState /\ todo # <<>>
  BY DEF TypeInv, PublishFails, Effect
<1>2. Head(todo).do \in {"request", "post"}
  BY DEF PublishFails, Effect
<1>3. Stage(todo, kernel, tries)
  BY <1>1, <1>2, SettlingStep DEF BudgetInv, BudgetTodo
<1>4. Within(kernel, tries)
  BY <1>1, <1>2, <1>3, StageStep DEF Ready
<1>5. /\ kernel'.active = kernel.active /\ kernel'.pending = kernel.pending
      /\ kernel'.step = kernel.step /\ kernel'.retries = kernel.retries
      /\ kernel'.backoffs = kernel.backoffs
  <2>1. \/ kernel' = kernel
        \/ kernel' = [kernel EXCEPT !.timeouts[Head(todo).step] = NoLease]
    BY DEF PublishFails
  <2> QED BY <1>1, <2>1 DEF KernelState, KernelType
<1>6. todo' = <<>> /\ tries' = tries
  BY DEF PublishFails
<1>7. Within(kernel', tries')
  BY <1>4, <1>5, <1>6 DEF Within, Owed, Waits
<1>8. BudgetTodo(todo', kernel', tries')
  BY <1>6, <1>7, RestBudget
<1> QED BY <1>6, <1>8 DEF BudgetInv

LEMMA BudgetStep ==
    ASSUME TypeInv, crashes = 0 => BudgetInv, [Next]_vars
    PROVE  crashes' = 0 => BudgetInv'
<1> USE DEF runVars
<1>1. CASE Deliver
  <2>1. /\ mailbox # <<>> /\ Head(mailbox).type # "request" /\ todo = <<>>
        /\ todo' = Handler(Head(mailbox))
        /\ kernel' = kernel /\ tries' = tries /\ crashes' = crashes
    BY <1>1 DEF Deliver
  <2>2. Head(mailbox) \in Envelope /\ tries \in [Steps -> Nat]
    BY <2>1, MailboxTyped DEF TypeInv
  <2>3. ASSUME BudgetInv PROVE BudgetTodo(Handler(Head(mailbox)), kernel, tries)
    <3>1. Within(kernel, tries)
      BY <2>1, <2>2, <2>3, RestWithin DEF BudgetInv
    <3> QED BY <2>1, <2>2, <3>1, HandlerBudget
  <2> QED BY <2>1, <2>3 DEF BudgetInv
<1>2. CASE Perform
  <2>1. crashes' = crashes
    BY <1>2 DEF Perform, SaveState, PublishSelf, PublishRequest, TellParent, ScheduleCallback,
                CancelCallbacks, Reload, PersistStatus, DisableModules
  <2> QED BY <1>2, <2>1, PerformBudget
<1>3. CASE PublishFails
  <2>1. crashes' = crashes
    BY <1>3 DEF PublishFails
  <2> QED BY <1>3, <2>1, FailureBudget
<1>4. CASE Crash
  BY <1>4 DEF Crash, TypeInv
<1>5. CASE \/ AcceptRequest \/ RequestStop \/ UNCHANGED vars
           \/ \E w \in working : Answer(w)
           \/ \E c \in armed : Fire(c)
           \/ \E m \in retrying : Redeliver(m)
  <2>1. UNCHANGED <<todo, kernel, tries, crashes>>
    BY <1>5 DEF AcceptRequest, RequestStop, Answer, Fire, Redeliver, vars
  <2> QED BY <2>1 DEF BudgetInv
<1> QED BY <1>1, <1>2, <1>3, <1>4, <1>5 DEF Next

LEMMA InitBudget == Init => BudgetInv
<1> SUFFICES ASSUME Init PROVE BudgetInv
  OBVIOUS
<1>1. todo = <<>> /\ kernel = Idle /\ tries = [s \in Steps |-> 0]
  BY DEF Init
<1>2. Within(kernel, tries)
  BY <1>1 DEF Within, Idle
<1>3. \A s \in Steps : tries[s] <= MaxAttempts[s]
  BY <1>1, ConstantsAssumption
<1> QED BY <1>1, <1>2, <1>3, RestBudget DEF BudgetInv

\* AttemptBudget for every workflow and retry policy, and for any number of
\* requests, stops and failed publications: a replayed dispatch, a timeout that
\* meets a pending one, a late answer and a backoff that fires during another
\* handler's retry never add up to one request too many (TryRetryAsync,
\* StartRetryBackoffAsync, HandleRetryBackoffFiredAsync,
\* ResumePendingCurrentStepDispatchAsync).
THEOREM AttemptsBounded == Spec => []AttemptBudget
<1>1. Init => (crashes = 0 => BudgetInv)
  BY InitBudget
<1>2. TypeInv /\ (crashes = 0 => BudgetInv) /\ [Next]_vars => (crashes = 0 => BudgetInv)'
  BY BudgetStep
<1>3. (crashes = 0 => BudgetInv) => AttemptBudget
  BY DEF BudgetInv, AttemptBudget
<1> QED BY <1>1, <1>2, <1>3, TypesHold, PTL DEF Spec

-----------------------------------------------------------------------------
(* Callbacks: which state a handler leaves, and what it schedules for it   *)

\* Effects around the last save of a handler that resumes nothing.
Trail == RequestEffect \cup CancelEffect \cup CompletionEffect \cup EndEffect \cup AgentEffects
Lead == Trail \cup SaveEffect

\* The handler saves k last.
Lands(q, k) ==
    \E p \in Seq(Lead), e \in SaveEffect, w \in Seq(Trail) : e.k = k /\ q = p \o (<<e>> \o w)

\* Before that it schedules one callback.
Arming(q, a, k) == \E p \in Seq(Lead) : \E z : Lands(z, k) /\ q = p \o (<<a>> \o z)

\* The leases it cancels.
Cancelled(q) == UNION {e.leases : e \in {x \in Range(q) : x.do = "cancel"}}

LEMMA LeadKinds ==
    /\ Seq(Trail) \subseteq Seq(Lead) /\ Seq(Lead) \subseteq Seq(AnyEffect)
    /\ SaveEffect \subseteq Lead /\ ArmEffect \subseteq AnyEffect /\ Trail \subseteq Lead
    /\ \A e \in Trail : e.do \notin {"save", "arm", "again"}
    /\ \A e \in Lead : e.do \notin {"arm", "again"} /\ (e.do = "save" => e \in SaveEffect)
<1>1. /\ Trail \subseteq Lead /\ Lead \subseteq AnyEffect
      /\ SaveEffect \subseteq Lead /\ ArmEffect \subseteq AnyEffect
  BY DEF Trail, Lead, AnyEffect, KernelEffect, WorkEffect
<1>2. \A S, T : S \subseteq T => Seq(S) \subseteq Seq(T)
  OBVIOUS
<1>3. \A e \in Trail : e.do \notin {"save", "arm", "again"}
  BY DEF Trail, RequestEffect, CancelEffect, CompletionEffect, EndEffect, AgentEffects,
         PersistEffect, DisableEffect, OpenEffect
<1>4. \A e \in Lead : e.do \notin {"arm", "again"} /\ (e.do = "save" => e \in SaveEffect)
  BY <1>3, KindsApart DEF Lead
<1> QED BY <1>1, <1>2, <1>3, <1>4

LEMMA LandsTyped ==
    ASSUME NEW q, NEW k, Lands(q, k)
    PROVE  q \in Seq(Lead) /\ q # <<>>
<1>1. PICK p \in Seq(Lead), e \in SaveEffect, w \in Seq(Trail) : q = p \o (<<e>> \o w)
  BY DEF Lands
<1>2. e \in Lead /\ w \in Seq(Lead)
  BY LeadKinds
<1>3. <<e>> \o w \in Seq(Lead) /\ <<e>> \o w # <<>>
  BY <1>2, RangePrefixed
<1>4. p \o (<<e>> \o w) \in Seq(Lead) /\ p \o (<<e>> \o w) # <<>>
  BY <1>3
<1> QED BY <1>1, <1>4

LEMMA ArmingTyped ==
    ASSUME NEW q, NEW k, NEW a \in ArmEffect, Arming(q, a, k)
    PROVE  q \in Seq(AnyEffect) /\ q # <<>>
<1>1. PICK p \in Seq(Lead) : \E z : Lands(z, k) /\ q = p \o (<<a>> \o z)
  BY DEF Arming
<1>2. PICK z : Lands(z, k) /\ q = p \o (<<a>> \o z)
  BY <1>1
<1>3. z \in Seq(AnyEffect) /\ a \in AnyEffect /\ p \in Seq(AnyEffect)
  BY <1>2, LandsTyped, LeadKinds
<1>4. <<a>> \o z \in Seq(AnyEffect) /\ <<a>> \o z # <<>>
  BY <1>3, RangePrefixed
<1>5. p \o (<<a>> \o z) \in Seq(AnyEffect) /\ p \o (<<a>> \o z) # <<>>
  BY <1>3, <1>4
<1> QED BY <1>2, <1>5

LEMMA TrailStep ==
    ASSUME NEW q \in Seq(Trail), q # <<>>
    PROVE  Head(q) \in Trail /\ Tail(q) \in Seq(Trail)
OBVIOUS

LEMMA LandsStep ==
    ASSUME NEW q, NEW k, Lands(q, k)
    PROVE  /\ Head(q) \in Lead
           /\ \/ Lands(Tail(q), k)
              \/ Head(q) \in SaveEffect /\ Head(q).k = k /\ Tail(q) \in Seq(Trail)
<1>1. PICK p \in Seq(Lead), e \in SaveEffect, w \in Seq(Trail) :
          e.k = k /\ q = p \o (<<e>> \o w)
  BY DEF Lands
<1> DEFINE c == <<e>> \o w
<1>2. e \in Lead /\ w \in Seq(Lead)
  BY LeadKinds
<1>3. c \in Seq(Lead) /\ c # <<>> /\ Head(c) = e /\ Tail(c) = w
  BY <1>2, RangePrefixed
<1>4. q = p \o c
  BY <1>1
<1> HIDE DEF c
<1>5. CASE p = <<>>
  <2>1. q = c
    BY <1>3, <1>4, <1>5, ConcatEmptySeq
  <2> QED BY <1>1, <1>2, <1>3, <2>1
<1>6. CASE p # <<>>
  <2>1. Head(q) = Head(p) /\ Tail(q) = Tail(p) \o c
    BY <1>3, <1>4, <1>6, JoinedTail
  <2>2. Head(p) \in Lead /\ Tail(p) \in Seq(Lead)
    BY <1>6
  <2>3. Lands(Tail(q), k)
    BY <1>1, <2>1, <2>2 DEF Lands, c
  <2> QED BY <2>1, <2>2, <2>3
<1> QED BY <1>5, <1>6

LEMMA ArmingStep ==
    ASSUME NEW q, NEW k, NEW a \in ArmEffect, Arming(q, a, k)
    PROVE  \/ Head(q) = a /\ Lands(Tail(q), k)
           \/ Head(q) \in Lead /\ Arming(Tail(q), a, k)
<1>1. PICK p \in Seq(Lead) : \E z : Lands(z, k) /\ q = p \o (<<a>> \o z)
  BY DEF Arming
<1>2. PICK z : Lands(z, k) /\ q = p \o (<<a>> \o z)
  BY <1>1
<1> DEFINE c == <<a>> \o z
<1>3. z \in Seq(AnyEffect) /\ a \in AnyEffect /\ p \in Seq(AnyEffect)
  BY <1>2, LandsTyped, LeadKinds
<1>4. c \in Seq(AnyEffect) /\ c # <<>> /\ Head(c) = a /\ Tail(c) = z
  BY <1>3, RangePrefixed
<1>5. q = p \o c
  BY <1>2
<1> HIDE DEF c
<1>6. CASE p = <<>>
  <2>1. q = c
    BY <1>4, <1>5, <1>6, ConcatEmptySeq
  <2> QED BY <1>2, <1>4, <2>1
<1>7. CASE p # <<>>
  <2>1. Head(q) = Head(p) /\ Tail(q) = Tail(p) \o c
    BY <1>3, <1>4, <1>5, <1>7, JoinedTail
  <2>2. Head(p) \in Lead /\ Tail(p) \in Seq(Lead)
    BY <1>7
  <2>3. Arming(Tail(q), a, k)
    BY <1>2, <2>1, <2>2 DEF Arming, c
  <2> QED BY <2>1, <2>2, <2>3
<1> QED BY <1>6, <1>7

\* A handler may begin with other effects.
LEMMA LandsPrefixed ==
    ASSUME NEW x \in Seq(Lead), NEW q, NEW k, Lands(q, k)
    PROVE  Lands(x \o q, k)
<1>1. PICK p \in Seq(Lead), e \in SaveEffect, w \in Seq(Trail) :
          e.k = k /\ q = p \o (<<e>> \o w)
  BY DEF Lands
<1> DEFINE c == <<e>> \o w
<1>2. e \in Lead /\ w \in Seq(Lead)
  BY LeadKinds
<1>3. c \in Seq(Lead)
  BY <1>2, RangePrefixed
<1>4. q = p \o c
  BY <1>1
<1> HIDE DEF c
<1>5. x \o q = (x \o p) \o c
  <2>1. (x \o p) \o c = x \o (p \o c)
    BY <1>3, ConcatAssociative
  <2> QED BY <1>4, <2>1
<1>6. x \o p \in Seq(Lead)
  BY Joined
<1> QED BY <1>1, <1>5, <1>6 DEF Lands, c

LEMMA ArmingPrefixed ==
    ASSUME NEW x \in Seq(Lead), NEW q, NEW k, NEW a \in ArmEffect, Arming(q, a, k)
    PROVE  Arming(x \o q, a, k)
<1>1. PICK p \in Seq(Lead) : \E z : Lands(z, k) /\ q = p \o (<<a>> \o z)
  BY DEF Arming
<1>2. PICK z : Lands(z, k) /\ q = p \o (<<a>> \o z)
  BY <1>1
<1> DEFINE c == <<a>> \o z
<1>3. z \in Seq(AnyEffect) /\ a \in AnyEffect /\ p \in Seq(AnyEffect) /\ x \in Seq(AnyEffect)
  BY <1>2, LandsTyped, LeadKinds
<1>4. c \in Seq(AnyEffect)
  BY <1>3, RangePrefixed
<1>5. q = p \o c
  BY <1>2
<1> HIDE DEF c
<1>6. x \o q = (x \o p) \o c
  <2>1. (x \o p) \o c = x \o (p \o c)
    BY <1>3, <1>4, ConcatAssociative
  <2> QED BY <1>5, <2>1
<1>7. x \o p \in Seq(Lead)
  BY Joined
<1> QED BY <1>2, <1>6, <1>7 DEF Arming, c

LEMMA SaveLands ==
    ASSUME NEW e \in SaveEffect, NEW w \in Seq(Trail)
    PROVE  Lands(<<e>> \o w, e.k)
<1>1. e \in Lead /\ w \in Seq(Lead)
  BY LeadKinds
<1>2. <<e>> \o w \in Seq(Lead)
  BY <1>1, RangePrefixed
<1>3. <<e>> \o w = <<>> \o (<<e>> \o w) /\ <<>> \in Seq(Lead)
  BY <1>2, ConcatEmptySeq
<1> QED BY <1>3 DEF Lands

LEMMA StateLands ==
    ASSUME NEW k \in KernelState, NEW w \in Seq(Trail)
    PROVE  Lands(Save(k) \o w, k) /\ Lands(Save(k), k)
<1> DEFINE e == [do |-> "save", k |-> k, enters |-> {}]
<1>1. e \in SaveEffect /\ e.k = k /\ Save(k) = <<e>>
  BY DEF SaveEffect, Save
<1> HIDE DEF e
<1>2. <<e>> \o <<>> = <<e>> /\ <<>> \in Seq(Trail)
  <2>1. <<e>> \in Seq(SaveEffect)
    BY <1>1
  <2> QED BY <2>1, ConcatEmptySeq
<1> QED BY <1>1, <1>2, SaveLands

LEMMA ArmLands ==
    ASSUME NEW a \in ArmEffect, NEW z, NEW k, Lands(z, k)
    PROVE  Arming(<<a>> \o z, a, k)
<1>1. a \in AnyEffect /\ z \in Seq(AnyEffect)
  BY LandsTyped, LeadKinds
<1>2. <<a>> \o z \in Seq(AnyEffect)
  BY <1>1, RangePrefixed
<1>3. <<a>> \o z = <<>> \o (<<a>> \o z) /\ <<>> \in Seq(Lead)
  BY <1>2, ConcatEmptySeq
<1> QED BY <1>3 DEF Arming

LEMMA CancelledTaken ==
    ASSUME NEW q \in Seq(AnyEffect), q # <<>>
    PROVE  /\ Head(q).do # "cancel" => Cancelled(q) = Cancelled(Tail(q))
           /\ Head(q).do = "cancel" => Cancelled(q) = Head(q).leases \cup Cancelled(Tail(q))
<1>1. Range(q) = {Head(q)} \cup Range(Tail(q))
  BY RangeTaken
<1> QED BY <1>1 DEF Cancelled

LEMMA CancelledJoined ==
    ASSUME NEW x \in Seq(AnyEffect), NEW y \in Seq(AnyEffect)
    PROVE  Cancelled(x) \subseteq Cancelled(x \o y) /\ Cancelled(y) \subseteq Cancelled(x \o y)
<1>1. Range(x \o y) = Range(x) \cup Range(y)
  BY RangeConcatenation
<1> QED BY <1>1 DEF Cancelled

-----------------------------------------------------------------------------
(* The state in which a handler leaves the kernel, and its callbacks       *)

\* A saved lease has its generation, or is about to be granted it.
Dated(l, g) == l = NoLease \/ l.gen = 1 \/ (l.gen = 0 /\ g = 1)

\* No dispatch is pending, and only the current step of an active run has a timeout
\* or a backoff: one of both, with its lease.
Tidy(k, g) ==
    /\ ~k.pending
    /\ \A s \in Steps :
           /\ Dated(k.timeouts[s], g) /\ Dated(k.backoffs[s].lease, g)
           /\ k.timeouts[s] # NoLease => k.active /\ s = k.step
           /\ k.backoffs[s] # NoBackoff =>
                  /\ k.active /\ s = k.step /\ ~k.backoffs[s].dispatching
                  /\ k.backoffs[s].lease # NoLease /\ k.timeouts[s] = NoLease
    /\ k.cb # NoCallback =>
           k.step \in Steps /\ k.timeouts[k.step] # NoLease /\ k.timeouts[k.step].cb = k.cb

\* Callbacks that carry the id of a step's timeout belong to its attempt; I holds
\* the ids and attempts of all callbacks there are.
Hits(k, I) ==
    \A s \in Steps : k.timeouts[s] # NoLease =>
        \A i \in I : i.cb = k.timeouts[s].cb => i.attempt = k.exec[s]

Owns(k, cb) == \E s \in Steps : cb = k.timeouts[s].cb \/ cb = k.backoffs[s].lease.cb

\* Every callback of A is the state's own or will be cancelled.
Held(q, k, A) == \A c \in A : Owns(k, c.cb) \/ [cb |-> c.cb, gen |-> 1] \in Cancelled(q)

\* The callback a handler of envelope o is about to schedule is new, and the state it
\* saves at the end holds it for the attempt it was scheduled for.
Suits(a, k, I, o) ==
    /\ a.cb.origin = o /\ Owns(k, a.cb)
    /\ \A s \in Steps : k.timeouts[s].cb = a.cb => a.attempt = k.exec[s]
    /\ \A i \in I : i.cb # a.cb

\* What may be left of a handler.
Resting(q, k, I, A) == q \in Seq(Trail) /\ Tidy(k, 0) /\ Hits(k, I) /\ Held(q, k, A)
Landing(q, g, I, A) ==
    \E k \in KernelState : Lands(q, k) /\ Tidy(k, g) /\ Hits(k, I) /\ Held(q, k, A)
Scheduling(q, I, A, o) ==
    \E k \in KernelState, a \in ArmEffect :
        Arming(q, a, k) /\ Suits(a, k, I, o) /\ Tidy(k, 1) /\ Hits(k, I) /\ Held(q, k, A)
Turning(q, g, I, A, o) == Landing(q, g, I, A) \/ Scheduling(q, I, A, o)

Fresh(I, o) == \A i \in I : i.cb.origin # o

Leaseless(k) == \A s \in Steps : k.timeouts[s] = NoLease /\ k.backoffs[s] = NoBackoff

\* A step whose request was made: its timeout, if it has one, and nothing else.
Started(k, s, m) ==
    /\ k.active /\ k.step = s /\ ~k.pending /\ k.exec[s] = ids + 1
    /\ k.cb = IF s \in Timed THEN Callback("timeout", s, m.id) ELSE NoCallback
    /\ k.timeouts[s] = IF s \in Timed THEN [cb |-> Callback("timeout", s, m.id), gen |-> 0]
                       ELSE NoLease
    /\ \A r \in Steps \ {s} : k.timeouts[r] = NoLease
    /\ \A r \in Steps : k.backoffs[r] = NoBackoff

LEMMA LeaselessTidy ==
    ASSUME NEW k \in KernelState, NEW g, NEW I, Leaseless(k), ~k.pending, k.cb = NoCallback
    PROVE  Tidy(k, g) /\ Hits(k, I)
<1>1. NoBackoff.lease = NoLease
  BY DEF NoBackoff
<1>2. \A s \in Steps : /\ k.timeouts[s] = NoLease /\ k.backoffs[s] = NoBackoff
                      /\ k.backoffs[s].lease = NoLease
  BY <1>1 DEF Leaseless
<1> QED BY <1>2 DEF Tidy, Hits, Dated

LEMMA IdleTidy ==
    ASSUME NEW g, NEW I
    PROVE  Tidy(Idle, g) /\ Hits(Idle, I)
<1>1. Leaseless(Idle) /\ ~Idle.pending /\ Idle.cb = NoCallback
  BY DEF Leaseless, Idle
<1> QED BY <1>1, IdleTyped, LeaselessTidy

LEMMA StartedTidy ==
    ASSUME NEW k \in KernelState, NEW s \in Steps, NEW m \in Envelope, Started(k, s, m),
           NEW g, NEW I, Fresh(I, m.id)
    PROVE  /\ Tidy(k, 1) /\ Hits(k, I) /\ (s \notin Timed => Tidy(k, g))
           /\ s \in Timed => Callback("timeout", s, m.id) \in Due
           /\ \A a \in ArmEffect :
                  s \in Timed /\ a.cb = Callback("timeout", s, m.id) /\ a.attempt = ids + 1
                      => Suits(a, k, I, m.id)
<1> DEFINE cb == Callback("timeout", s, m.id)
           l == [cb |-> cb, gen |-> 0]
<1>1. m.id \in Nat
  BY DEF Envelope, EnvelopeType
<1>2. cb \in Due /\ cb.origin = m.id /\ cb # NoCallback
  BY <1>1 DEF Callback, Due, NoCallback
<1>3. l.cb = cb /\ l.gen = 0 /\ l # NoLease
  BY <1>2 DEF NoLease
<1>4. NoBackoff.lease = NoLease /\ NoLease.cb = NoCallback
  BY DEF NoBackoff, NoLease
<1>5. /\ k.active /\ k.step = s /\ ~k.pending /\ k.exec[s] = ids + 1
      /\ s \in Timed => k.cb = cb /\ k.timeouts[s] = l
      /\ s \notin Timed => k.cb = NoCallback /\ k.timeouts[s] = NoLease
      /\ \A r \in Steps \ {s} : k.timeouts[r] = NoLease
      /\ \A r \in Steps : k.backoffs[r] = NoBackoff
  BY DEF Started
<1>6. \A i \in I : i.cb # cb
  BY <1>2 DEF Fresh
<1> HIDE DEF cb, l
<1>7. Tidy(k, 1) /\ (s \notin Timed => Tidy(k, g))
  BY <1>2, <1>3, <1>4, <1>5 DEF Tidy, Dated
<1>8. Hits(k, I)
  BY <1>3, <1>5, <1>6 DEF Hits
<1>9. ASSUME NEW a \in ArmEffect, s \in Timed, a.cb = cb, a.attempt = ids + 1
      PROVE  Suits(a, k, I, m.id)
  <2>1. Owns(k, a.cb)
    BY <1>3, <1>5, <1>9 DEF Owns
  <2>2. \A r \in Steps : k.timeouts[r].cb = a.cb => a.attempt = k.exec[r]
    BY <1>2, <1>4, <1>5, <1>9
  <2> QED BY <1>2, <1>6, <1>9, <2>1, <2>2 DEF Suits
<1> QED BY <1>2, <1>7, <1>8, <1>9 DEF cb

LEMMA TrailPieces ==
    /\ \A l \in LeaseType : Cancel(l) \in Seq(Trail)
    /\ \A leases \in SUBSET LeaseType : CancelAll(leases) \in Seq(Trail)
    /\ <<>> \in Seq(Trail)
    /\ \A result \in OutcomeKinds, s \in Steps \cup {NoStep} : Outcome(result, s) \in Seq(Trail)
    /\ \A k \in KernelState : Save(k) \in Seq(Lead)
<1>1. \A leases \in SUBSET LeaseType : [do |-> "cancel", leases |-> leases] \in Trail
  BY DEF Trail, CancelEffect
<1>2. ASSUME NEW l \in LeaseType PROVE Cancel(l) \in Seq(Trail)
  <2>1. [do |-> "cancel", leases |-> {l}] \in Trail
    BY <1>1
  <2> QED BY <2>1 DEF Cancel
<1>3. ASSUME NEW leases \in SUBSET LeaseType PROVE CancelAll(leases) \in Seq(Trail)
  BY <1>1 DEF CancelAll
<1>4. ASSUME NEW result \in OutcomeKinds, NEW s \in Steps \cup {NoStep}
      PROVE  Outcome(result, s) \in Seq(Trail)
  <2>1. PICK m \in Envelope :
          /\ m.type = "runCompleted"
          /\ Outcome(result, s) = <<[do |-> "post", m |-> m], [do |-> "tell", m |-> m]>>
    BY OutcomeTyped
  <2>2. [do |-> "post", m |-> m] \in Trail /\ [do |-> "tell", m |-> m] \in Trail
    BY <2>1 DEF Trail, EndEffect
  <2> QED BY <2>1, <2>2
<1>5. ASSUME NEW k \in KernelState PROVE Save(k) \in Seq(Lead)
  <2>1. [do |-> "save", k |-> k, enters |-> {}] \in Lead
    BY DEF Lead, SaveEffect
  <2> QED BY <2>1 DEF Save
<1> QED BY <1>2, <1>3, <1>4, <1>5

\* Effects before the schedule or the last save; what they cancel need not be held.
LEMMA TurningPrefixed ==
    ASSUME NEW x \in Seq(Lead), NEW q, NEW g, NEW I, NEW A, NEW o, Turning(q, g, I, {}, o),
           \A c \in A : [cb |-> c.cb, gen |-> 1] \in Cancelled(x)
    PROVE  Turning(x \o q, g, I, A, o)
<1>1. q \in Seq(AnyEffect) /\ x \in Seq(AnyEffect)
  BY LandsTyped, ArmingTyped, LeadKinds DEF Turning, Landing, Scheduling
<1>2. \A k : Held(x \o q, k, A)
  BY <1>1, CancelledJoined DEF Held
<1> QED BY <1>2, LandsPrefixed, ArmingPrefixed DEF Turning, Landing, Scheduling

LEMMA CleanupTurns ==
    ASSUME NEW k \in KernelState, NEW result \in OutcomeKinds, NEW s \in Steps \cup {NoStep},
           NEW g, NEW I, NEW o
    PROVE  /\ Turning(Cleanup(k) \o Outcome(result, s), g, I, {}, o)
           /\ Turning(Cleanup(k), g, I, {}, o)
<1> DEFINE leases == ({k.timeouts[r] : r \in Steps} \cup {k.backoffs[r].lease : r \in Steps})
                     \ {NoLease}
           cancel == CancelAll(leases)
           end == Outcome(result, s)
<1>1. leases \in SUBSET LeaseType
  BY DEF KernelState, KernelType
<1>2. Cleanup(k) = Save(Idle) \o cancel
  BY DEF Cleanup, CancelAll
<1> HIDE DEF leases
<1>3. cancel \in Seq(Trail) /\ end \in Seq(Trail)
  BY <1>1, TrailPieces
<1>4. Save(Idle) \in Seq(Lead)
  BY IdleTyped, TrailPieces
<1> HIDE DEF cancel, end
<1>5. cancel \o end \in Seq(Trail) /\ Cleanup(k) \o end = Save(Idle) \o (cancel \o end)
  <2>1. cancel \in Seq(Lead) /\ end \in Seq(Lead)
    BY <1>3, LeadKinds
  <2> QED BY <1>2, <1>3, <1>4, <2>1, ConcatAssociative
<1>6. Lands(Save(Idle) \o (cancel \o end), Idle) /\ Lands(Save(Idle) \o cancel, Idle)
  BY <1>3, <1>5, IdleTyped, StateLands
<1>7. \A q : Held(q, Idle, {})
  BY DEF Held
<1> QED BY <1>2, <1>5, <1>6, <1>7, IdleTyped, IdleTidy DEF Turning, Landing, end

\* Names for a sequence of effects and for concatenation, to regroup long handlers with.
Effects(x) == x \in Seq(AnyEffect)
Then(x, y) == x \o y

LEMMA Regrouped ==
    ASSUME NEW e, NEW t, NEW r, NEW d, NEW c,
           Effects(e), Effects(t), Effects(r), Effects(d), Effects(c)
    PROVE  Then(Then(Then(Then(e, t), r), d), c) = Then(e, Then(t, Then(r, Then(d, c))))
<1>1. \A x, y \in Seq(AnyEffect) : x \o y \in Seq(AnyEffect)
  OBVIOUS
<1>2. \A x, y : Effects(x) /\ Effects(y) => Effects(Then(x, y))
  BY <1>1 DEF Effects, Then
<1>3. ASSUME NEW x, NEW y, NEW z, Effects(x), Effects(y), Effects(z)
      PROVE  Then(Then(x, y), z) = Then(x, Then(y, z))
  <2>1. x \in Seq(AnyEffect) /\ y \in Seq(AnyEffect) /\ z \in Seq(AnyEffect)
    BY <1>3 DEF Effects
  <2> HIDE DEF AnyEffect
  <2>2. (x \o y) \o z = x \o (y \o z)
    BY <2>1, ConcatAssociative
  <2> QED BY <2>2 DEF Then
<1>4. Effects(Then(e, t)) /\ Effects(Then(d, c))
  BY <1>2
<1>5. Effects(Then(Then(e, t), r)) /\ Effects(Then(r, Then(d, c)))
  BY <1>2, <1>4
<1>6. Then(Then(Then(Then(e, t), r), d), c) = Then(Then(Then(e, t), r), Then(d, c))
  BY <1>3, <1>5
<1>7. Then(Then(Then(e, t), r), Then(d, c)) = Then(Then(e, t), Then(r, Then(d, c)))
  BY <1>3, <1>4
<1>8. Then(Then(e, t), Then(r, Then(d, c))) = Then(e, Then(t, Then(r, Then(d, c))))
  BY <1>3, <1>5
<1> QED BY <1>6, <1>7, <1>8

\* A dispatch saves, schedules a timeout if the step has one, and requests.
LEMMA DispatchTurns ==
    ASSUME NEW s \in Steps, NEW k \in KernelState, NEW m \in Envelope, NEW visit \in BOOLEAN,
           ids \in Nat, NEW c \in Seq(Lead), NEW last \in KernelState,
           Lands(Save(Dispatched(s, k, m)) \o c, last), Started(last, s, m),
           NEW g, NEW I, Fresh(I, m.id)
    PROVE  Turning(Dispatch(s, k, m, visit) \o c, g, I, {}, m.id)
<1> DEFINE done == Dispatched(s, k, m)
           waiting == [done EXCEPT !.pending = TRUE]
           first == [waiting EXCEPT !.timeouts[s] = k.timeouts[s]]
           e == [do |-> "save", k |-> first, enters |-> IF visit THEN {s} ELSE {}]
           a == [do |-> "arm", cb |-> done.cb, attempt |-> ids + 1]
           timer == IF s \in Timed THEN Arm(done.cb, ids + 1) \o Save(waiting) ELSE <<>>
           r == [do |-> "request", step |-> s, attempt |-> ids + 1, scheduled |-> s \in Timed]
<1>0. ids + 1 \in Nat
  OBVIOUS
<1>1. done \in KernelState /\ waiting \in KernelState
  BY DispatchTyped
<1>2. s \in Timed => done.cb = Callback("timeout", s, m.id)
  <2>1. k \in KernelType
    BY DEF KernelState
  <2> QED BY <2>1 DEF Dispatched, KernelType
<1>3. /\ Tidy(last, 1) /\ Hits(last, I) /\ (s \notin Timed => Tidy(last, g))
      /\ s \in Timed => Callback("timeout", s, m.id) \in Due
      /\ \A x \in ArmEffect :
             s \in Timed /\ x.cb = Callback("timeout", s, m.id) /\ x.attempt = ids + 1
                 => Suits(x, last, I, m.id)
  BY StartedTidy
<1>4. k.timeouts[s] \in LeaseType
  BY KernelParts
<1>5. Dispatch(s, k, m, visit) = <<e>> \o timer \o <<r>> \o Save(done)
  BY DEF Dispatch, Request
<1>6. r \in Lead
  BY <1>0 DEF RequestEffect, Lead, Trail
<1>7. /\ s \in Timed => a \in ArmEffect /\ a.cb = Callback("timeout", s, m.id)
      /\ a.attempt = ids + 1 /\ Arm(done.cb, ids + 1) = <<a>>
  BY <1>0, <1>2, <1>3 DEF ArmEffect, Arm
<1> HIDE DEF done, r, a
<1> HIDE DEF waiting
<1>8. first \in KernelState
  BY <1>1, <1>4, TimeoutSet
<1> HIDE DEF first
<1>9. e \in Lead
  BY <1>8 DEF Lead, SaveEffect
<1> HIDE DEF e
<1> DEFINE sd == Save(done)
           sw == Save(waiting)
<1>10. sd \in Seq(Lead) /\ sw \in Seq(Lead) /\ <<r>> \in Seq(Lead) /\ <<e>> \in Seq(Lead)
  BY <1>1, <1>6, <1>9, TrailPieces
<1>11. Lands(sd \o c, last)
  BY DEF done
<1> HIDE DEF sd, sw
<1> DEFINE z == <<r>> \o (sd \o c)
<1>12. Lands(z, last)
  BY <1>10, <1>11, LandsPrefixed
<1>13. \A x, y \in Seq(AnyEffect) : x \o y \in Seq(AnyEffect)
  BY Joined
<1>14. /\ sd \in Seq(AnyEffect) /\ sw \in Seq(AnyEffect) /\ <<r>> \in Seq(AnyEffect)
       /\ <<e>> \in Seq(AnyEffect) /\ c \in Seq(AnyEffect)
  BY <1>10, LeadKinds
<1>15. \A t \in Seq(AnyEffect) : <<e>> \o t \o <<r>> \o sd \o c = <<e>> \o (t \o z)
  <2> DEFINE begin == <<e>>
             ask == <<r>>
  <2>1. Effects(begin) /\ Effects(ask) /\ Effects(sd) /\ Effects(c)
    BY <1>14 DEF Effects
  <2> HIDE DEF begin, ask
  <2>2. ASSUME NEW t, Effects(t)
        PROVE  Then(Then(Then(Then(begin, t), ask), sd), c)
               = Then(begin, Then(t, Then(ask, Then(sd, c))))
    BY <2>1, <2>2, Regrouped
  <2> QED BY <2>2 DEF begin, ask, Effects, Then
<1>16. \A q : Held(q, last, {})
  BY DEF Held
<1>17. CASE s \in Timed
  <2>1. timer = <<a>> \o sw
    BY <1>7, <1>17 DEF sw
  <2>2. a \in ArmEffect /\ Suits(a, last, I, m.id)
    BY <1>3, <1>7, <1>17
  <2>3. <<a>> \in Seq(AnyEffect)
    BY <2>2, LeadKinds
  <2>4. <<a>> \o sw \in Seq(AnyEffect) /\ z \in Seq(AnyEffect)
    BY <1>12, <1>13, <1>14, <2>3, LandsTyped, LeadKinds
  <2> HIDE DEF z
  <2>5. (<<a>> \o sw) \o z = <<a>> \o (sw \o z)
    BY <1>14, <2>3, <2>4, ConcatAssociative
  <2>6. Lands(sw \o z, last)
    BY <1>10, <1>12, LandsPrefixed
  <2>7. Arming(<<a>> \o (sw \o z), a, last)
    BY <2>2, <2>6, ArmLands
  <2>8. Arming(<<e>> \o (<<a>> \o (sw \o z)), a, last)
    BY <1>10, <2>2, <2>7, ArmingPrefixed
  <2>9. Dispatch(s, k, m, visit) \o c = <<e>> \o (<<a>> \o (sw \o z))
    BY <1>5, <1>15, <2>1, <2>4, <2>5 DEF sd
  <2>10. Arming(Dispatch(s, k, m, visit) \o c, a, last)
    BY <2>8, <2>9
  <2> QED BY <1>3, <1>16, <2>2, <2>10 DEF Turning, Scheduling
<1>18. CASE s \notin Timed
  <2>1. timer = <<>> /\ <<>> \in Seq(AnyEffect)
    BY <1>18
  <2>2. <<>> \o z = z
    BY <1>12, LandsTyped, ConcatEmptySeq
  <2>3. Dispatch(s, k, m, visit) \o c = <<e>> \o z
    BY <1>5, <1>15, <2>1, <2>2 DEF sd
  <2>4. Lands(Dispatch(s, k, m, visit) \o c, last)
    BY <1>10, <1>12, <2>3, LandsPrefixed
  <2> QED BY <1>3, <1>16, <1>18, <2>4 DEF Turning, Landing
<1> QED BY <1>17, <1>18

\* From a state that holds no lease, a dispatch starts the step.
LEMMA DispatchedStarts ==
    ASSUME NEW s \in Steps, NEW k \in KernelState, NEW m \in Envelope, ids \in Nat, k.active,
           \A r \in Steps : k.timeouts[r] = NoLease,
           NEW d \in KernelState, d.active = Dispatched(s, k, m).active,
           d.step = Dispatched(s, k, m).step, d.pending = Dispatched(s, k, m).pending,
           d.cb = Dispatched(s, k, m).cb, d.exec = Dispatched(s, k, m).exec,
           d.timeouts = Dispatched(s, k, m).timeouts,
           \A r \in Steps : d.backoffs[r] = NoBackoff
    PROVE  Started(d, s, m)
<1> DEFINE cb == IF s \in Timed THEN Callback("timeout", s, m.id) ELSE NoCallback
           l == IF s \in Timed THEN [cb |-> cb, gen |-> 0] ELSE k.timeouts[s]
           done == Dispatched(s, k, m)
<1>1. done = [k EXCEPT !.step = s, !.pending = FALSE, !.cb = cb, !.exec[s] = ids + 1,
                       !.timeouts[s] = l]
  BY DEF Dispatched
<1>2. l = IF s \in Timed THEN [cb |-> Callback("timeout", s, m.id), gen |-> 0] ELSE NoLease
  OBVIOUS
<1>3. cb = IF s \in Timed THEN Callback("timeout", s, m.id) ELSE NoCallback
  OBVIOUS
<1>4. k \in KernelType
  BY DEF KernelState
<1> HIDE DEF cb, l
<1>5. /\ done.active /\ done.step = s /\ ~done.pending /\ done.cb = cb /\ done.exec[s] = ids + 1
      /\ done.timeouts[s] = l /\ \A r \in Steps \ {s} : done.timeouts[r] = k.timeouts[r]
  BY <1>1, <1>4 DEF KernelType
<1> HIDE DEF done
<1> QED BY <1>2, <1>3, <1>5 DEF Started, done

LEMMA VisitTurns ==
    ASSUME NEW s \in Steps, NEW k \in KernelState, NEW m \in Envelope, NEW visit \in BOOLEAN,
           ids \in Nat, k.active, Leaseless(k), NEW g, NEW I, Fresh(I, m.id)
    PROVE  Turning(Dispatch(s, k, m, visit), g, I, {}, m.id)
<1> DEFINE done == Dispatched(s, k, m)
<1>1. done \in KernelState
  BY DispatchTyped
<1>2. done.backoffs = k.backoffs
  BY DEF Dispatched, KernelState, KernelType
<1>3. Started(done, s, m)
  BY <1>1, <1>2, DispatchedStarts DEF Leaseless
<1> HIDE DEF done
<1>4. <<>> \in Seq(Lead) /\ Lands(Save(done), done) /\ Save(done) \o <<>> = Save(done)
  <2>1. Save(done) \in Seq(Lead) /\ <<>> \in Seq(Trail)
    BY <1>1, TrailPieces
  <2> QED BY <1>1, <2>1, StateLands, LeadKinds, ConcatEmptySeq
<1>5. Turning(Dispatch(s, k, m, visit) \o <<>>, g, I, {}, m.id)
  BY <1>1, <1>3, <1>4, DispatchTurns DEF done
<1>6. Dispatch(s, k, m, visit) \o <<>> = Dispatch(s, k, m, visit)
  BY DispatchTyped, ConcatEmptySeq
<1> QED BY <1>5, <1>6

LEMMA ProceedTurns ==
    ASSUME NEW k \in KernelState, NEW m \in Envelope, m.type = "completed", ids \in Nat,
           NEW next \in Steps \cup {Done, Invalid}, k.active, Leaseless(k),
           NEW g, NEW I, Fresh(I, m.id)
    PROVE  Turning(Proceed(next, k, m), g, I, {}, m.id)
<1>1. m.step \in Steps
  BY DEF Envelope
<1>2. /\ Turning(Cleanup(k) \o Outcome("ok", m.step), g, I, {}, m.id)
      /\ Turning(Cleanup(k) \o Outcome("invalid", m.step), g, I, {}, m.id)
  BY <1>1, CleanupTurns DEF OutcomeKinds
<1>3. next \in Steps => Turning(Dispatch(next, k, m, TRUE), g, I, {}, m.id)
  BY VisitTurns
<1>4. CASE next = Done
  BY <1>2, <1>4 DEF Proceed
<1>5. CASE next # Done /\ next = Invalid
  BY <1>2, <1>5 DEF Proceed
<1>6. CASE next # Done /\ next # Invalid
  BY <1>3, <1>6 DEF Proceed
<1> QED BY <1>4, <1>5, <1>6

\* A retry waits for a backoff it has just scheduled, or is requested at once.
LEMMA RetryTurns ==
    ASSUME NEW s \in Steps, NEW k \in KernelState, NEW m \in Envelope, ids \in Nat,
           RetriesLeft(s, k), k.active, k.step = s, ~k.pending, k.cb = NoCallback, Leaseless(k),
           NEW g, NEW I, Fresh(I, m.id)
    PROVE  Turning(TryRetry(s, k, m), g, I, {}, m.id)
<1>1. /\ k.retries[s] \in Nat /\ k.retries[s] + 1 < MaxAttempts[s] /\ k.exec[s] \in Nat
      /\ m.id \in Nat /\ k.retries[s] + 1 \in Nat
  BY KernelParts DEF RetriesLeft, Envelope, EnvelopeType
<1>2. CASE s \in Delayed
  <2> DEFINE cb == Callback("backoff", s, m.id)
             unleased == [cb |-> cb, lease |-> NoLease, dispatching |-> FALSE]
             l == [cb |-> cb, gen |-> 0]
             b == [unleased EXCEPT !.lease = l]
             waiting == [k EXCEPT !.backoffs[s] = unleased]
             leased == [k EXCEPT !.backoffs[s] = b]
             counted == [leased EXCEPT !.retries[s] = @ + 1]
             a == [do |-> "arm", cb |-> cb, attempt |-> k.exec[s]]
  <2>1. cb \in Due /\ cb # NoCallback /\ cb.origin = m.id
    BY <1>1 DEF Callback, Due, NoCallback
  <2>2. unleased \in BackoffType
    BY <2>1, LeasesTyped
  <2>3. l \in LeaseType
    BY <2>1, LeasesTyped
  <2>4. l.cb = cb /\ l.gen = 0 /\ l # NoLease /\ NoLease.cb = NoCallback
    BY <2>1 DEF NoLease
  <2>5. a \in ArmEffect /\ a.cb = cb /\ Arm(cb, k.exec[s]) = <<a>>
    BY <1>1, <2>1 DEF ArmEffect, Arm
  <2> HIDE DEF cb, l, a
  <2>6. b \in BackoffType /\ b.lease = l /\ ~b.dispatching
    BY <2>2, <2>3 DEF BackoffType
  <2> HIDE DEF unleased
  <2> HIDE DEF b
  <2>7. waiting \in KernelState /\ leased \in KernelState
    BY <2>2, <2>6, BackoffSet
  <2>8. /\ leased.retries = k.retries /\ leased.pending = k.pending /\ leased.step = s
        /\ leased.active /\ leased.cb = NoCallback /\ leased.timeouts = k.timeouts
        /\ leased.backoffs[s] = b
        /\ \A r \in Steps \ {s} : leased.backoffs[r] = k.backoffs[r]
    BY DEF KernelState, KernelType
  <2> HIDE DEF leased
  <2>9. counted \in KernelState
    BY <1>1, <2>7, <2>8, RetriesSet
  <2>10. /\ ~counted.pending /\ counted.active /\ counted.step = s /\ counted.cb = NoCallback
         /\ counted.timeouts = k.timeouts /\ counted.backoffs = leased.backoffs
    BY <2>7, <2>8 DEF KernelState, KernelType
  <2> HIDE DEF waiting, counted
  <2>11. /\ \A r \in Steps : counted.timeouts[r] = NoLease
         /\ \A r \in Steps \ {s} : counted.backoffs[r] = NoBackoff
         /\ counted.backoffs[s] = b
         /\ NoBackoff.lease = NoLease
    BY <2>8, <2>10 DEF Leaseless, NoBackoff
  <2>12. Tidy(counted, 1) /\ Hits(counted, I)
    BY <2>4, <2>6, <2>10, <2>11 DEF Tidy, Hits, Dated
  <2>13. Suits(a, counted, I, m.id)
    <3>1. Owns(counted, a.cb)
      BY <2>4, <2>5, <2>6, <2>11 DEF Owns
    <3>2. \A i \in I : i.cb # a.cb
      BY <2>1, <2>5 DEF Fresh
    <3> QED BY <2>1, <2>4, <2>5, <2>11, <3>1, <3>2 DEF Suits
  <2>14. /\ Save(waiting) \in Seq(Lead) /\ Save(leased) \in Seq(Lead)
         /\ Lands(Save(counted), counted)
    BY <2>7, <2>9, TrailPieces, StateLands
  <2>15. Arming(Save(waiting) \o (<<a>> \o (Save(leased) \o Save(counted))), a, counted)
    BY <2>5, <2>14, LandsPrefixed, ArmLands, ArmingPrefixed
  <2>16. Save(waiting) \o <<a>> \o Save(leased) \o Save(counted)
         = Save(waiting) \o (<<a>> \o (Save(leased) \o Save(counted)))
    BY <2>5 DEF Save
  <2>17. \A q : Held(q, counted, {})
    BY DEF Held
  <2>18. Turning(Save(waiting) \o <<a>> \o Save(leased) \o Save(counted), g, I, {}, m.id)
    BY <2>5, <2>9, <2>12, <2>13, <2>15, <2>16, <2>17 DEF Turning, Scheduling
  <2>19. TryRetry(s, k, m)
         = Save(waiting) \o Arm(cb, k.exec[s]) \o Save(leased) \o Save(counted)
    BY <1>2 DEF TryRetry, StartRetryBackoff, waiting, leased, counted, cb, b, unleased, l
  <2> QED BY <2>5, <2>18, <2>19
<1>3. CASE s \notin Delayed
  <2> DEFINE counted == [k EXCEPT !.retries[s] = @ + 1]
  <2>1. counted \in KernelState
    BY <1>1, RetriesSet
  <2>2. counted.active /\ counted.timeouts = k.timeouts /\ counted.backoffs = k.backoffs
    BY DEF KernelState, KernelType
  <2> HIDE DEF counted
  <2>3. Leaseless(counted)
    BY <2>2 DEF Leaseless
  <2>4. Turning(Dispatch(s, counted, m, FALSE), g, I, {}, m.id)
    BY <2>1, <2>2, <2>3, VisitTurns
  <2>5. Turning(Save(counted) \o Dispatch(s, counted, m, FALSE), g, I, {}, m.id)
    BY <2>1, <2>4, TrailPieces, TurningPrefixed
  <2> QED BY <1>3, <2>5 DEF TryRetry, counted
<1> QED BY <1>2, <1>3

LEMMA OnErrorTurns ==
    ASSUME NEW s \in Steps, NEW k \in KernelState, NEW m \in Envelope, m.type = "completed",
           ids \in Nat, k.active, Leaseless(k), NEW g, NEW I, Fresh(I, m.id)
    PROVE  Turning(TryOnError(s, k, m), g, I, {}, m.id)
<1> DEFINE forgiven == [k EXCEPT !.retries[s] = 0]
<1>1. /\ 0 < MaxAttempts[s] /\ Default[s] \in Steps \cup {Done, Invalid}
      /\ OnError[s] \in Steps \cup {"fail", "skip"}
  BY ConstantsAssumption
<1>2. forgiven \in KernelState
  BY <1>1, RetriesSet
<1>3. forgiven.active /\ Leaseless(forgiven)
  BY DEF KernelState, KernelType, Leaseless
<1> HIDE DEF forgiven
<1>4. Turning(Cleanup(k) \o Outcome("error", s), g, I, {}, m.id)
  BY CleanupTurns DEF OutcomeKinds
<1>5. Save(forgiven) \in Seq(Lead)
  BY <1>2, TrailPieces
<1>6. Turning(Save(forgiven) \o Proceed(Default[s], forgiven, m), g, I, {}, m.id)
  <2>1. Turning(Proceed(Default[s], forgiven, m), g, I, {}, m.id)
    BY <1>1, <1>2, <1>3, ProceedTurns
  <2> QED BY <1>5, <2>1, TurningPrefixed
<1>7. OnError[s] \in Steps
          => Turning(Save(forgiven) \o Dispatch(OnError[s], forgiven, m, TRUE), g, I, {}, m.id)
  BY <1>2, <1>3, <1>5, VisitTurns, TurningPrefixed
<1>8. CASE OnError[s] = "fail"
  BY <1>4, <1>8 DEF TryOnError
<1>9. CASE OnError[s] # "fail" /\ OnError[s] = "skip"
  BY <1>6, <1>9 DEF TryOnError, forgiven
<1>10. CASE OnError[s] # "fail" /\ OnError[s] # "skip"
  BY <1>1, <1>7, <1>10 DEF TryOnError, forgiven
<1> QED BY <1>8, <1>9, <1>10

LEMMA FailedTurns ==
    ASSUME NEW s \in Steps, NEW k \in KernelState, NEW m \in Envelope, m.type = "completed",
           ids \in Nat, k.active, k.step = s, ~k.pending, k.cb = NoCallback, Leaseless(k),
           NEW g, NEW I, Fresh(I, m.id)
    PROVE  Turning(StepFailed(s, k, m), g, I, {}, m.id)
<1>1. Turning(Cleanup(k) \o Outcome("timeout", s), g, I, {}, m.id)
  BY CleanupTurns DEF OutcomeKinds
<1>2. RetriesLeft(s, k) => Turning(TryRetry(s, k, m), g, I, {}, m.id)
  BY RetryTurns
<1>3. Turning(TryOnError(s, k, m), g, I, {}, m.id)
  BY OnErrorTurns
<1> QED BY <1>1, <1>2, <1>3 DEF StepFailed

Promised(q, k, g, I, A, o) == Resting(q, k, I, A) \/ Turning(q, g, I, A, o)

\* The state between two envelopes: every callback scheduled is one of the state's own.
Settled(k, I, A) == Tidy(k, 0) /\ Hits(k, I) /\ \A c \in A : Owns(k, c.cb)

ArmedType == [cb : Due, gen : Nat, attempt : Nat]

LEMMA SettledRests ==
    ASSUME NEW k, NEW I, NEW A, Settled(k, I, A), NEW q \in Seq(Trail)
    PROVE  Resting(q, k, I, A) /\ Resting(<<>>, k, I, A)
BY TrailPieces DEF Settled, Resting, Held

LEMMA RestSettled ==
    ASSUME NEW k, NEW I, NEW A, Resting(<<>>, k, I, A)
    PROVE  Settled(k, I, A)
<1>1. Range(<<>>) = {}
  BY DEF Range
<1>2. Cancelled(<<>>) = {}
  BY <1>1 DEF Cancelled
<1> QED BY <1>2 DEF Resting, Held, Settled

\* Whose callbacks they are: a settled state owns at most its step's timeout or backoff.
LEMMA OwnerKnown ==
    ASSUME NEW k \in KernelState, NEW I, NEW A \in SUBSET ArmedType, Settled(k, I, A),
           NEW c \in A
    PROVE  /\ k.active /\ k.step \in Steps
           /\ \/ c.cb = k.timeouts[k.step].cb /\ k.timeouts[k.step] # NoLease
              \/ c.cb = k.backoffs[k.step].lease.cb /\ k.backoffs[k.step] # NoBackoff
           /\ k.timeouts[k.step].cb = c.cb => k.timeouts[k.step] = [cb |-> c.cb, gen |-> 1]
           /\ k.backoffs[k.step].lease.cb = c.cb
                  => k.backoffs[k.step].lease = [cb |-> c.cb, gen |-> 1]
<1>1. c.cb \in Due /\ NoCallback \notin Due
  BY DEF ArmedType, Due, NoCallback
<1>2. NoLease.cb = NoCallback /\ NoBackoff.lease = NoLease
  BY DEF NoLease, NoBackoff
<1>3. PICK s \in Steps : c.cb = k.timeouts[s].cb \/ c.cb = k.backoffs[s].lease.cb
  BY DEF Settled, Owns
<1>4. k.timeouts[s] # NoLease \/ k.backoffs[s] # NoBackoff
  BY <1>1, <1>2, <1>3
<1>5. k.active /\ s = k.step
  BY <1>4 DEF Settled, Tidy
<1>6. \A l \in LeaseType : l.cb = c.cb /\ Dated(l, 0) => l = [cb |-> c.cb, gen |-> 1]
  BY <1>1, <1>2 DEF Dated, LeaseType
<1>7. /\ k.timeouts[s] \in LeaseType /\ k.backoffs[s].lease \in LeaseType
      /\ Dated(k.timeouts[s], 0) /\ Dated(k.backoffs[s].lease, 0)
  BY KernelParts DEF Settled, Tidy
<1> QED BY <1>1, <1>2, <1>3, <1>5, <1>6, <1>7

LEMMA UnownedGone ==
    ASSUME NEW k \in KernelState, NEW I, NEW A \in SUBSET ArmedType, Settled(k, I, A),
           ~k.active
    PROVE  A = {}
BY OwnerKnown

LEMMA StartPromise ==
    ASSUME NEW m \in Envelope, m.type = "start", kernel \in KernelState, ids \in Nat,
           NEW g, NEW I, NEW A \in SUBSET ArmedType, Fresh(I, m.id), Settled(kernel, I, A)
    PROVE  Promised(HandleStart(m), kernel, g, I, A, m.id)
<1> DEFINE k == [Idle EXCEPT !.active = TRUE]
<1>1. k \in KernelState /\ k.active /\ Leaseless(k)
  BY IdleTyped DEF KernelState, KernelType, Leaseless, Idle
<1>2. Entry \in Steps
  BY ConstantsAssumption
<1> HIDE DEF k
<1>3. Turning(Dispatch(Entry, k, m, TRUE), g, I, {}, m.id)
  BY <1>1, <1>2, VisitTurns
<1>4. Turning(Save(k) \o Dispatch(Entry, k, m, TRUE), g, I, {}, m.id)
  BY <1>1, <1>3, TrailPieces, TurningPrefixed
<1>5. ~kernel.active => A = {}
  BY UnownedGone
<1>6. Outcome("active", NoStep) \in Seq(Trail)
  BY TrailPieces DEF OutcomeKinds
<1>7. Resting(<<>>, kernel, I, A) /\ Resting(Outcome("active", NoStep), kernel, I, A)
  BY <1>6, SettledRests
<1>8. ~kernel.pending
  BY DEF Settled, Tidy
<1> QED BY <1>4, <1>5, <1>7, <1>8 DEF HandleStart, Promised, k

\* The completion of the current step cancels what its attempt had scheduled.
LEMMA CompletedPromise ==
    ASSUME NEW m \in Envelope, m.type = "completed", kernel \in KernelState, ids \in Nat,
           NEW g, NEW I, NEW A \in SUBSET ArmedType, Fresh(I, m.id), Settled(kernel, I, A)
    PROVE  Promised(HandleCompleted(m), kernel, g, I, A, m.id)
<1> DEFINE s == m.step
           k == AttemptOver(kernel, s)
           backoff == kernel.backoffs[s]
           unwaiting == [k EXCEPT !.backoffs[s] = NoBackoff]
           succeeded == [unwaiting EXCEPT !.retries[s] = 0]
           cancelTimeout == Save(k) \o Cancel(kernel.timeouts[s])
           cancelBackoff == IF backoff = NoBackoff THEN <<>>
                            ELSE Save(unwaiting) \o Cancel(backoff.lease)
<1>1. s \in Steps /\ (m.result = "ok" => m.next \in Steps \cup {Done, Invalid})
  BY DEF Envelope
<1>2. /\ kernel.timeouts[s] \in LeaseType /\ backoff.lease \in LeaseType /\ 0 < MaxAttempts[s]
      /\ NoBackoff \in BackoffType
  BY <1>1, KernelParts, LeasesTyped
<1>3. k \in KernelState
  BY <1>1, AttemptCleared
<1>4. /\ k.active = kernel.active /\ k.step = kernel.step /\ k.pending = kernel.pending
      /\ k.backoffs = kernel.backoffs /\ k.cb = NoCallback /\ k.timeouts[s] = NoLease
      /\ \A r \in Steps \ {s} : k.timeouts[r] = kernel.timeouts[r]
  BY <1>1 DEF AttemptOver, KernelState, KernelType
<1>5. unwaiting \in KernelState
  BY <1>1, <1>2, <1>3, BackoffSet
<1>6. /\ unwaiting.active = kernel.active /\ unwaiting.timeouts = k.timeouts
      /\ \A r \in Steps : unwaiting.backoffs[r] = IF r = s THEN NoBackoff ELSE kernel.backoffs[r]
  <2>1. k \in KernelType
    BY <1>3 DEF KernelState
  <2> HIDE DEF k, s
  <2> QED BY <1>4, <2>1 DEF KernelType
<1>7. succeeded \in KernelState
  BY <1>1, <1>2, <1>5, RetriesSet
<1>8. /\ succeeded.active = unwaiting.active /\ succeeded.backoffs = unwaiting.backoffs
      /\ succeeded.timeouts = unwaiting.timeouts
  <2>1. unwaiting \in KernelType
    BY <1>5 DEF KernelState
  <2> HIDE DEF unwaiting
  <2> QED BY <2>1 DEF KernelType
<1>9. HandleCompleted(m) =
          IF Stale(m) THEN <<>>
          ELSE IF Resumes(m) THEN Resume(kernel) \o Again
          ELSE IF m.result = "ok"
          THEN cancelTimeout \o cancelBackoff \o Save(succeeded) \o Proceed(m.next, succeeded, m)
          ELSE IF backoff # NoBackoff THEN cancelTimeout
          ELSE cancelTimeout \o StepFailed(s, k, m)
  BY DEF HandleCompleted, AttemptOver
<1>10. ~kernel.pending /\ ~Resumes(m)
  BY DEF Settled, Tidy, Resumes
<1>11. ~Stale(m) => kernel.active /\ kernel.step = s
  BY <1>10 DEF Stale
<1>12. ~Stale(m) => \A r \in Steps \ {s} : /\ kernel.backoffs[r] = NoBackoff
                                           /\ kernel.timeouts[r] = NoLease
  BY <1>11 DEF Settled, Tidy
<1>13. ASSUME ~Stale(m), NEW c \in A
       PROVE  /\ \/ c.cb = kernel.timeouts[s].cb /\ kernel.timeouts[s] # NoLease
                 \/ c.cb = backoff.lease.cb /\ backoff # NoBackoff
              /\ kernel.timeouts[s].cb = c.cb => kernel.timeouts[s] = [cb |-> c.cb, gen |-> 1]
              /\ backoff.lease.cb = c.cb => backoff.lease = [cb |-> c.cb, gen |-> 1]
  BY <1>11, <1>13, OwnerKnown
<1>14. /\ Dated(backoff.lease, 0)
       /\ ~Stale(m) /\ backoff # NoBackoff =>
              kernel.timeouts[s] = NoLease /\ backoff.lease # NoLease /\ ~backoff.dispatching
  BY <1>1 DEF Settled, Tidy
<1> HIDE DEF s, k, backoff, unwaiting, succeeded
<1>15. cancelTimeout \in Seq(Lead) /\ cancelBackoff \in Seq(Lead)
  <2>1. /\ Save(k) \in Seq(Lead) /\ Save(unwaiting) \in Seq(Lead) /\ <<>> \in Seq(Lead)
        /\ Cancel(kernel.timeouts[s]) \in Seq(Lead) /\ Cancel(backoff.lease) \in Seq(Lead)
    BY <1>2, <1>3, <1>5, TrailPieces, LeadKinds
  <2> QED BY <2>1, Joined
<1>16. /\ \A l \in LeaseType : l # NoLease => l \in Cancelled(Cancel(l))
       /\ \A l \in LeaseType : Cancel(l) \in Seq(AnyEffect)
       /\ \A e \in KernelState : Save(e) \in Seq(AnyEffect)
  <2>1. ASSUME NEW l \in LeaseType, l # NoLease PROVE l \in Cancelled(Cancel(l))
    <3> DEFINE e == [do |-> "cancel", leases |-> {l}]
    <3>1. e.do = "cancel" /\ e.leases = {l} /\ Cancel(l) = <<e>>
      BY <2>1 DEF Cancel
    <3> HIDE DEF e
    <3>2. e \in Range(<<e>>)
      BY DEF Range
    <3> QED BY <3>1, <3>2 DEF Cancelled
  <2> QED BY <2>1, TrailPieces, LeadKinds
<1>17. kernel.timeouts[s] # NoLease => kernel.timeouts[s] \in Cancelled(cancelTimeout)
  BY <1>2, <1>3, <1>16, CancelledJoined
<1>18. backoff # NoBackoff /\ backoff.lease # NoLease => backoff.lease \in Cancelled(cancelBackoff)
  BY <1>2, <1>5, <1>16, CancelledJoined
<1>19. backoff # NoBackoff /\ ~Stale(m) => cancelTimeout = Save(k)
  <2>1. Save(k) \o <<>> = Save(k)
    BY <1>3, TrailPieces, ConcatEmptySeq
  <2> QED BY <1>14, <2>1 DEF Cancel
<1> HIDE DEF cancelTimeout, cancelBackoff
<1>20. ASSUME ~Stale(m), m.result = "ok"
       PROVE  Turning(cancelTimeout \o cancelBackoff \o Save(succeeded)
                      \o Proceed(m.next, succeeded, m), g, I, A, m.id)
  <2> DEFINE x == cancelTimeout \o cancelBackoff \o Save(succeeded)
  <2>1. x \in Seq(Lead) /\ Cancelled(cancelTimeout) \cup Cancelled(cancelBackoff) \subseteq Cancelled(x)
    <3>1. /\ cancelTimeout \in Seq(AnyEffect) /\ cancelBackoff \in Seq(AnyEffect)
          /\ Save(succeeded) \in Seq(AnyEffect) /\ Save(succeeded) \in Seq(Lead)
      BY <1>7, <1>15, TrailPieces, LeadKinds
    <3>2. /\ cancelTimeout \o cancelBackoff \in Seq(Lead)
          /\ cancelTimeout \o cancelBackoff \in Seq(AnyEffect)
      BY <1>15, <3>1, Joined
    <3>3. x \in Seq(Lead)
      BY <3>1, <3>2, Joined
    <3>4. Cancelled(cancelTimeout) \cup Cancelled(cancelBackoff)
              \subseteq Cancelled(cancelTimeout \o cancelBackoff)
      BY <3>1, CancelledJoined
    <3>5. Cancelled(cancelTimeout \o cancelBackoff) \subseteq Cancelled(x)
      BY <3>1, <3>2, CancelledJoined
    <3> QED BY <3>3, <3>4, <3>5
  <2>2. succeeded.active /\ Leaseless(succeeded)
    BY <1>4, <1>6, <1>8, <1>11, <1>12, <1>20 DEF Leaseless
  <2>3. Turning(Proceed(m.next, succeeded, m), g, I, {}, m.id)
    BY <1>1, <1>7, <1>20, <2>2, ProceedTurns
  <2>4. ASSUME NEW c \in A PROVE [cb |-> c.cb, gen |-> 1] \in Cancelled(x)
    <3>1. CASE c.cb = kernel.timeouts[s].cb /\ kernel.timeouts[s] # NoLease
      BY <1>13, <1>17, <1>20, <2>1, <3>1
    <3>2. CASE c.cb = backoff.lease.cb /\ backoff # NoBackoff
      BY <1>13, <1>14, <1>18, <1>20, <2>1, <3>2
    <3> QED BY <1>13, <1>20, <3>1, <3>2
  <2> HIDE DEF x
  <2>5. Turning(x \o Proceed(m.next, succeeded, m), g, I, A, m.id)
    BY <2>1, <2>3, <2>4, TurningPrefixed
  <2> QED BY <2>5 DEF x
<1>21. ASSUME ~Stale(m), backoff # NoBackoff
       PROVE  Turning(cancelTimeout, g, I, A, m.id)
  <2>1. \A r \in Steps : k.timeouts[r] = NoLease
    BY <1>4, <1>12, <1>21
  <2>2. NoLease.cb = NoCallback /\ NoBackoff.lease = NoLease
    BY DEF NoLease, NoBackoff
  <2>3. Dated(backoff.lease, g)
    BY <1>14 DEF Dated
  <2>4. k.backoffs[s] = backoff /\ \A r \in Steps \ {s} : k.backoffs[r] = NoBackoff
    BY <1>4, <1>12, <1>21 DEF backoff
  <2>5. Tidy(k, g) /\ Hits(k, I)
    BY <1>4, <1>10, <1>11, <1>14, <1>21, <2>1, <2>2, <2>3, <2>4 DEF Tidy, Hits, Dated
  <2>6. \A c \in A : Owns(k, c.cb)
    <3> TAKE c \in A
    <3>1. c.cb = backoff.lease.cb
      BY <1>13, <1>14, <1>21
    <3> QED BY <1>1, <2>4, <3>1 DEF Owns
  <2>7. Lands(Save(k), k)
    BY <1>3, TrailPieces, StateLands
  <2> QED BY <1>3, <1>19, <1>21, <2>5, <2>6, <2>7 DEF Turning, Landing, Held
<1>22. ASSUME ~Stale(m), backoff = NoBackoff
       PROVE  Turning(cancelTimeout \o StepFailed(s, k, m), g, I, A, m.id)
  <2>1. k.active /\ k.step = s /\ ~k.pending /\ k.cb = NoCallback /\ Leaseless(k)
    BY <1>4, <1>10, <1>11, <1>12, <1>22 DEF Leaseless, backoff
  <2>2. Turning(StepFailed(s, k, m), g, I, {}, m.id)
    BY <1>1, <1>3, <2>1, FailedTurns
  <2>3. \A c \in A : [cb |-> c.cb, gen |-> 1] \in Cancelled(cancelTimeout)
    BY <1>13, <1>17, <1>22
  <2> QED BY <1>15, <2>2, <2>3, TurningPrefixed
<1>23. Resting(<<>>, kernel, I, A)
  BY TrailPieces, SettledRests
<1> QED BY <1>9, <1>10, <1>20, <1>21, <1>22, <1>23 DEF Promised

\* A timeout completes its step first and then forgets itself.
Timely(q, k, m) ==
    m.type = "timeout" /\ q # <<>> =>
        /\ Head(q).do = "post" => m.attempt = k.exec[m.step]
        /\ \A e \in Range(Tail(q)) : e.do = "save"

LEMMA TimeoutPromise ==
    ASSUME NEW m \in Envelope, m.type = "timeout", kernel \in KernelState,
           NEW g, NEW I, NEW A \in SUBSET ArmedType, Settled(kernel, I, A),
           [cb |-> m.lease.cb, attempt |-> m.attempt] \in I, m.lease.cb # NoCallback,
           \A c \in A : c.cb # m.lease.cb
    PROVE  /\ Promised(HandleTimeout(m), kernel, g, I, A, m.id)
           /\ Timely(HandleTimeout(m), kernel, m)
<1> DEFINE s == m.step
           end == [Blank EXCEPT !.type = "completed", !.step = s, !.result = "timeout",
                                !.attempt = m.attempt]
           e == [do |-> "post", m |-> end]
           k == Untimed(kernel, s)
           f == [do |-> "save", k |-> k, enters |-> {}]
<1>1. s \in Steps /\ m.attempt \in Nat
  BY DEF Envelope, EnvelopeType
<1>2. k \in KernelState
  BY <1>1, TimeoutCleared
<1>3. /\ k.active = kernel.active /\ k.step = kernel.step /\ k.pending = kernel.pending
      /\ k.backoffs = kernel.backoffs /\ k.cb = NoCallback /\ k.timeouts[s] = NoLease
      /\ \A r \in Steps \ {s} : k.timeouts[r] = kernel.timeouts[r]
  BY <1>1 DEF Untimed, KernelState, KernelType
<1>4. e \in Trail /\ e.do = "post"
  <2>0. end \in EnvelopeType /\ end.type = "completed" /\ end.step = s /\ end.result = "timeout"
    BY <1>1, BlankTyped DEF EnvelopeType, Blank, OutcomeKinds
  <2>1. end \in Envelope /\ end.type = "completed"
    BY <1>1, <2>0 DEF Envelope
  <2> HIDE DEF end
  <2> QED BY <2>1 DEF Trail, CompletionEffect
<1>5. f \in SaveEffect /\ f.k = k /\ f.do = "save" /\ Save(k) = <<f>>
  BY <1>2 DEF SaveEffect, Save
<1>6. ~kernel.pending /\ ~Resumes(m)
  BY DEF Settled, Tidy, Resumes
<1>7. HandleTimeout(m) = IF Stale(m) \/ ~MatchesTimeout(kernel, m) THEN <<>>
                         ELSE <<e>> \o Save(k)
  BY <1>6 DEF HandleTimeout, Untimed, Post
<1>8. /\ Resting(<<>>, kernel, I, A) /\ Timely(<<>>, kernel, m)
  BY TrailPieces, SettledRests DEF Timely
<1> HIDE DEF e, f, k
<1>9. ASSUME ~Stale(m), MatchesTimeout(kernel, m)
      PROVE  Promised(<<e>> \o Save(k), kernel, g, I, A, m.id) /\ Timely(<<e>> \o Save(k), kernel, m)
  <2>1. kernel.active /\ kernel.step = s
    BY <1>6, <1>9 DEF Stale
  <2>2. kernel.timeouts[s] # NoLease /\ m.lease = kernel.timeouts[s]
    BY <1>9, <2>1 DEF MatchesTimeout, Settled, Tidy
  <2>3. m.attempt = kernel.exec[s]
    <3> DEFINE i == [cb |-> m.lease.cb, attempt |-> m.attempt]
    <3>1. i.cb = m.lease.cb /\ i.attempt = m.attempt /\ i \in I
      OBVIOUS
    <3> HIDE DEF i
    <3> QED BY <1>1, <2>2, <3>1 DEF Settled, Hits
  <2>4. NoLease.cb = NoCallback /\ NoBackoff.lease = NoLease /\ NoCallback \notin Due
    BY DEF NoLease, NoBackoff, NoCallback, Due
  <2>5. \A r \in Steps : k.timeouts[r] = NoLease
    BY <1>3, <2>1 DEF Settled, Tidy
  <2>6. \A r \in Steps : kernel.backoffs[r] = NoBackoff
    BY <2>1, <2>2 DEF Settled, Tidy
  <2>7. Tidy(k, g) /\ Hits(k, I)
    BY <1>2, <1>3, <1>6, <2>5, <2>6, LeaselessTidy DEF Leaseless
  <2>8. A = {}
    <3> SUFFICES ASSUME NEW c \in A PROVE FALSE
      OBVIOUS
    <3>1. \/ c.cb = kernel.timeouts[kernel.step].cb /\ kernel.timeouts[kernel.step] # NoLease
          \/ c.cb = kernel.backoffs[kernel.step].lease.cb
             /\ kernel.backoffs[kernel.step] # NoBackoff
      BY OwnerKnown
    <3>2. c.cb = kernel.timeouts[s].cb
      BY <2>1, <2>6, <1>1, <3>1
    <3> QED BY <2>2, <3>2
  <2>9. Lands(<<e>> \o Save(k), k)
    <3>1. <<e>> \in Seq(Lead)
      BY <1>4, LeadKinds
    <3> QED BY <1>2, <3>1, TrailPieces, StateLands, LandsPrefixed
  <2>10. Promised(<<e>> \o Save(k), kernel, g, I, A, m.id)
    BY <1>2, <2>7, <2>8, <2>9 DEF Promised, Turning, Landing, Held
  <2>11. Head(<<e>> \o Save(k)) = e /\ Tail(<<e>> \o Save(k)) = <<f>>
    <3>1. Save(k) \in Seq(Lead) /\ e \in Lead
      BY <1>2, <1>4, TrailPieces, LeadKinds
    <3>2. Head(<<e>> \o Save(k)) = e /\ Tail(<<e>> \o Save(k)) = Save(k)
      BY <3>1, RangePrefixed
    <3> QED BY <1>5, <3>2
  <2>12. Range(<<f>>) = {f}
    BY DEF Range
  <2>13. Timely(<<e>> \o Save(k), kernel, m)
    BY <1>5, <2>3, <2>11, <2>12 DEF Timely, s
  <2> QED BY <2>10, <2>13
<1> QED BY <1>7, <1>8, <1>9 DEF Promised

LEMMA RedispatchTurns ==
    ASSUME NEW m \in Envelope, NEW s \in Steps, kernel \in KernelState, ids \in Nat,
           kernel.active, kernel.step = s, \A r \in Steps : kernel.timeouts[r] = NoLease,
           \A r \in Steps \ {s} : kernel.backoffs[r] = NoBackoff,
           NEW g, NEW I, Fresh(I, m.id)
    PROVE  Turning(Redispatch(s, m), g, I, {}, m.id)
<1> DEFINE cb == IF s \in Timed THEN Callback("timeout", s, m.id) ELSE NoCallback
           k == Redispatching(kernel, s, cb)
           over == Dispatched(s, k, m)
           done == [over EXCEPT !.backoffs[s] = NoBackoff]
<1>1. m.id \in Nat /\ NoBackoff \in BackoffType
  BY LeasesTyped DEF Envelope, EnvelopeType
<1>2. cb \in Due \cup {NoCallback}
  BY <1>1 DEF Callback, Due
<1> HIDE DEF cb
<1>3. k \in KernelState
  BY <1>2, DispatchingSet
<1>4. /\ k.active /\ \A r \in Steps : k.timeouts[r] = NoLease
      /\ \A r \in Steps \ {s} : k.backoffs[r] = NoBackoff
  BY DEF Redispatching, KernelState, KernelType
<1> HIDE DEF k
<1>5. over \in KernelState
  BY <1>3, DispatchTyped
<1>6. over.backoffs = k.backoffs
  BY <1>3 DEF Dispatched, KernelState, KernelType
<1> HIDE DEF over
<1>7. done \in KernelState
  BY <1>1, <1>5, BackoffSet
<1>8. /\ done.active = over.active /\ done.step = over.step /\ done.pending = over.pending
      /\ done.cb = over.cb /\ done.exec = over.exec /\ done.timeouts = over.timeouts
      /\ done.backoffs[s] = NoBackoff
      /\ \A r \in Steps \ {s} : done.backoffs[r] = over.backoffs[r]
  BY <1>5 DEF KernelState, KernelType
<1> HIDE DEF done
<1>9. Started(done, s, m)
  BY <1>3, <1>4, <1>6, <1>7, <1>8, DispatchedStarts DEF over
<1>10. /\ Save(done) \in Seq(Lead) /\ Lands(Save(over) \o Save(done), done)
  BY <1>5, <1>7, TrailPieces, StateLands, LandsPrefixed
<1>11. Turning(Dispatch(s, k, m, FALSE) \o Save(done), g, I, {}, m.id)
  BY <1>3, <1>7, <1>9, <1>10, DispatchTurns DEF over
<1>12. Turning(Save(k) \o (Dispatch(s, k, m, FALSE) \o Save(done)), g, I, {}, m.id)
  BY <1>3, <1>11, TrailPieces, TurningPrefixed
<1>13. Save(k) \o Dispatch(s, k, m, FALSE) \o Save(done)
           = Save(k) \o (Dispatch(s, k, m, FALSE) \o Save(done))
  <2>1. /\ Save(k) \in Seq(WorkEffect) /\ Save(done) \in Seq(WorkEffect)
        /\ Dispatch(s, k, m, FALSE) \in Seq(WorkEffect)
    BY <1>3, <1>7, SaveTyped, DispatchTyped
  <2>2. \A x, y, z \in Seq(WorkEffect) : x \o y \o z = x \o (y \o z)
    BY ConcatAssociative
  <2> QED BY <2>1, <2>2, Zenon
<1>14. Redispatch(s, m) = Save(k) \o Dispatch(s, k, m, FALSE) \o Save(done)
  BY DEF Redispatch, Redispatching, k, cb, done, over
<1> QED BY <1>12, <1>13, <1>14

LEMMA BackoffPromise ==
    ASSUME NEW m \in Envelope, m.type = "backoff", kernel \in KernelState, ids \in Nat,
           NEW g, NEW I, NEW A \in SUBSET ArmedType, Fresh(I, m.id), Settled(kernel, I, A),
           \A c \in A : c.cb # m.lease.cb
    PROVE  Promised(HandleBackoff(m), kernel, g, I, A, m.id)
<1> DEFINE s == m.step
           b == kernel.backoffs[s]
<1>1. s \in Steps
  BY DEF Envelope
<1>2. (~kernel.pending /\ ~Resumes(m) /\ ~b.dispatching) \/ b = NoBackoff
  BY <1>1 DEF Settled, Tidy, Resumes
<1>3. HandleBackoff(m) = IF \/ ~modules \/ ~kernel.active \/ b = NoBackoff
                            \/ ~MatchesBackoff(b, m) \/ kernel.step # s
                         THEN <<>> ELSE Redispatch(s, m)
  BY <1>2 DEF HandleBackoff, Settled, Tidy, Resumes
<1>4. ASSUME kernel.active, b # NoBackoff, MatchesBackoff(b, m), kernel.step = s
      PROVE  Turning(Redispatch(s, m), g, I, A, m.id)
  <2>1. b.lease # NoLease /\ kernel.timeouts[s] = NoLease
    BY <1>1, <1>4 DEF Settled, Tidy
  <2>2. m.lease = b.lease
    BY <1>4, <2>1 DEF MatchesBackoff
  <2>3. /\ \A r \in Steps : kernel.timeouts[r] = NoLease
        /\ \A r \in Steps \ {s} : kernel.backoffs[r] = NoBackoff
    BY <1>4, <2>1 DEF Settled, Tidy
  <2>4. A = {}
    <3> SUFFICES ASSUME NEW c \in A PROVE FALSE
      OBVIOUS
    <3>1. \/ c.cb = kernel.timeouts[kernel.step].cb /\ kernel.timeouts[kernel.step] # NoLease
          \/ c.cb = kernel.backoffs[kernel.step].lease.cb
             /\ kernel.backoffs[kernel.step] # NoBackoff
      BY OwnerKnown
    <3>2. c.cb = b.lease.cb
      BY <1>4, <2>1, <3>1
    <3> QED BY <2>2, <3>2
  <2>5. Turning(Redispatch(s, m), g, I, {}, m.id)
    BY <1>1, <1>4, <2>3, RedispatchTurns
  <2> QED BY <2>4, <2>5
<1>5. Resting(<<>>, kernel, I, A)
  BY TrailPieces, SettledRests
<1> QED BY <1>3, <1>4, <1>5 DEF Promised

LEMMA AgentPromise ==
    ASSUME NEW m \in Envelope, kernel \in KernelState, NEW g, NEW I,
           NEW A \in SUBSET ArmedType, Settled(kernel, I, A)
    PROVE  /\ Promised(HandleChatRequest(m), kernel, g, I, A, m.id)
           /\ Promised(HandleWorkflowCompleted(m), kernel, g, I, A, m.id)
           /\ A = {} => Promised(HandleStopped(m), kernel, g, I, A, m.id)
<1>1. \A q \in AgentTodos : q \in Seq(Trail)
  <2>1. /\ \A st \in {"running"} \cup Terminal : Persist(st) \in Seq(Trail)
        /\ Disable \in Seq(Trail) /\ Post(StartMessage) \in Seq(Trail)
    <3>1. /\ \A st \in {"running"} \cup Terminal : [do |-> "persist", status |-> st] \in Trail
          /\ [do |-> "disable"] \in Trail /\ [do |-> "post", m |-> StartMessage] \in Trail
      BY DEF Trail, AgentEffects, PersistEffect, DisableEffect, OpenEffect
    <3>2. Disable \in Seq(Trail) /\ Post(StartMessage) \in Seq(Trail)
      BY <3>1 DEF Disable, Post
    <3>3. ASSUME NEW st \in {"running"} \cup Terminal PROVE Persist(st) \in Seq(Trail)
      <4> DEFINE e == [do |-> "persist", status |-> st]
      <4>1. e \in Trail /\ Persist(st) = <<e>>
        BY <3>1 DEF Persist
      <4> HIDE DEF e
      <4> QED BY <4>1
    <3> QED BY <3>2, <3>3
  <2>2. /\ Persist("running") \o Post(StartMessage) \in Seq(Trail)
        /\ \A st \in Terminal : Persist(st) \o Disable \in Seq(Trail)
    BY <2>1, Joined
  <2> QED BY <2>1, <2>2 DEF AgentTodos
<1>2. /\ HandleChatRequest(m) \in AgentTodos /\ HandleWorkflowCompleted(m) \in AgentTodos
  BY AgentTyped
<1>3. Persist("stopped") \o Disable \in AgentTodos
  BY DEF AgentTodos, Terminal
<1>4. \A q \in Seq(Trail) : Promised(q, kernel, g, I, A, m.id)
  BY SettledRests DEF Promised
<1>5. Turning(Cleanup(kernel), g, I, {}, m.id)
  BY CleanupTurns DEF OutcomeKinds
<1>6. <<>> \in Seq(Trail)
  BY TrailPieces
<1> QED BY <1>1, <1>2, <1>3, <1>4, <1>5, <1>6 DEF HandleStopped, Promised

\* Fewer callbacks make it no harder to keep a promise.
LEMMA PromisedLess ==
    ASSUME NEW q, NEW k, NEW g, NEW I, NEW A, NEW o, Promised(q, k, g, I, A, o),
           NEW J \in SUBSET I, NEW B \in SUBSET A
    PROVE  Promised(q, k, g, J, B, o)
<1>1. \A x : /\ Hits(x, I) => Hits(x, J)
             /\ \A y : Held(y, x, A) => Held(y, x, B)
             /\ \A a : Suits(a, x, I, o) => Suits(a, x, J, o)
  BY DEF Hits, Held, Suits
<1>2. Resting(q, k, I, A) => Resting(q, k, J, B)
  BY <1>1 DEF Resting
<1>3. Landing(q, g, I, A) => Landing(q, g, J, B)
  BY <1>1 DEF Landing
<1>4. Scheduling(q, I, A, o) => Scheduling(q, J, B, o)
  BY <1>1 DEF Scheduling
<1> QED BY <1>2, <1>3, <1>4 DEF Promised, Turning

\* Nothing is left to do: the state at rest keeps it.
LEMMA PromiseAtRest ==
    ASSUME NEW k, NEW g, NEW I, NEW A, NEW o, Promised(<<>>, k, g, I, A, o)
    PROVE  /\ Settled(k, I, A)
           /\ \A h, p : Promised(<<>>, k, h, I, A, p)
<1>1. ~Landing(<<>>, g, I, A)
  BY LandsTyped DEF Landing
<1>2. ~Scheduling(<<>>, I, A, o)
  BY ArmingTyped DEF Scheduling
<1>3. Resting(<<>>, k, I, A)
  BY <1>1, <1>2 DEF Promised, Turning
<1> QED BY <1>3, RestSettled DEF Promised

\* What the next effect of a promise is.
LEMMA HeldTaken ==
    ASSUME NEW q \in Seq(AnyEffect), q # <<>>, NEW k, NEW A, Held(q, k, A)
    PROVE  /\ Head(q).do # "cancel" => Held(Tail(q), k, A)
           /\ Head(q).do = "cancel" =>
                  Held(Tail(q), k, {c \in A : [cb |-> c.cb, gen |-> 1] \notin Head(q).leases})
BY CancelledTaken DEF Held

LEMMA RestingStep ==
    ASSUME NEW q, q # <<>>, NEW k, NEW I, NEW A, Resting(q, k, I, A)
    PROVE  /\ q \in Seq(AnyEffect) /\ Head(q).do \notin {"save", "arm", "again"}
           /\ Head(q).do # "cancel" => Resting(Tail(q), k, I, A)
           /\ Head(q).do = "cancel" =>
                  Resting(Tail(q), k, I, {c \in A : [cb |-> c.cb, gen |-> 1] \notin Head(q).leases})
<1>1. q \in Seq(Trail) /\ Tidy(k, 0) /\ Hits(k, I) /\ Held(q, k, A)
  BY DEF Resting
<1>2. Head(q) \in Trail /\ Tail(q) \in Seq(Trail)
  BY <1>1, TrailStep
<1>3. q \in Seq(AnyEffect) /\ Head(q).do \notin {"save", "arm", "again"}
  BY <1>1, <1>2, LeadKinds
<1> QED BY <1>1, <1>2, <1>3, HeldTaken DEF Resting

LEMMA LandingStep ==
    ASSUME NEW q, NEW g, NEW I, NEW A, Landing(q, g, I, A)
    PROVE  /\ q \in Seq(AnyEffect) /\ q # <<>> /\ Head(q).do \notin {"arm", "again"}
           /\ \/ /\ Head(q).do # "cancel" => Landing(Tail(q), g, I, A)
                 /\ Head(q).do = "cancel" =>
                        Landing(Tail(q), g, I,
                                {c \in A : [cb |-> c.cb, gen |-> 1] \notin Head(q).leases})
              \/ /\ Head(q) \in SaveEffect /\ Tail(q) \in Seq(Trail)
                 /\ Tidy(Head(q).k, g) /\ Hits(Head(q).k, I) /\ Held(Tail(q), Head(q).k, A)
<1>1. PICK k \in KernelState : Lands(q, k) /\ Tidy(k, g) /\ Hits(k, I) /\ Held(q, k, A)
  BY DEF Landing
<1>2. q \in Seq(AnyEffect) /\ q # <<>>
  BY <1>1, LandsTyped, LeadKinds
<1>3. /\ Head(q) \in Lead
      /\ \/ Lands(Tail(q), k)
         \/ Head(q) \in SaveEffect /\ Head(q).k = k /\ Tail(q) \in Seq(Trail)
  BY <1>1, LandsStep
<1>4. Head(q).do \notin {"arm", "again"} /\ (Head(q) \in SaveEffect => Head(q).do = "save")
  BY <1>3, LeadKinds, KindsApart
<1>5. CASE Lands(Tail(q), k)
  BY <1>1, <1>2, <1>4, <1>5, HeldTaken DEF Landing
<1>6. CASE Head(q) \in SaveEffect /\ Head(q).k = k /\ Tail(q) \in Seq(Trail)
  BY <1>1, <1>2, <1>4, <1>6, HeldTaken
<1> QED BY <1>2, <1>3, <1>4, <1>5, <1>6

LEMMA SchedulingStep ==
    ASSUME NEW q, NEW I, NEW A, NEW o, Scheduling(q, I, A, o)
    PROVE  /\ q \in Seq(AnyEffect) /\ q # <<>> /\ Head(q).do # "again"
           /\ Head(q).do \notin {"arm", "cancel"} => Scheduling(Tail(q), I, A, o)
           /\ Head(q).do = "cancel" =>
                  Scheduling(Tail(q), I,
                             {c \in A : [cb |-> c.cb, gen |-> 1] \notin Head(q).leases}, o)
           /\ Head(q).do = "arm" =>
                  \E k \in KernelState :
                      /\ Head(q) \in ArmEffect /\ Suits(Head(q), k, I, o)
                      /\ Lands(Tail(q), k) /\ Tidy(k, 1) /\ Hits(k, I) /\ Held(Tail(q), k, A)
<1>1. PICK k \in KernelState, a \in ArmEffect :
          Arming(q, a, k) /\ Suits(a, k, I, o) /\ Tidy(k, 1) /\ Hits(k, I) /\ Held(q, k, A)
  BY DEF Scheduling
<1>2. q \in Seq(AnyEffect) /\ q # <<>>
  BY <1>1, ArmingTyped
<1>3. \/ Head(q) = a /\ Lands(Tail(q), k)
      \/ Head(q) \in Lead /\ Arming(Tail(q), a, k)
  BY <1>1, ArmingStep
<1>4. CASE Head(q) = a /\ Lands(Tail(q), k)
  <2>1. Head(q).do = "arm"
    BY <1>4, KindsApart
  <2>2. Held(Tail(q), k, A)
    BY <1>1, <1>2, <2>1, HeldTaken
  <2> QED BY <1>1, <1>2, <1>4, <2>1, <2>2
<1>5. CASE Head(q) \in Lead /\ Arming(Tail(q), a, k)
  <2>1. Head(q).do \notin {"arm", "again"}
    BY <1>5, LeadKinds
  <2>2. Head(q).do # "cancel" => Held(Tail(q), k, A)
    BY <1>1, <1>2, HeldTaken
  <2>3. Head(q).do = "cancel" =>
            Held(Tail(q), k, {c \in A : [cb |-> c.cb, gen |-> 1] \notin Head(q).leases})
    BY <1>1, <1>2, HeldTaken
  <2> QED BY <1>1, <1>2, <1>5, <2>1, <2>2, <2>3 DEF Scheduling
<1> QED BY <1>3, <1>4, <1>5

\* The generation granted to the callback completes its lease.
LEMMA GrantedTidy ==
    ASSUME NEW k \in KernelState, granted \in Nat, Tidy(k, granted), NEW I, Hits(k, I),
           NEW q, NEW A, Held(q, k, A)
    PROVE  Tidy(GrantedKernel(k), 0) /\ Hits(GrantedKernel(k), I) /\ Held(q, GrantedKernel(k), A)
<1> DEFINE ts == [s \in Steps |-> Granted(k.timeouts[s])]
           bs == [s \in Steps |-> [k.backoffs[s] EXCEPT !.lease = Granted(@)]]
           gk == GrantedKernel(k)
<1>1. k \in KernelType
  BY DEF KernelState
<1>2. gk = [k EXCEPT !.timeouts = ts, !.backoffs = bs]
  BY DEF GrantedKernel
<1>3. ASSUME NEW l \in LeaseType
      PROVE  /\ Granted(l) = NoLease <=> l = NoLease
             /\ Granted(l).cb = l.cb
             /\ Dated(l, granted) => Dated(Granted(l), 0)
  BY DEF Granted, LeaseType, NoLease, Dated
<1>4. ASSUME NEW s \in Steps
      PROVE  /\ k.timeouts[s] \in LeaseType /\ k.backoffs[s].lease \in LeaseType
             /\ ts[s] = Granted(k.timeouts[s])
             /\ bs[s].lease = Granted(k.backoffs[s].lease)
             /\ bs[s].dispatching = k.backoffs[s].dispatching
             /\ k.backoffs[s] = NoBackoff => bs[s] = NoBackoff
  <2>1. k.timeouts[s] \in LeaseType /\ k.backoffs[s].lease \in LeaseType
        /\ k.backoffs[s] \in BackoffType
    BY KernelParts
  <2>2. /\ bs[s].lease = Granted(k.backoffs[s].lease)
        /\ bs[s].dispatching = k.backoffs[s].dispatching
    BY <2>1 DEF BackoffType
  <2>3. k.backoffs[s] = NoBackoff => bs[s] = [NoBackoff EXCEPT !.lease = Granted(NoBackoff.lease)]
    OBVIOUS
  <2>4. Granted(NoBackoff.lease) = NoBackoff.lease
    BY DEF Granted, NoBackoff
  <2>5. k.backoffs[s] = NoBackoff => bs[s] = NoBackoff
    BY <2>3, <2>4 DEF NoBackoff
  <2> QED BY <2>1, <2>2, <2>5
<1> HIDE DEF ts, bs
<1>5. /\ gk.active = k.active /\ gk.pending = k.pending /\ gk.step = k.step /\ gk.cb = k.cb
      /\ gk.exec = k.exec /\ gk.timeouts = ts /\ gk.backoffs = bs
  BY <1>1, <1>2 DEF KernelType
<1> HIDE DEF gk
<1>6. Tidy(gk, 0)
  <2>1. ASSUME NEW s \in Steps
        PROVE  /\ Dated(ts[s], 0) /\ Dated(bs[s].lease, 0)
               /\ ts[s] # NoLease => k.active /\ s = k.step
               /\ bs[s] # NoBackoff =>
                      /\ k.active /\ s = k.step /\ ~bs[s].dispatching
                      /\ bs[s].lease # NoLease /\ ts[s] = NoLease
    BY <1>3, <1>4 DEF Tidy
  <2>2. k.cb # NoCallback => k.step \in Steps /\ ts[k.step] # NoLease /\ ts[k.step].cb = k.cb
    BY <1>3, <1>4 DEF Tidy
  <2>3. ~k.pending
    BY DEF Tidy
  <2> QED BY <1>5, <2>1, <2>2, <2>3 DEF Tidy
<1>7. Hits(gk, I)
  BY <1>3, <1>4, <1>5 DEF Hits
<1>8. \A cb : Owns(k, cb) => Owns(gk, cb)
  BY <1>3, <1>4, <1>5 DEF Owns
<1> QED BY <1>6, <1>7, <1>8 DEF Held, gk

-----------------------------------------------------------------------------
(* No two envelopes have one id, and callbacks are named after envelopes   *)

Fired == {m \in Range(mailbox) \cup {now} : m.type \in {"timeout", "backoff"}}

\* All the callbacks there are: scheduled, or on their way to the kernel.
Insts == {[cb |-> c.cb, attempt |-> c.attempt] : c \in armed}
         \cup {[cb |-> m.lease.cb, attempt |-> m.attempt] : m \in Fired}

\* After a stop, nobody looks after callbacks any more.
Watched == IF stops = 0 THEN armed ELSE {}

Numbered(L) == \A i, j \in DOMAIN L : L[i].id = L[j].id => i = j

Ident ==
    /\ Numbered(mailbox)
    /\ \A m \in Range(mailbox) : 1 <= m.id /\ m.id <= ids /\ m.id # now.id
    /\ now.id <= ids
    /\ \A i \in Insts : i.cb.origin <= ids /\ \A m \in Range(mailbox) : m.id # i.cb.origin
    /\ \A c, d \in armed : c.cb = d.cb => c = d
    /\ \A c \in armed : c.gen = 1 /\ \A m \in Fired : c.cb # m.lease.cb
    /\ \A m \in Fired : m.lease.cb # NoCallback

LEMMA NumberedAppended ==
    ASSUME NEW S, NEW L \in Seq(S), NEW e \in S, Numbered(L), \A m \in Range(L) : m.id # e.id
    PROVE  Numbered(Append(L, e))
<1> DEFINE A == Append(L, e)
<1>1. /\ DOMAIN A = 1 .. Len(L) + 1 /\ DOMAIN L = 1 .. Len(L) /\ Len(L) \in Nat
      /\ \A i \in 1 .. Len(L) : A[i] = L[i]
      /\ A[Len(L) + 1] = e
  BY AppendProperties, LenProperties
<1> HIDE DEF A
<1>2. \A i \in DOMAIN L : L[i] \in Range(L)
  BY DEF Range
<1>3. \A i, j \in DOMAIN A : A[i].id = A[j].id => i = j
  <2> SUFFICES ASSUME NEW i \in DOMAIN A, NEW j \in DOMAIN A, A[i].id = A[j].id
               PROVE  i = j
    OBVIOUS
  <2>1. CASE i \in 1 .. Len(L) /\ j \in 1 .. Len(L)
    BY <1>1, <2>1 DEF Numbered
  <2>2. CASE i = Len(L) + 1 /\ j \in 1 .. Len(L)
    BY <1>1, <1>2, <2>2
  <2>3. CASE j = Len(L) + 1 /\ i \in 1 .. Len(L)
    BY <1>1, <1>2, <2>3
  <2>4. CASE i = Len(L) + 1 /\ j = Len(L) + 1
    BY <2>4
  <2> QED BY <1>1, <2>1, <2>2, <2>3, <2>4
<1> QED BY <1>3 DEF Numbered, A

LEMMA NumberedTaken ==
    ASSUME NEW S, NEW L \in Seq(S), L # <<>>, Numbered(L)
    PROVE  Numbered(Tail(L)) /\ \A m \in Range(Tail(L)) : m.id # Head(L).id
<1>1. /\ DOMAIN L = 1 .. Len(L) /\ Len(L) \in Nat \ {0} /\ Head(L) = L[1]
      /\ DOMAIN Tail(L) = 1 .. Len(L) - 1
      /\ \A i \in 1 .. Len(L) - 1 : Tail(L)[i] = L[i + 1]
  BY HeadTailProperties, EmptySeq, LenProperties
<1>2. \A i \in DOMAIN Tail(L) : i + 1 \in DOMAIN L /\ i + 1 # 1 /\ i \in Nat /\ Tail(L)[i] = L[i + 1]
  BY <1>1
<1>3. 1 \in DOMAIN L
  BY <1>1
<1>4. ASSUME NEW i \in DOMAIN Tail(L), NEW j \in DOMAIN Tail(L), Tail(L)[i].id = Tail(L)[j].id
      PROVE  i = j
  <2>1. i + 1 = j + 1
    BY <1>2, <1>4 DEF Numbered
  <2> QED BY <1>2, <2>1
<1>5. ASSUME NEW i \in DOMAIN Tail(L) PROVE Tail(L)[i].id # L[1].id
  BY <1>2, <1>3 DEF Numbered
<1>6. \A m \in Range(Tail(L)) : \E i \in DOMAIN Tail(L) : m = Tail(L)[i]
  BY DEF Range
<1> QED BY <1>1, <1>4, <1>5, <1>6 DEF Numbered

\* The parts of Ident for the envelopes that may come to wait or be at work.
LEMMA IdentFrom ==
    ASSUME TypeInv, Ident, ids' \in Nat, ids <= ids', Numbered(mailbox'),
           armed' \in SUBSET armed, now'.id <= ids',
           \A m \in Range(mailbox') :
               /\ 1 <= m.id /\ m.id <= ids' /\ m.id # now'.id
               /\ m \in Range(mailbox) \/ m.id > ids,
           \A m \in Fired' :
               \/ m \in Fired
               \/ \E c \in armed \ armed' : m.lease.cb = c.cb /\ m.attempt = c.attempt
    PROVE  Ident' /\ Insts' \subseteq Insts
<1>1. \A m \in Fired' : [cb |-> m.lease.cb, attempt |-> m.attempt] \in Insts
  BY DEF Insts
<1>2. \A c \in armed' : [cb |-> c.cb, attempt |-> c.attempt] \in Insts
  BY DEF Insts
<1>3. Insts' \subseteq Insts
  BY <1>1, <1>2 DEF Insts
<1>4. ids \in Nat /\ \A i \in Insts : i.cb.origin \in Nat
  <2>1. ids \in Nat /\ \A c \in armed : c.cb.origin \in Nat
    BY DEF TypeInv, Due
  <2>2. \A m \in Fired : m.lease.cb.origin \in Nat
    <3>1. \A m \in Fired : m \in EnvelopeType
      <4>1. \A m \in Range(mailbox) : m \in Envelope
        BY DEF TypeInv, Range
      <4> QED BY <4>1, BlankTyped DEF Fired, TypeInv, Envelope
    <3> QED BY <3>1 DEF EnvelopeType, LeaseType, CallbackType
  <2> QED BY <2>1, <2>2 DEF Insts
<1>5. \A i \in Insts' : i.cb.origin <= ids' /\ \A m \in Range(mailbox') : m.id # i.cb.origin
  <2> SUFFICES ASSUME NEW i \in Insts'
               PROVE  i.cb.origin <= ids' /\ \A m \in Range(mailbox') : m.id # i.cb.origin
    OBVIOUS
  <2>1. /\ i.cb.origin \in Nat /\ i.cb.origin <= ids
        /\ \A m \in Range(mailbox) : m.id # i.cb.origin
    BY <1>3, <1>4 DEF Ident
  <2>2. \A m \in Range(mailbox') : m.id > ids => m.id # i.cb.origin
    BY <1>4, <2>1
  <2> QED BY <1>4, <2>1, <2>2
<1>6. \A c, d \in armed' : c.cb = d.cb => c = d
  BY DEF Ident
<1>7. \A c \in armed' : c.gen = 1 /\ \A m \in Fired' : c.cb # m.lease.cb
  <2> SUFFICES ASSUME NEW c \in armed', NEW m \in Fired'
               PROVE  c.cb # m.lease.cb
    BY DEF Ident
  <2>1. c \in armed /\ (m \in Fired => c.cb # m.lease.cb)
    BY DEF Ident
  <2>2. \A d \in armed \ armed' : d.cb # c.cb
    BY <2>1 DEF Ident
  <2> QED BY <2>1, <2>2
<1>8. \A m \in Fired' : m.lease.cb # NoCallback
  <2>1. \A c \in armed : c.cb # NoCallback
    <3>1. NoCallback \notin Due
      BY DEF Due, NoCallback
    <3> QED BY <3>1 DEF TypeInv
  <2> QED BY <2>1 DEF Ident
<1> QED BY <1>3, <1>5, <1>6, <1>7, <1>8 DEF Ident

\* Nothing is sent.
LEMMA IdentKept ==
    ASSUME TypeInv, Ident, mailbox' = mailbox, now' \in {now, Blank}, armed' \in SUBSET armed,
           ids' = ids
    PROVE  Ident' /\ Insts' \subseteq Insts
<1>1. ids \in Nat /\ Blank.id = 0 /\ Blank.type = "none"
  BY DEF TypeInv, Blank
<1>2. \A m \in Range(mailbox) : m.id \in Nat
  BY DEF TypeInv, Range, Envelope, EnvelopeType
<1>3. \A m \in Range(mailbox') : /\ 1 <= m.id /\ m.id <= ids' /\ m.id # now'.id
                                 /\ m \in Range(mailbox)
  BY <1>1, <1>2 DEF Ident
<1>4. now'.id <= ids'
  BY <1>1 DEF Ident
<1>5. Fired' \subseteq Fired
  BY <1>1 DEF Fired
<1> QED BY <1>1, <1>3, <1>4, <1>5, IdentFrom DEF Ident

\* The next envelope is taken.
LEMMA IdentTaken ==
    ASSUME TypeInv, Ident, mailbox # <<>>, mailbox' = Tail(mailbox),
           now' \in {now, Blank, Head(mailbox)}, armed' = armed, ids' \in {ids, ids + 1}
    PROVE  Ident' /\ Insts' \subseteq Insts
<1>1. ids \in Nat /\ Blank.id = 0 /\ Blank.type = "none" /\ mailbox \in Seq(Envelope)
  BY DEF TypeInv, Blank
<1>2. Range(mailbox) = {Head(mailbox)} \cup Range(Tail(mailbox)) /\ Tail(mailbox) \in Seq(Envelope)
  BY <1>1, RangeTaken
<1>3. \A m \in Range(mailbox) : m.id \in Nat
  BY <1>1 DEF Range, Envelope, EnvelopeType
<1>4. /\ Numbered(Tail(mailbox))
      /\ \A m \in Range(Tail(mailbox)) : m.id # Head(mailbox).id
  BY <1>1, NumberedTaken DEF Ident
<1>5. \A m \in Range(mailbox') : /\ 1 <= m.id /\ m.id <= ids' /\ m.id # now'.id
                                 /\ m \in Range(mailbox)
  BY <1>1, <1>2, <1>3, <1>4 DEF Ident
<1>6. now'.id <= ids'
  <2>1. now.id \in Nat
    BY <1>1 DEF TypeInv, Envelope, EnvelopeType
  <2> QED BY <1>1, <1>2, <1>3, <2>1 DEF Ident
<1>7. Fired' \subseteq Fired
  BY <1>1, <1>2 DEF Fired
<1> QED BY <1>1, <1>4, <1>5, <1>6, <1>7, IdentFrom

\* An envelope is sent; a callback's takes the place of a scheduled one.
LEMMA IdentSent ==
    ASSUME TypeInv, Ident, NEW m \in Envelope, Send(m), now' \in {now, Blank},
           armed' \in SUBSET armed,
           m.type \in {"timeout", "backoff"} =>
               \E c \in armed \ armed' : m.lease.cb = c.cb /\ m.attempt = c.attempt
    PROVE  /\ Ident' /\ Insts' \subseteq Insts
           /\ \E n \in Envelope : n.type = m.type /\ Range(mailbox') = Range(mailbox) \cup {n}
<1> DEFINE n == [m EXCEPT !.id = ids + 1]
<1>1. ids \in Nat /\ Blank.id = 0 /\ Blank.type = "none" /\ mailbox \in Seq(Envelope)
  BY DEF TypeInv, Blank
<1>2. /\ n \in Envelope /\ n.type = m.type /\ n.id = ids + 1 /\ n.lease = m.lease
      /\ n.attempt = m.attempt
  <2>1. m \in EnvelopeType /\ ids + 1 \in Nat
    BY <1>1 DEF Envelope
  <2>2. /\ n \in EnvelopeType /\ n.type = m.type /\ n.id = ids + 1 /\ n.lease = m.lease
        /\ n.attempt = m.attempt /\ n.step = m.step /\ n.result = m.result /\ n.next = m.next
    BY <2>1 DEF EnvelopeType
  <2> HIDE DEF n
  <2> QED BY <2>2 DEF Envelope
<1>3. mailbox' = Append(mailbox, n) /\ ids' = ids + 1
  BY DEF Send
<1> HIDE DEF n
<1>4. Range(mailbox') = Range(mailbox) \cup {n}
  BY <1>1, <1>2, <1>3, RangeAppended
<1>5. \A e \in Range(mailbox) : e.id \in Nat /\ 1 <= e.id /\ e.id <= ids /\ e.id # now.id
  BY <1>1 DEF Range, Envelope, EnvelopeType, Ident
<1>6. now.id \in Nat /\ now.id <= ids
  BY <1>1 DEF TypeInv, Envelope, EnvelopeType, Ident
<1>7. Numbered(mailbox')
  <2>1. \A e \in Range(mailbox) : e.id # n.id
    BY <1>1, <1>2, <1>5
  <2> QED BY <1>1, <1>2, <1>3, <2>1, NumberedAppended DEF Ident
<1>8. \A e \in Range(mailbox') : /\ 1 <= e.id /\ e.id <= ids' /\ e.id # now'.id
                                 /\ e \in Range(mailbox) \/ e.id > ids
  BY <1>1, <1>2, <1>3, <1>4, <1>5, <1>6
<1>9. \A e \in Fired' : \/ e \in Fired
                        \/ \E c \in armed \ armed' : e.lease.cb = c.cb /\ e.attempt = c.attempt
  BY <1>1, <1>2, <1>4 DEF Fired
<1>10. now'.id <= ids' /\ ids' \in Nat /\ ids <= ids'
  BY <1>1, <1>3, <1>6
<1> QED BY <1>2, <1>4, <1>7, <1>8, <1>9, <1>10, IdentFrom

\* A callback is scheduled under an id nobody has.
LEMMA IdentArmed ==
    ASSUME TypeInv, Ident, NEW a \in ArmEffect, mailbox' = mailbox, now' \in {now, Blank},
           ids' = ids, a.cb.origin = now.id, \A i \in Insts : i.cb # a.cb,
           armed' = armed \cup {[cb |-> a.cb, gen |-> 1, attempt |-> a.attempt]}
    PROVE  Ident' /\ Insts' \subseteq Insts \cup {[cb |-> a.cb, attempt |-> a.attempt]}
<1> DEFINE c == [cb |-> a.cb, gen |-> 1, attempt |-> a.attempt]
           i == [cb |-> a.cb, attempt |-> a.attempt]
<1>1. ids \in Nat /\ Blank.id = 0 /\ Blank.type = "none"
  BY DEF TypeInv, Blank
<1>2. \A m \in Range(mailbox) : m.id \in Nat /\ 1 <= m.id /\ m.id <= ids /\ m.id # now.id
  BY DEF TypeInv, Range, Envelope, EnvelopeType, Ident
<1>3. Fired' \subseteq Fired
  BY <1>1 DEF Fired
<1>4. c.cb = a.cb /\ c.gen = 1 /\ c.attempt = a.attempt /\ i.cb = a.cb /\ armed' = armed \cup {c}
  OBVIOUS
<1>5. i = [cb |-> c.cb, attempt |-> c.attempt]
  OBVIOUS
<1> HIDE DEF c, i
<1>6. Insts' \subseteq Insts \cup {i}
  BY <1>3, <1>4, <1>5 DEF Insts
<1>7. \A d \in armed : d.cb # a.cb
  <2> SUFFICES ASSUME NEW d \in armed PROVE d.cb # a.cb
    OBVIOUS
  <2> DEFINE j == [cb |-> d.cb, attempt |-> d.attempt]
  <2>1. j \in Insts /\ j.cb = d.cb
    BY DEF Insts
  <2> HIDE DEF j
  <2> QED BY <2>1
<1>8. \A m \in Fired : m.lease.cb # a.cb
  <2> SUFFICES ASSUME NEW m \in Fired PROVE m.lease.cb # a.cb
    OBVIOUS
  <2> DEFINE j == [cb |-> m.lease.cb, attempt |-> m.attempt]
  <2>1. j \in Insts /\ j.cb = m.lease.cb
    BY DEF Insts
  <2> HIDE DEF j
  <2> QED BY <2>1
<1>9. \A j \in Insts' : j.cb.origin <= ids' /\ \A m \in Range(mailbox') : m.id # j.cb.origin
  BY <1>2, <1>4, <1>6 DEF Ident
<1>10. now'.id <= ids' /\ \A m \in Range(mailbox') : 1 <= m.id /\ m.id <= ids' /\ m.id # now'.id
  BY <1>1, <1>2 DEF Ident
<1>11. \A d, e \in armed' : d.cb = e.cb => d = e
  BY <1>4, <1>7 DEF Ident
<1>12. \A d \in armed' : d.gen = 1 /\ \A m \in Fired' : d.cb # m.lease.cb
  BY <1>3, <1>4, <1>8 DEF Ident
<1>13. Numbered(mailbox') /\ \A m \in Fired' : m.lease.cb # NoCallback
  BY <1>3 DEF Ident
<1> QED BY <1>6, <1>9, <1>10, <1>11, <1>12, <1>13 DEF Ident, i

-----------------------------------------------------------------------------
(* What a run without failures and crashes keeps of its callbacks          *)

Stopping == Persist("stopped") \o Disable

\* Who was not asked to stop does not.
Unasked == stops = 0 => todo # Stopping /\ \A m \in Range(mailbox) : m.type # "stop"

CallbackInv ==
    /\ Ident /\ Unasked /\ retrying = {}
    /\ Promised(todo, kernel, granted, Insts, Watched, now.id)
    /\ Timely(todo, kernel, now)

Smooth == failures = 0 /\ crashes = 0

LEMMA StoppingForm ==
    /\ Stopping # <<>> /\ Head(Stopping) = [do |-> "persist", status |-> "stopped"]
    /\ Stopping \in AgentTodos
<1> DEFINE e == [do |-> "persist", status |-> "stopped"]
           f == [do |-> "disable"]
<1>1. Stopping = <<e>> \o <<f>>
  BY DEF Stopping, Persist, Disable
<1> HIDE DEF e, f
<1>2. Head(<<e>> \o <<f>>) = e /\ <<e>> \o <<f>> = <<e, f>> /\ <<e, f>> # <<>>
  BY FirstOfTwo, TwoJoined, TwoTail
<1>3. Stopping \in AgentTodos
  BY DEF Stopping, AgentTodos, Terminal
<1> QED BY <1>1, <1>2, <1>3 DEF e

LEMMA KernelNeverStops ==
    ASSUME NEW q, KernelTodo(q)
    PROVE  q # Stopping
<1>1. \A e \in KernelEffect : e.do # "persist"
  BY DEF KernelEffect, WorkEffect, SaveEffect, RequestEffect, ArmEffect, CancelEffect,
         AgainEffect, CompletionEffect, EndEffect
<1>2. q # <<>> => Head(q) \in KernelEffect
  BY KernelStep
<1>3. Head(Stopping).do = "persist" /\ Stopping # <<>>
  BY StoppingForm
<1> QED BY <1>1, <1>2, <1>3

LEMMA StopsOnlyAsked ==
    ASSUME TypeInv, NEW m \in Envelope, m.type \notin {"request", "stop"}
    PROVE  Handler(m) # Stopping
<1>1. m.type \in HandlerTypes
  BY DEF Envelope, EnvelopeType, HandlerTypes
<1>2. kernel \in KernelState /\ ids \in Nat /\ modules \in BOOLEAN
  BY DEF TypeInv
<1>3. CASE m.type \in {"completed", "timeout", "backoff", "start"}
  <2>1. Closing(Outcome("active", NoStep))
    BY DEF Closing, OutcomeKinds
  <2>2. m.type = "start" => KernelTodo(HandleStart(m))
    BY <1>2, <2>1, StartTyped DEF KernelTodo, Course
  <2>3. m.type = "completed" => KernelTodo(HandleCompleted(m))
    BY <1>2, CompletedTyped DEF KernelTodo
  <2>4. m.type = "timeout" => KernelTodo(HandleTimeout(m))
    BY <1>2, TimeoutTyped DEF KernelTodo, Course
  <2>5. m.type = "backoff" => KernelTodo(HandleBackoff(m))
    BY <1>2, BackoffTyped DEF KernelTodo, Course
  <2>6. m.type = "start" => Handler(m) = HandleStart(m)
    BY DEF Handler
  <2>7. KernelTodo(Handler(m))
    BY <1>3, <2>2, <2>3, <2>4, <2>5, <2>6, KernelHandler
  <2> QED BY <2>7, KernelNeverStops
<1>4. CASE m.type \in {"chat", "runCompleted"}
  <2> SUFFICES ASSUME Handler(m) = Stopping PROVE FALSE
    OBVIOUS
  <2> DEFINE d == [do |-> "persist", status |-> "running"]
             f == [do |-> "persist", status |-> IF m.result = "ok" THEN "completed" ELSE "failed"]
             p == [do |-> "post", m |-> [Blank EXCEPT !.type = "start"]]
             o == [do |-> "disable"]
  <2>1. m.type = "chat" => Handler(m) = <<d>> \o <<p>>
    BY DEF Handler, HandleChatRequest, Post, Persist
  <2>2. m.type = "runCompleted" => Handler(m) = <<f>> \o <<o>>
    BY DEF Handler, HandleWorkflowCompleted, Persist, Disable
  <2>3. d.status # "stopped" /\ f.status # "stopped"
    OBVIOUS
  <2> HIDE DEF d, f, p, o
  <2>4. Head(<<d>> \o <<p>>) = d /\ Head(<<f>> \o <<o>>) = f
    BY FirstOfTwo
  <2>5. Head(Stopping).status = "stopped"
    BY StoppingForm
  <2> QED BY <1>4, <2>1, <2>2, <2>3, <2>4, <2>5
<1> QED BY <1>1, <1>3, <1>4 DEF HandlerTypes

LEMMA StoppingTail ==
    ASSUME TypeInv, todo # <<>>
    PROVE  Tail(todo) # Stopping
<1>1. CASE KernelTodo(todo)
  BY <1>1, KernelStep, KernelNeverStops
<1>2. CASE todo \in AgentTodos
  <2>1. Tail(todo) \in {Post(StartMessage), Disable, <<>>}
    BY <1>2, AgentForms
  <2>2. Head(Post(StartMessage)).do = "post" /\ Head(Disable).do = "disable"
    BY DEF Post, Disable
  <2>3. Head(Stopping).do = "persist" /\ Stopping # <<>>
    BY StoppingForm
  <2> QED BY <2>1, <2>2, <2>3
<1> QED BY <1>1, <1>2 DEF TypeInv

\* The handler of the next envelope.
LEMMA HandlerPromise ==
    ASSUME TypeInv, CallbackInv, todo = <<>>, mailbox # <<>>,
           NEW m, m = Head(mailbox), m.type # "request"
    PROVE  /\ Promised(Handler(m), kernel, granted, Insts, Watched, m.id)
           /\ Timely(Handler(m), kernel, m)
           /\ stops = 0 => Handler(m) # Stopping
<1> DEFINE I == Insts
           A == Watched
           g == granted
<1>1. /\ m \in Envelope /\ m \in Range(mailbox)
  <2>1. mailbox \in Seq(Envelope)
    BY DEF TypeInv
  <2> QED BY <2>1, RangeTaken
<1>2. kernel \in KernelState /\ ids \in Nat /\ modules \in BOOLEAN /\ armed \in SUBSET ArmedType
  BY DEF TypeInv, ArmedType
<1>3. m.type \in HandlerTypes
  BY <1>1 DEF Envelope, EnvelopeType, HandlerTypes
<1>4. Fresh(I, m.id)
  BY <1>1 DEF Fresh, CallbackInv, Ident
<1>5. Settled(kernel, I, A)
  BY PromiseAtRest DEF CallbackInv
<1>6. A \in SUBSET ArmedType
  BY <1>2 DEF Watched
<1>7. m.type \in {"timeout", "backoff"} =>
          /\ [cb |-> m.lease.cb, attempt |-> m.attempt] \in I
          /\ m.lease.cb # NoCallback /\ \A c \in A : c.cb # m.lease.cb
  <2>1. m.type \in {"timeout", "backoff"} => m \in Fired
    BY <1>1 DEF Fired
  <2> QED BY <2>1 DEF CallbackInv, Ident, Insts, Watched
<1>8. m.type = "stop" => A = {}
  BY <1>1 DEF CallbackInv, Unasked, Watched
<1> HIDE DEF I, A, g
<1>9. Promised(Handler(m), kernel, g, I, A, m.id) /\ Timely(Handler(m), kernel, m)
  <2>1. CASE m.type = "chat"
    BY <1>1, <1>2, <1>5, <1>6, <2>1, AgentPromise DEF Handler, Timely
  <2>2. CASE m.type = "start"
    BY <1>1, <1>2, <1>4, <1>5, <1>6, <2>2, StartPromise DEF Handler, Timely
  <2>3. CASE m.type = "timeout"
    BY <1>1, <1>2, <1>5, <1>6, <1>7, <2>3, TimeoutPromise, KernelHandler
  <2>4. CASE m.type = "backoff"
    BY <1>1, <1>2, <1>4, <1>5, <1>6, <1>7, <2>4, BackoffPromise, KernelHandler DEF Timely
  <2>5. CASE m.type = "completed"
    BY <1>1, <1>2, <1>4, <1>5, <1>6, <2>5, CompletedPromise, KernelHandler DEF Timely
  <2>6. CASE m.type = "runCompleted"
    BY <1>1, <1>2, <1>5, <1>6, <2>6, AgentPromise DEF Handler, Timely
  <2>7. CASE m.type = "stop"
    BY <1>1, <1>2, <1>5, <1>6, <1>8, <2>7, AgentPromise DEF Handler, Timely
  <2> QED BY <1>3, <2>1, <2>2, <2>3, <2>4, <2>5, <2>6, <2>7 DEF HandlerTypes
<1>10. stops = 0 => Handler(m) # Stopping
  BY <1>1, StopsOnlyAsked DEF CallbackInv, Unasked
<1> QED BY <1>9, <1>10 DEF I, A, g

Uncancelled(A, leases) == {c \in A : [cb |-> c.cb, gen |-> 1] \notin leases}

\* One effect of a promise is carried out.
LEMMA PromiseTaken ==
    ASSUME NEW q, q # <<>>, NEW k, NEW g, NEW I, NEW A, NEW o, Promised(q, k, g, I, A, o)
    PROVE  /\ q \in Seq(AnyEffect) /\ Head(q).do # "again"
           /\ Head(q).do \notin {"save", "arm", "cancel"} => Promised(Tail(q), k, g, I, A, o)
           /\ Head(q).do = "cancel" =>
                  Promised(Tail(q), k, g, I, Uncancelled(A, Head(q).leases), o)
           /\ Head(q).do = "save" =>
                  \/ Turning(Tail(q), g, I, A, o)
                  \/ /\ Head(q) \in SaveEffect /\ Tail(q) \in Seq(Trail)
                     /\ Tidy(Head(q).k, g) /\ Hits(Head(q).k, I) /\ Held(Tail(q), Head(q).k, A)
           /\ Head(q).do = "arm" =>
                  \E x \in KernelState :
                      /\ Head(q) \in ArmEffect /\ Suits(Head(q), x, I, o)
                      /\ Lands(Tail(q), x) /\ Tidy(x, 1) /\ Hits(x, I) /\ Held(Tail(q), x, A)
<1>1. CASE Resting(q, k, I, A)
  BY <1>1, RestingStep DEF Promised, Uncancelled
<1>2. CASE Landing(q, g, I, A)
  <2>1. \A e \in SaveEffect : e.do = "save"
    BY KindsApart
  <2> QED BY <1>2, <2>1, LandingStep DEF Promised, Turning, Uncancelled
<1>3. CASE Scheduling(q, I, A, o)
  BY <1>3, SchedulingStep DEF Promised, Turning, Uncancelled
<1> QED BY <1>1, <1>2, <1>3 DEF Promised, Turning

LEMMA StepPromise ==
    ASSUME Step, NEW k, NEW g, NEW I, NEW A, Promised(Tail(todo), k, g, I, A, now.id)
    PROVE  Promised(todo', k, g, I, A, now'.id)
<1>1. todo' = Tail(todo) /\ (todo' # <<>> => now' = now)
  BY DEF Step
<1>2. CASE todo' = <<>>
  BY <1>1, <1>2, PromiseAtRest
<1> QED BY <1>1, <1>2

LEMMA StepTimely ==
    ASSUME Step, NEW S, todo \in Seq(S), todo # <<>>, Timely(todo, kernel, now), NEW k
    PROVE  Timely(todo', k, now')
<1>1. todo' = Tail(todo) /\ now' \in {now, Blank}
  BY DEF Step
<1>2. Blank.type # "timeout"
  BY DEF Blank
<1> SUFFICES ASSUME now.type = "timeout", todo' # <<>>, now' = now
             PROVE  Timely(todo', k, now)
  BY <1>1, <1>2 DEF Timely
<1>3. \A e \in Range(Tail(todo)) : e.do = "save"
  BY DEF Timely
<1>4. Tail(todo) \in Seq(S) /\ Tail(todo) # <<>>
  BY <1>1
<1>5. Range(Tail(todo)) = {Head(Tail(todo))} \cup Range(Tail(Tail(todo)))
  BY <1>4, RangeTaken
<1> QED BY <1>1, <1>3, <1>5 DEF Timely

\* The generation granted to a new callback is its first, and the state that the
\* handler will save holds it.
LEMMA ArmPromise ==
    ASSUME TypeInv, CallbackInv, ScheduleCallback
    PROVE  /\ Ident'
           /\ Promised(todo', kernel', granted', Insts', Watched', now'.id)
<1> DEFINE a == Head(todo)
           c == [cb |-> a.cb, gen |-> 1, attempt |-> a.attempt]
           i == [cb |-> a.cb, attempt |-> a.attempt]
<1>1. todo # <<>> /\ a.do = "arm" /\ Step
  BY DEF ScheduleCallback, Effect
<1>2. PICK k \in KernelState :
          /\ a \in ArmEffect /\ Suits(a, k, Insts, now.id)
          /\ Lands(Tail(todo), k) /\ Tidy(k, 1) /\ Hits(k, Insts) /\ Held(Tail(todo), k, Watched)
  BY <1>1, PromiseTaken DEF CallbackInv
<1>3. \A j \in Insts : j.cb # a.cb
  BY <1>2 DEF Suits
<1>4. \A d \in armed : d.cb # a.cb
  <2> SUFFICES ASSUME NEW d \in armed PROVE d.cb # a.cb
    OBVIOUS
  <2>1. [cb |-> d.cb, attempt |-> d.attempt] \in Insts
    BY DEF Insts
  <2> QED BY <1>3, <2>1
<1>5. /\ granted' = 1 /\ armed' = armed \cup {c} /\ mailbox' = mailbox /\ ids' = ids
      /\ stops' = stops
  <2>1. {d \in armed : d.cb = a.cb} = {}
    BY <1>4
  <2> QED BY <2>1 DEF ScheduleCallback
<1>6. now' \in {now, Blank}
  BY <1>1 DEF Step
<1>7. Ident' /\ Insts' \subseteq Insts \cup {i}
  BY <1>2, <1>3, <1>5, <1>6, IdentArmed DEF CallbackInv, Suits
<1>8. Watched' \subseteq Watched \cup {c}
  BY <1>5 DEF Watched
<1>9. Hits(k, Insts \cup {i})
  BY <1>2 DEF Hits, Suits
<1>10. Held(Tail(todo), k, Watched \cup {c})
  <2>1. Owns(k, c.cb)
    BY <1>2 DEF Suits
  <2> HIDE DEF c
  <2> QED BY <1>2, <2>1 DEF Held
<1>11. Promised(Tail(todo), kernel', 1, Insts \cup {i}, Watched \cup {c}, now.id)
  BY <1>2, <1>9, <1>10 DEF Promised, Turning, Landing
<1>12. Promised(Tail(todo), kernel', 1, Insts', Watched', now.id)
  <2> HIDE DEF i, c
  <2> QED BY <1>7, <1>8, <1>11, PromisedLess
<1> QED BY <1>1, <1>5, <1>7, <1>12, StepPromise

\* What a handler publishes is no callback and no stop.
LEMMA Published ==
    ASSUME TypeInv, Perform, Head(todo).do \in {"post", "request"}
    PROVE  \E m \in Envelope : m.type \notin {"timeout", "backoff", "stop"} /\ Send(m)
<1>1. todo # <<>>
  BY PerformKind
<1>2. CASE Head(todo).do = "post"
  <2>1. Head(todo).m \in Envelope /\ Send(Head(todo).m)
    BY <1>2, PerformFacts
  <2>2. Head(todo) \in KernelEffect \cup PersistEffect \cup DisableEffect \cup OpenEffect
    BY <1>1, EffectTyped
  <2>3. Head(todo) \in CompletionEffect \cup EndEffect \cup OpenEffect
    BY <1>2, <2>2 DEF KernelEffect, WorkEffect, SaveEffect, RequestEffect, ArmEffect,
                     CancelEffect, AgainEffect, PersistEffect, DisableEffect
  <2>4. Head(todo).m.type \in {"completed", "runCompleted", "start"}
    BY <2>3 DEF CompletionEffect, EndEffect, OpenEffect, StartMessage, Blank
  <2> QED BY <2>1, <2>4
<1>3. CASE Head(todo).do = "request"
  BY <1>3, PerformFacts
<1> QED BY <1>2, <1>3

\* The status "stopped" is persisted on request only.
LEMMA StopPersists ==
    ASSUME TypeInv, CallbackInv, todo # <<>>, Effect("persist"), Head(todo).status = "stopped"
    PROVE  stops # 0 /\ Tail(todo) \in Seq(Trail)
<1>1. todo \in AgentTodos
  BY AgentAtWork
<1> DEFINE p(st) == [do |-> "persist", status |-> st]
           d == [do |-> "disable"]
<1>2. \A st : p(st).status = st /\ p(st).do = "persist"
  OBVIOUS
<1>3. d.do # "persist" /\ [do |-> "post", m |-> StartMessage].do # "persist"
  OBVIOUS
<1>4. Disable = <<d>> /\ Stopping = <<p("stopped")>> \o <<d>> /\ d \in Trail
  BY DEF Disable, Stopping, Persist, Trail, AgentEffects, DisableEffect
<1> HIDE DEF p, d
<1>5. \A a, b : Head(<<a, b>>) = a /\ Head(<<a>>) = a
  OBVIOUS
<1>6. \A a, b : <<a>> \o <<b>> = <<a, b>>
  BY TwoJoined
<1>7. \E st \in Terminal : todo = <<p(st), d>> /\ Tail(todo) = Disable
  <2>1. \/ todo = <<p("running"), [do |-> "post", m |-> StartMessage]>>
        \/ todo = <<[do |-> "post", m |-> StartMessage]>>
        \/ \E st \in Terminal : todo = <<p(st), d>> /\ Tail(todo) = Disable
        \/ todo = <<d>>
    BY <1>1, AgentForms DEF p, d
  <2>2. Head(todo).do = "persist"
    BY DEF Effect
  <2> QED BY <1>2, <1>3, <1>5, <2>1, <2>2
<1>8. todo = Stopping
  BY <1>2, <1>4, <1>5, <1>6, <1>7
<1>9. Disable \in Seq(Trail)
  BY <1>4
<1> QED BY <1>7, <1>8, <1>9 DEF CallbackInv, Unasked

LEMMA PerformCallbacks ==
    ASSUME TypeInv, CallbackInv, Perform
    PROVE  CallbackInv'
<1> USE DEF runVars
<1> DEFINE e == Head(todo)
           o == now.id
<1>1. /\ todo # <<>> /\ granted \in Nat /\ ids \in Nat
      /\ todo \in Seq(AnyEffect) /\ e.do # "again"
  BY PerformKind, PromiseTaken DEF TypeInv, CallbackInv
<1>2. e.do \in {"save", "post", "request", "tell", "arm", "cancel", "persist", "disable"}
  BY <1>1 DEF Perform, SaveState, PublishSelf, PublishRequest, TellParent, ScheduleCallback,
              CancelCallbacks, Reload, PersistStatus, DisableModules, Effect
<1>3. Step
  BY <1>2, PerformFacts
<1>4. todo' = Tail(todo) /\ now' \in {now, Blank}
  BY <1>3 DEF Step
<1>5. retrying' = {} /\ stops' = stops
  BY DEF CallbackInv, Perform, SaveState, PublishSelf, PublishRequest, TellParent,
         ScheduleCallback, CancelCallbacks, Reload, PersistStatus, DisableModules
<1>6. Timely(todo', kernel', now')
  BY <1>1, <1>3, StepTimely DEF CallbackInv
<1>7. Ident' /\ (e.do # "arm" => Insts' \subseteq Insts)
  <2>1. CASE e.do \in {"post", "request"}
    <3>1. armed' = armed
      BY <2>1, PerformKind DEF PublishSelf, PublishRequest
    <3>2. PICK m \in Envelope : m.type \notin {"timeout", "backoff", "stop"} /\ Send(m)
      BY <2>1, Published
    <3> QED BY <1>4, <2>1, <3>1, <3>2, IdentSent DEF CallbackInv
  <2>2. CASE e.do = "arm"
    BY <2>2, PerformKind, ArmPromise
  <2>3. CASE e.do \in {"save", "tell", "cancel", "persist", "disable"}
    <3>1. mailbox' = mailbox /\ armed' \in SUBSET armed /\ ids' = ids
      BY <2>3, PerformKind DEF SaveState, TellParent, CancelCallbacks, PersistStatus,
                               DisableModules
    <3> QED BY <1>4, <2>3, <3>1, IdentKept DEF CallbackInv
  <2> QED BY <1>2, <2>1, <2>2, <2>3
<1>8. Unasked'
  <2> SUFFICES ASSUME stops = 0
               PROVE  todo' # Stopping /\ \A m \in Range(mailbox') : m.type # "stop"
    BY <1>5 DEF Unasked, Stopping, Persist, Disable
  <2>1. \A m \in Range(mailbox) : m.type # "stop"
    BY DEF CallbackInv, Unasked
  <2>2. CASE e.do \in {"post", "request"}
    <3>1. armed' = armed
      BY <2>2, PerformKind DEF PublishSelf, PublishRequest
    <3>2. PICK m \in Envelope : m.type \notin {"timeout", "backoff", "stop"} /\ Send(m)
      BY <2>2, Published
    <3>3. \E n \in Envelope : n.type = m.type /\ Range(mailbox') = Range(mailbox) \cup {n}
      BY <1>4, <3>1, <3>2, IdentSent DEF CallbackInv
    <3> QED BY <1>1, <1>4, <2>1, <3>2, <3>3, StoppingTail
  <2>3. CASE e.do \notin {"post", "request"}
    <3>1. mailbox' = mailbox
      BY <1>2, <2>3, PerformFacts
    <3> QED BY <1>1, <1>4, <2>1, <3>1, StoppingTail
  <2> QED BY <2>2, <2>3
<1>9. Promised(todo, kernel, granted, Insts, Watched, o)
  BY DEF CallbackInv
<1>10. Promised(todo', kernel', granted', Insts', Watched', now'.id)
  <2>1. CASE e.do = "arm"
    BY <2>1, PerformKind, ArmPromise
  <2>2. ASSUME e.do # "arm"
        PROVE  /\ granted' = granted /\ Insts' \subseteq Insts
               /\ e.do # "cancel" => Watched' = Watched
    <3>1. granted' = granted
      BY <1>2, <2>2, PerformKind DEF SaveState, PublishSelf, PublishRequest, TellParent,
                                   CancelCallbacks, PersistStatus, DisableModules
    <3>2. e.do # "cancel" => armed' = armed
      BY <1>2, <2>2, PerformKind DEF SaveState, PublishSelf, PublishRequest, TellParent,
                                   PersistStatus, DisableModules
    <3> QED BY <1>5, <1>7, <2>2, <3>1, <3>2 DEF Watched
  <2>3. ASSUME NEW J, NEW B, Promised(Tail(todo), kernel', granted, J, B, o),
               e.do # "arm", Insts' \subseteq J, Watched' \subseteq B
        PROVE  Promised(todo', kernel', granted', Insts', Watched', now'.id)
    <3>1. Promised(Tail(todo), kernel', granted, Insts', Watched', o)
      BY <2>3, PromisedLess
    <3> QED BY <1>3, <2>2, <2>3, <3>1, StepPromise
  <2>4. CASE e.do = "save"
    <3>1. kernel' = GrantedKernel(e.k) /\ e \in SaveEffect
      BY <2>4, PerformFacts
    <3>2. CASE Turning(Tail(todo), granted, Insts, Watched, o)
      BY <2>2, <2>3, <2>4, <3>2 DEF Promised
    <3>3. CASE /\ Tail(todo) \in Seq(Trail)
               /\ Tidy(e.k, granted) /\ Hits(e.k, Insts) /\ Held(Tail(todo), e.k, Watched)
      <4>1. e.k \in KernelState
        BY <3>1, KindsApart
      <4>2. /\ Tidy(GrantedKernel(e.k), 0) /\ Hits(GrantedKernel(e.k), Insts)
            /\ Held(Tail(todo), GrantedKernel(e.k), Watched)
        BY <1>1, <3>3, <4>1, GrantedTidy
      <4>3. Promised(Tail(todo), kernel', granted, Insts, Watched, o)
        BY <3>1, <3>3, <4>2 DEF Promised, Resting
      <4> QED BY <2>2, <2>3, <2>4, <4>3
    <3> QED BY <1>1, <1>9, <2>4, <3>2, <3>3, PromiseTaken
  <2>5. CASE e.do = "cancel"
    <3>1. kernel' = kernel
      BY <2>5, PerformFacts
    <3>2. Promised(Tail(todo), kernel', granted, Insts, Uncancelled(Watched, e.leases), o)
      BY <1>1, <1>9, <2>5, <3>1, PromiseTaken
    <3>3. Watched' \subseteq Uncancelled(Watched, e.leases)
      <4>1. armed' = {c \in armed : [cb |-> c.cb, gen |-> c.gen] \notin e.leases}
        BY <2>5, PerformKind DEF CancelCallbacks
      <4>2. \A c \in armed : c.gen = 1
        BY DEF CallbackInv, Ident
      <4> QED BY <1>5, <4>1, <4>2 DEF Watched, Uncancelled
    <3> QED BY <2>2, <2>3, <2>5, <3>2, <3>3
  <2>6. CASE e.do \in {"post", "request", "tell", "persist", "disable"}
    <3>1. Promised(Tail(todo), kernel, granted, Insts, Watched, o)
      BY <1>1, <1>9, <2>6, PromiseTaken
    <3>2. CASE kernel' = kernel
      BY <2>2, <2>3, <2>6, <3>1, <3>2
    <3>3. CASE e.do = "persist" /\ e.status = "stopped"
      <4>1. kernel' = Idle
        BY <3>3, PerformFacts
      <4>2. stops # 0 /\ Tail(todo) \in Seq(Trail)
        BY <1>1, <3>3, StopPersists DEF Effect
      <4>3. Watched = {}
        BY <4>2 DEF Watched
      <4>4. Held(Tail(todo), Idle, {})
        BY DEF Held
      <4>5. Promised(Tail(todo), kernel', granted, Insts, Watched, o)
        BY <4>1, <4>2, <4>3, <4>4, IdleTidy DEF Promised, Resting
      <4> QED BY <2>2, <2>3, <2>6, <4>5
    <3> QED BY <2>6, <3>2, <3>3, PerformFacts
  <2> QED BY <1>2, <2>1, <2>4, <2>5, <2>6
<1> QED BY <1>5, <1>6, <1>7, <1>8, <1>10 DEF CallbackInv

LEMMA CallbackLess ==
    ASSUME CallbackInv, Ident', Unasked', retrying' = {},
           UNCHANGED <<todo, kernel, granted, now>>,
           Insts' \subseteq Insts, Watched' \subseteq Watched
    PROVE  CallbackInv'
<1>1. Promised(todo, kernel, granted, Insts', Watched', now.id)
  BY PromisedLess DEF CallbackInv
<1>2. Promised(todo', kernel', granted', Insts', Watched', now'.id)
  BY <1>1
<1>3. Timely(todo', kernel', now')
  BY DEF CallbackInv, Timely
<1> QED BY <1>2, <1>3 DEF CallbackInv

LEMMA DeliverCallbacks ==
    ASSUME TypeInv, CallbackInv, Deliver
    PROVE  CallbackInv'
<1> USE DEF runVars
<1> DEFINE m == Head(mailbox)
<1>1. /\ todo = <<>> /\ mailbox # <<>> /\ m.type # "request" /\ todo' = Handler(m)
      /\ mailbox' = Tail(mailbox) /\ ids' = ids + 1
      /\ UNCHANGED <<kernel, granted, armed, retrying, stops>>
  BY DEF Deliver
<1>2. now' = IF todo' = <<>> THEN Blank ELSE m
  BY DEF Deliver
<1>3. Ident' /\ Insts' \subseteq Insts
  BY <1>1, <1>2, IdentTaken DEF CallbackInv
<1>4. Watched' = Watched
  BY <1>1 DEF Watched
<1>5. /\ Promised(Handler(m), kernel, granted, Insts, Watched, m.id)
      /\ Timely(Handler(m), kernel, m)
      /\ stops = 0 => Handler(m) # Stopping
  BY <1>1, HandlerPromise
<1>6. Promised(todo', kernel', granted', Insts', Watched', now'.id)
  <2>1. Promised(todo', kernel, granted, Insts', Watched', m.id)
    BY <1>1, <1>3, <1>4, <1>5, PromisedLess
  <2>2. CASE todo' = <<>>
    BY <1>1, <2>1, <2>2, PromiseAtRest
  <2> QED BY <1>1, <1>2, <2>1, <2>2
<1>7. Timely(todo', kernel', now')
  BY <1>1, <1>2, <1>5 DEF Timely
<1>8. Unasked'
  <2>1. Range(Tail(mailbox)) \subseteq Range(mailbox)
    <3>1. mailbox \in Seq(Envelope)
      BY DEF TypeInv
    <3> QED BY <1>1, <3>1, RangeTaken
  <2>2. stops = 0 => \A n \in Range(mailbox) : n.type # "stop"
    BY DEF CallbackInv, Unasked
  <2> QED BY <1>1, <1>5, <2>1, <2>2 DEF Unasked, Stopping, Persist, Disable
<1>9. retrying' = {}
  BY <1>1 DEF CallbackInv
<1> QED BY <1>3, <1>6, <1>7, <1>8, <1>9 DEF CallbackInv

\* What comes to the mailbox from outside a handler: an answer, a callback, a stop.
LEMMA ArrivalCallbacks ==
    ASSUME TypeInv, CallbackInv, NEW m \in Envelope, Send(m), armed' \in SUBSET armed,
           m.type \in {"timeout", "backoff"} =>
               \E c \in armed \ armed' : m.lease.cb = c.cb /\ m.attempt = c.attempt,
           m.type = "stop" => stops' # 0,
           stops' = 0 => stops = 0,
           UNCHANGED <<todo, kernel, granted, now, retrying>>
    PROVE  CallbackInv'
<1>1. now' \in {now, Blank} /\ retrying' = {}
  BY DEF CallbackInv
<1>2. /\ Ident' /\ Insts' \subseteq Insts
      /\ \E n \in Envelope : n.type = m.type /\ Range(mailbox') = Range(mailbox) \cup {n}
  BY <1>1, IdentSent DEF CallbackInv
<1>3. Watched' \subseteq Watched
  BY DEF Watched
<1>4. Unasked'
  <2>1. stops = 0 => todo # Stopping /\ \A n \in Range(mailbox) : n.type # "stop"
    BY DEF CallbackInv, Unasked
  <2> QED BY <1>2, <2>1 DEF Unasked, Stopping, Persist, Disable
<1> QED BY <1>1, <1>2, <1>3, <1>4, CallbackLess

LEMMA FireCallbacks ==
    ASSUME TypeInv, CallbackInv, NEW c \in armed, Fire(c)
    PROVE  CallbackInv'
<1> DEFINE m == [Blank EXCEPT !.type = c.cb.kind, !.step = c.cb.step, !.attempt = c.attempt,
                              !.lease = [cb |-> c.cb, gen |-> c.gen]]
<1>1. /\ Send(m) /\ armed' = armed \ {c}
      /\ UNCHANGED <<todo, kernel, granted, now, retrying, stops>>
  BY DEF Fire
<1>2. c \in [cb : Due, gen : Nat, attempt : Nat]
  BY DEF TypeInv
<1>3. c.cb \in Due /\ c.gen \in Nat /\ c.attempt \in Nat
  BY <1>2
<1>4. c.cb.kind \in {"timeout", "backoff"} /\ c.cb.step \in Steps
  BY <1>3 DEF Due
<1>5. [cb |-> c.cb, gen |-> c.gen] \in LeaseType
  BY <1>3, LeasesTyped
<1>6. /\ m \in EnvelopeType /\ m.type = c.cb.kind /\ m.step = c.cb.step
      /\ m.lease.cb = c.cb /\ m.attempt = c.attempt
  BY <1>3, <1>4, <1>5, BlankTyped DEF EnvelopeType, Blank
<1>7. m \in Envelope /\ m.type # "stop"
  BY <1>4, <1>6 DEF Envelope
<1>8. c \in armed \ armed'
  BY <1>1
<1> HIDE DEF m
<1> QED BY <1>1, <1>6, <1>7, <1>8, ArrivalCallbacks

LEMMA AnswerCallbacks ==
    ASSUME TypeInv, CallbackInv, NEW w \in working, Answer(w)
    PROVE  CallbackInv'
<1>1. PICK r \in Results, n \in Targets[w.step] :
          Send([Blank EXCEPT !.type = "completed", !.step = w.step, !.result = r,
                             !.next = IF r = "ok" THEN n ELSE NoStep,
                             !.attempt = w.attempt])
  BY DEF Answer
<1>2. UNCHANGED <<todo, kernel, granted, now, armed, retrying, stops>>
  BY DEF Answer
<1>3. w \in Envelope /\ w.type = "request"
  BY DEF TypeInv
<1>4. w.step \in Steps /\ w.attempt \in Nat
  BY <1>3 DEF Envelope, EnvelopeType
<1>5. r \in {"ok", "error", "timeout"} /\ n \in Steps \cup {Done, Invalid}
  BY <1>4, ConstantsAssumption
<1> DEFINE next == IF r = "ok" THEN n ELSE NoStep
           m == [Blank EXCEPT !.type = "completed", !.step = w.step, !.result = r,
                              !.next = next, !.attempt = w.attempt]
<1>6. next \in Steps \cup {Done, Invalid, NoStep} /\ (r = "ok" => next \in Steps \cup {Done, Invalid})
  BY <1>5
<1>7. Send(m)
  BY <1>1
<1> HIDE DEF next
<1>8. /\ m \in EnvelopeType /\ m.type = "completed" /\ m.step = w.step /\ m.result = r
      /\ m.next = next
  BY <1>4, <1>5, <1>6, BlankTyped DEF EnvelopeType, Blank, OutcomeKinds
<1>9. m \in Envelope
  BY <1>4, <1>5, <1>6, <1>8 DEF Envelope
<1> HIDE DEF m
<1> QED BY <1>2, <1>7, <1>8, <1>9, ArrivalCallbacks

LEMMA StopCallbacks ==
    ASSUME TypeInv, CallbackInv, RequestStop
    PROVE  CallbackInv'
<1> USE DEF runVars
<1> DEFINE m == [Blank EXCEPT !.type = "stop"]
<1>1. Send(m) /\ stops' = stops + 1 /\ UNCHANGED <<todo, kernel, granted, now, armed, retrying>>
  BY DEF RequestStop
<1>2. stops \in Nat
  BY ConstantsAssumption DEF TypeInv
<1>3. stops' # 0
  BY <1>1, <1>2
<1>4. m \in EnvelopeType /\ m.type = "stop"
  BY BlankTyped DEF EnvelopeType, Blank
<1>5. m \in Envelope
  BY <1>4 DEF Envelope
<1> HIDE DEF m
<1> QED BY <1>1, <1>3, <1>4, <1>5, ArrivalCallbacks

LEMMA CallbackStep ==
    ASSUME TypeInv, Smooth => CallbackInv, [Next]_vars
    PROVE  Smooth' => CallbackInv'
<1> USE DEF runVars
<1>1. failures \in Nat /\ crashes \in Nat
  BY ConstantsAssumption DEF TypeInv
<1>2. PublishFails => ~Smooth'
  BY <1>1 DEF PublishFails, Smooth
<1>3. Crash => ~Smooth'
  BY <1>1 DEF Crash, Smooth
<1> SUFFICES ASSUME Smooth', ~PublishFails, ~Crash PROVE CallbackInv'
  BY <1>2, <1>3
<1>4. UNCHANGED <<failures, crashes>>
  BY DEF Next, Deliver, AcceptRequest, Perform, SaveState, PublishSelf, PublishRequest,
         TellParent, ScheduleCallback, CancelCallbacks, Reload, PersistStatus, DisableModules,
         Answer, Fire, Redeliver, RequestStop, vars
<1>5. CallbackInv
  BY <1>4 DEF Smooth
<1>6. CASE AcceptRequest
  <2>1. /\ mailbox # <<>> /\ mailbox' = Tail(mailbox)
        /\ UNCHANGED <<todo, kernel, granted, now, armed, retrying, stops, ids>>
    BY <1>6 DEF AcceptRequest
  <2>2. Ident' /\ Insts' \subseteq Insts
    BY <1>5, <2>1, IdentTaken DEF CallbackInv
  <2>3. Unasked'
    <3>1. Range(Tail(mailbox)) \subseteq Range(mailbox)
      <4>1. mailbox \in Seq(Envelope)
        BY DEF TypeInv
      <4> QED BY <2>1, <4>1, RangeTaken
    <3>2. stops = 0 => todo # Stopping /\ \A m \in Range(mailbox) : m.type # "stop"
      BY <1>5 DEF CallbackInv, Unasked
    <3> QED BY <2>1, <3>1, <3>2 DEF Unasked, Stopping, Persist, Disable
  <2>4. Watched' = Watched /\ retrying' = {}
    BY <1>5, <2>1 DEF Watched, CallbackInv
  <2> QED BY <1>5, <2>1, <2>2, <2>3, <2>4, CallbackLess
<1>7. CASE UNCHANGED vars
  <2>1. UNCHANGED <<mailbox, todo, kernel, granted, now, armed, retrying, stops, ids>>
    BY <1>7 DEF vars
  <2>2. now' \in {now, Blank} /\ armed' \in SUBSET armed
    BY <2>1
  <2>3. Ident' /\ Insts' \subseteq Insts
    BY <1>5, <2>1, <2>2, IdentKept DEF CallbackInv
  <2>4. Unasked'
    BY <1>5, <2>1 DEF CallbackInv, Unasked, Stopping, Persist, Disable
  <2>5. Watched' = Watched /\ retrying' = {}
    BY <1>5, <2>1 DEF Watched, CallbackInv
  <2> QED BY <1>5, <2>1, <2>3, <2>4, <2>5, CallbackLess
<1>8. ASSUME NEW m \in retrying, Redeliver(m) PROVE FALSE
  BY <1>5, <1>8 DEF CallbackInv
<1> QED BY <1>5, <1>6, <1>7, <1>8, DeliverCallbacks, PerformCallbacks, AnswerCallbacks,
           FireCallbacks, StopCallbacks DEF Next

LEMMA InitCallbacks == Init => CallbackInv
<1> SUFFICES ASSUME Init PROVE CallbackInv
  OBVIOUS
<1>1. /\ todo = <<>> /\ now = Blank /\ armed = {} /\ retrying = {} /\ kernel = Idle
      /\ ids = Starts /\ Starts \in Nat
      /\ mailbox = [i \in 1 .. Starts |-> [Blank EXCEPT !.type = "chat", !.id = i]]
  BY ConstantsAssumption DEF Init
<1>2. /\ DOMAIN mailbox = 1 .. Starts
      /\ \A i \in 1 .. Starts : mailbox[i].id = i /\ mailbox[i].type = "chat"
  BY <1>1 DEF Blank
<1>3. \A m \in Range(mailbox) : m.type = "chat" /\ m.id \in 1 .. Starts
  BY <1>2 DEF Range
<1>4. now.id = 0 /\ now.type = "none"
  BY <1>1 DEF Blank
<1>5. Fired = {}
  BY <1>3, <1>4 DEF Fired
<1>6. Insts = {} /\ Watched = {}
  BY <1>1, <1>5 DEF Insts, Watched
<1>7. Ident
  <2>1. Numbered(mailbox)
    BY <1>2 DEF Numbered
  <2>2. ids = Starts /\ Starts \in Nat /\ armed = {}
    BY <1>1
  <2>3. ASSUME NEW m \in Range(mailbox)
        PROVE  1 <= m.id /\ m.id <= ids /\ m.id # now.id
    <3>1. m.id \in 1 .. Starts
      BY <1>3
    <3> QED BY <1>4, <2>2, <3>1
  <2>4. now.id <= ids
    BY <1>4, <2>2
  <2> QED BY <1>5, <1>6, <2>1, <2>2, <2>3, <2>4 DEF Ident
<1>8. Unasked
  BY <1>1, <1>3, StoppingForm DEF Unasked
<1>9. Promised(todo, kernel, granted, Insts, Watched, now.id)
  <2>1. Held(<<>>, Idle, {})
    BY DEF Held
  <2>2. <<>> \in Seq(Trail)
    BY TrailPieces
  <2> QED BY <1>1, <1>6, <2>1, <2>2, IdleTidy DEF Promised, Resting
<1>10. Timely(todo, kernel, now)
  BY <1>1 DEF Timely
<1> QED BY <1>1, <1>7, <1>8, <1>9, <1>10 DEF CallbackInv

\* CallbacksAreHeld for every workflow, timeout and backoff: in a run that nothing
\* disturbs, the last state a handler saves owns what is scheduled, because what
\* it no longer owns was cancelled on the way (HandleStepCompletedAsync,
\* CancelTimeoutAsync, StartRetryBackoffAsync, CleanupRunAsync).
THEOREM CallbacksHeld == Spec => []CallbacksAreHeld
<1>1. Init => (Smooth => CallbackInv)
  BY InitCallbacks
<1>2. TypeInv /\ (Smooth => CallbackInv) /\ [Next]_vars => (Smooth => CallbackInv)'
  BY CallbackStep DEF Smooth
<1>3. TypeInv /\ (Smooth => CallbackInv) => CallbacksAreHeld
  <2> SUFFICES ASSUME TypeInv, Smooth => CallbackInv, todo = <<>>, control = <<0, 0, 0>>,
                      NEW c \in armed
               PROVE  \E s \in Steps : [cb |-> c.cb, gen |-> c.gen]
                                        \in {kernel.timeouts[s], kernel.backoffs[s].lease}
    BY DEF CallbacksAreHeld
  <2>1. stops = 0 /\ failures = 0 /\ crashes = 0
    OBVIOUS
  <2>2. CallbackInv
    BY <2>1 DEF Smooth
  <2>3. Settled(kernel, Insts, Watched)
    BY <2>2, PromiseAtRest DEF CallbackInv
  <2>4. Watched = armed /\ armed \in SUBSET ArmedType /\ kernel \in KernelState
    BY <2>1 DEF Watched, TypeInv, ArmedType
  <2>5. c.gen = 1
    BY <2>2 DEF CallbackInv, Ident
  <2>6. /\ kernel.step \in Steps
        /\ \/ kernel.timeouts[kernel.step] = [cb |-> c.cb, gen |-> 1]
           \/ kernel.backoffs[kernel.step].lease = [cb |-> c.cb, gen |-> 1]
    BY <2>3, <2>4, OwnerKnown
  <2> QED BY <2>5, <2>6
<1> QED BY <1>1, <1>2, <1>3, TypesHold, PTL DEF Spec

\* TimeoutHitsItsAttempt for every workflow: callbacks that carry the id of the
\* current step's timeout were scheduled for its attempt, since an id is made from
\* the envelope at work, and no two envelopes have one (MatchesCurrentStepTimeout,
\* HandleWorkflowStepTimeoutFiredAsync).
THEOREM TimeoutsHit == Spec => []TimeoutHitsItsAttempt
<1>1. Init => (Smooth => CallbackInv)
  BY InitCallbacks
<1>2. TypeInv /\ (Smooth => CallbackInv) /\ [Next]_vars => (Smooth => CallbackInv)'
  BY CallbackStep DEF Smooth
<1>3. (Smooth => CallbackInv) => TimeoutHitsItsAttempt
  BY DEF Smooth, CallbackInv, Timely, TimeoutHitsItsAttempt, Effect
<1> QED BY <1>1, <1>2, <1>3, TypesHold, PTL DEF Spec

================================================================================
