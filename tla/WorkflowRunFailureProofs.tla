------------------------ MODULE WorkflowRunFailureProofs ------------------------
(***************************************************************************)
(* A run fails over a step's error only when its attempts are used up: the *)
(* other half of the budget, which says that no attempt is skipped.        *)
(*                                                                         *)
(* A retry is counted before it is requested, and the failure is decided   *)
(* on what was counted.  Spent says that all but one of the retries        *)
(* counted were requested, and that one is announced: a dispatch pending   *)
(* or a backoff waiting (Outstanding).  An error that arrives while it is  *)
(* still announced would be one too early, so Spent also says where an     *)
(* answer that is on its way can find the run: past its step, or at the    *)
(* step with nothing pending but a backoff (Passed).  A failed publication *)
(* leaves a dispatch pending, and there this needs that the steps' ranks   *)
(* grow along every branch and that every retry has a backoff              *)
(* (Replayable).  Where no publication fails nothing is pending between    *)
(* two envelopes (CallbackInv).                                            *)
(*                                                                         *)
(* A handler may leave Spent between a request and the save after it.      *)
(* Level and Leveling say what is left of it and that it comes back.       *)
(*                                                                         *)
(* A second start, handled late, would dispatch the first step of a run    *)
(* that has moved on.  OpenInv says that while the envelope that opens the *)
(* run waits, the kernel is idle or at its first step, with no answer on   *)
(* its way.  QuitInv says that once the parent was told of an error,       *)
(* nothing saves or requests any more, so the attempts stay those made.    *)
(***************************************************************************)
EXTENDS WorkflowRunCallbackProofs

USE DEF control

-----------------------------------------------------------------------------
(* Attempts: what was used of them before a run fails over a step's error  *)

\* Every retry waits for its backoff: nothing is redispatched by the handler that
\* counts it, whose publication could fail and be replayed without the count.
Backed == \A s \in Steps : 1 < MaxAttempts[s] => s \in Delayed

\* Later steps have higher ranks: no branch and no fallback leads back.
Forward(rank) ==
    \A s \in Steps : /\ \A n \in Targets[s] \cap Steps : rank[s] < rank[n]
                     /\ OnError[s] \in Steps => rank[s] < rank[OnError[s]]

Replayable == Backed /\ \E rank \in [Steps -> Nat] : Forward(rank)
Rank == CHOOSE rank \in [Steps -> Nat] : Forward(rank)

\* What was asked of the executors: the requests made for each step, and the steps
\* whose request or answer is on its way.
Account == [made : [Steps -> Nat], flying : SUBSET Steps]
Renewed(a, S) == [made |-> Reset(a.made, S), flying |-> a.flying]
Asked(a, s) == [made |-> More(a.made, s), flying |-> a.flying \cup {s}]

\* An answer that may come for f cannot be taken for one to a dispatch that is
\* still pending: the run is past f, or at f with nothing pending but a backoff.
Passed(f, k) ==
    \/ Rank[f] < Rank[k.step]
    \/ f = k.step /\ (k.pending => k.backoffs[f] # NoBackoff)

Outstanding(k) == IF k.pending \/ Waits(k, k.step) THEN 1 ELSE 0

\* Every retry counted for the current step was made, up to one that is announced.
Spent(k, a) ==
    k.active /\ k.step \in Steps =>
        /\ \A s \in Steps \ {k.step} : k.retries[s] = 0
        /\ k.retries[k.step] + 1 <= a.made[k.step] + Outstanding(k)
        /\ Replayable => \A f \in a.flying : Passed(f, k)

\* An error is told of a step without on_error, all of whose attempts were made.
Honest(m, t) ==
    m.result = "error" =>
        m.step \in Steps /\ MaxAttempts[m.step] <= t[m.step] /\ OnError[m.step] = "fail"

\* What a handler does once its requests are made, before one, and at a failed end.
TimeoutEffect == {e \in CompletionEffect : e.m.result = "timeout"}
CleanEffect(a) ==
    {e \in SaveEffect : e.enters = {} /\ Spent(e.k, a)} \cup ArmEffect \cup CancelEffect
        \cup AgainEffect \cup TimeoutEffect \cup {e \in EndEffect : e.m.result # "error"}
        \cup AgentEffects
DemandEffect(a) == {e \in SaveEffect : e.enters = {} /\ Spent(e.k, a)} \cup ArmEffect
Farewell(a) == CancelEffect \cup {e \in EndEffect : Honest(e.m, a.made)}

\* The state saved last has spent what it counts, or the handler is about to save
\* one that has.
Demanding(q, a) ==
    \E r \in RequestEffect : \E p \in Seq(DemandEffect(a)), y \in Seq(CleanEffect(Asked(a, r.step))) :
        /\ y # <<>> /\ Head(y).do = "save"
        /\ q = p \o (<<r>> \o y)
Level(q, k, a) ==
    \/ Spent(k, a) /\ (q \in Seq(CleanEffect(a)) \/ Demanding(q, a))
    \/ ~k.active /\ q \in Seq(Farewell(a))
Leveling(q, a) ==
    \E p \in Seq(QuietEffect), e \in SaveEffect :
        \E z : Level(z, e.k, Renewed(a, e.enters)) /\ q = p \o (<<e>> \o z)
SpentTodo(q, k, a) == Level(q, k, a) \/ Leveling(q, a)

LEMMA RankForward ==
    ASSUME Replayable
    PROVE  Rank \in [Steps -> Nat] /\ Forward(Rank)
BY DEF Replayable, Rank

LEMMA AccountTyped ==
    ASSUME NEW a \in Account
    PROVE  /\ a.made \in [Steps -> Nat] /\ a.flying \subseteq Steps
           /\ \A S : Renewed(a, S) \in Account
           /\ Renewed(a, {}) = a
           /\ \A s \in Steps : Asked(a, s) \in Account
<1>1. a.made \in [Steps -> Nat] /\ a.flying \in SUBSET Steps
  BY DEF Account
<1>2. \A S : Reset(a.made, S) \in [Steps -> Nat]
  BY <1>1 DEF Reset
<1>3. Reset(a.made, {}) = a.made
  BY <1>1 DEF Reset
<1>4. a = [made |-> a.made, flying |-> a.flying]
  BY DEF Account
<1>5. \A s \in Steps : More(a.made, s) \in [Steps -> Nat]
  BY <1>1 DEF More
<1>6. \A t \in [Steps -> Nat], F \in SUBSET Steps : [made |-> t, flying |-> F] \in Account
  BY DEF Account
<1>7. \A s \in Steps : a.flying \cup {s} \in SUBSET Steps
  BY <1>1
<1>8. \A S : Renewed(a, S) \in Account
  BY <1>1, <1>2, <1>6 DEF Renewed
<1>9. \A s \in Steps : Asked(a, s) \in Account
  BY <1>5, <1>6, <1>7 DEF Asked
<1> QED BY <1>1, <1>3, <1>4, <1>8, <1>9 DEF Renewed

\* What Spent reads of a kernel state.
LEMMA SpentAlike ==
    ASSUME NEW k, NEW g, NEW a, Spent(k, a),
           g.active = k.active, g.step = k.step, g.pending = k.pending,
           g.retries = k.retries, g.backoffs = k.backoffs
    PROVE  Spent(g, a)
BY DEF Spent, Outstanding, Waits, Passed

LEMMA CleanKinds ==
    ASSUME NEW a
    PROVE  /\ Seq(CleanEffect(a)) \subseteq Seq(AnyEffect)
           /\ Seq(DemandEffect(a)) \subseteq Seq(QuietEffect)
           /\ Seq(DemandEffect(a)) \subseteq Seq(AnyEffect)
           /\ Seq(Farewell(a)) \subseteq Seq(AnyEffect)
           /\ Seq(QuietEffect) \subseteq Seq(AnyEffect)
           /\ RequestEffect \subseteq AnyEffect /\ SaveEffect \subseteq AnyEffect
<1>1. /\ CleanEffect(a) \subseteq AnyEffect /\ DemandEffect(a) \subseteq QuietEffect
      /\ DemandEffect(a) \subseteq AnyEffect
      /\ Farewell(a) \subseteq AnyEffect
      /\ QuietEffect \subseteq AnyEffect
      /\ RequestEffect \subseteq AnyEffect /\ SaveEffect \subseteq AnyEffect
  BY DEF QuietEffect, CleanEffect, DemandEffect, Farewell, TimeoutEffect, AnyEffect,
         KernelEffect, WorkEffect, AgentEffects
<1>2. \A S, T : S \subseteq T => Seq(S) \subseteq Seq(T)
  OBVIOUS
<1> QED BY <1>1, <1>2

LEMMA DemandingTyped ==
    ASSUME NEW a, NEW q, Demanding(q, a)
    PROVE  q \in Seq(AnyEffect) /\ q # <<>>
<1>0. PICK r \in RequestEffect :
          \E p \in Seq(DemandEffect(a)), y \in Seq(CleanEffect(Asked(a, r.step))) : q = p \o (<<r>> \o y)
  BY DEF Demanding
<1>1. PICK p \in Seq(DemandEffect(a)), y \in Seq(CleanEffect(Asked(a, r.step))) :
          q = p \o (<<r>> \o y)
  BY <1>0
<1>2. p \in Seq(AnyEffect) /\ r \in AnyEffect /\ y \in Seq(AnyEffect)
  BY CleanKinds
<1>3. <<r>> \o y \in Seq(AnyEffect) /\ <<r>> \o y # <<>>
  BY <1>2, RangePrefixed
<1>4. p \o (<<r>> \o y) \in Seq(AnyEffect) /\ p \o (<<r>> \o y) # <<>>
  BY <1>2, <1>3
<1> QED BY <1>1, <1>4

LEMMA LevelTyped ==
    ASSUME NEW k, NEW a, NEW q, Level(q, k, a)
    PROVE  q \in Seq(AnyEffect) /\ Spent(k, a)
<1>1. ~k.active => Spent(k, a)
  BY DEF Spent
<1> QED BY <1>1, CleanKinds, DemandingTyped DEF Level

\* The rest of a handler once its next effect is performed.
LEMMA CleanStep ==
    ASSUME NEW a, NEW q \in Seq(CleanEffect(a)), q # <<>>
    PROVE  /\ Tail(q) \in Seq(CleanEffect(a))
           /\ Head(q).do # "request"
           /\ Head(q).do = "save" => /\ Head(q) \in SaveEffect /\ Head(q).enters = {}
                                     /\ Spent(Head(q).k, a)
           /\ Head(q).do = "post" => Head(q).m.type # "completed" \/ Head(q).m.result = "timeout"
           /\ Head(q).do = "tell" => Head(q).m.result # "error"
<1>1. Head(q) \in CleanEffect(a) /\ Tail(q) \in Seq(CleanEffect(a))
  BY RangeTaken
<1>2. \A e \in AgentEffects : e.do = "post" => e.m.type = "start"
  BY DEF AgentEffects, PersistEffect, DisableEffect, OpenEffect, StartMessage, Blank
<1>3. \A e \in AgentEffects : e.do # "tell"
  BY DEF AgentEffects, PersistEffect, DisableEffect, OpenEffect
<1>4. \A e \in EndEffect : e.m.type = "runCompleted"
  BY DEF EndEffect
<1>5. \A e \in TimeoutEffect : e.do = "post" /\ e.m.result = "timeout"
  BY DEF TimeoutEffect, CompletionEffect
<1>6. /\ \A e \in SaveEffect : e.do = "save"
      /\ \A e \in ArmEffect : e.do = "arm"
      /\ \A e \in CancelEffect : e.do = "cancel"
      /\ \A e \in AgainEffect : e.do = "again"
      /\ TimeoutEffect \subseteq CompletionEffect
      /\ \A e \in CompletionEffect \cup EndEffect \cup AgentEffects : e.do \notin {"save", "request"}
  BY KindsApart DEF AgainEffect, TimeoutEffect
<1>7. CASE Head(q) \in {e \in SaveEffect : e.enters = {} /\ Spent(e.k, a)}
  BY <1>1, <1>6, <1>7
<1>8. CASE Head(q) \in ArmEffect \cup CancelEffect \cup AgainEffect
  <2>1. Head(q).do \in {"arm", "cancel", "again"}
    BY <1>6, <1>8
  <2> QED BY <1>1, <2>1
<1>9. CASE Head(q) \in TimeoutEffect
  <2>1. Head(q).do = "post" /\ Head(q).m.result = "timeout"
    BY <1>5, <1>9
  <2> QED BY <1>1, <2>1
<1>10. CASE Head(q) \in {e \in EndEffect : e.m.result # "error"}
  <2>1. /\ Head(q).do \notin {"save", "request"} /\ Head(q).m.type = "runCompleted"
        /\ Head(q).m.result # "error"
    BY <1>4, <1>6, <1>10
  <2> QED BY <1>1, <2>1
<1>11. CASE Head(q) \in AgentEffects
  <2>1. /\ Head(q).do \notin {"save", "request", "tell"}
        /\ Head(q).do = "post" => Head(q).m.type = "start"
    BY <1>2, <1>3, <1>6, <1>11
  <2> QED BY <1>1, <2>1
<1> QED BY <1>1, <1>7, <1>8, <1>9, <1>10, <1>11 DEF CleanEffect

LEMMA FarewellStep ==
    ASSUME NEW a, NEW q \in Seq(Farewell(a)), q # <<>>
    PROVE  /\ Tail(q) \in Seq(Farewell(a))
           /\ Head(q).do \in {"cancel", "post", "tell"}
           /\ Head(q).do \in {"post", "tell"} =>
                  Head(q).m.type = "runCompleted" /\ Honest(Head(q).m, a.made)
<1>1. Head(q) \in Farewell(a) /\ Tail(q) \in Seq(Farewell(a))
  BY RangeTaken
<1>2. \A e \in CancelEffect : e.do = "cancel"
  BY KindsApart
<1>3. \A e \in EndEffect : e.do \in {"post", "tell"} /\ e.m.type = "runCompleted"
  BY DEF EndEffect
<1> QED BY <1>1, <1>2, <1>3 DEF Farewell

\* A request is made, and the state that is saved next has spent it.
Answering(q, a) == q # <<>> /\ Head(q).do = "save" /\ q \in Seq(CleanEffect(a))

LEMMA AnsweringLevels ==
    ASSUME NEW a \in Account, NEW q, Answering(q, a)
    PROVE  Leveling(q, a)
<1>1. /\ Tail(q) \in Seq(CleanEffect(a))
      /\ Head(q) \in SaveEffect /\ Head(q).enters = {} /\ Spent(Head(q).k, a)
  BY CleanStep DEF Answering
<1>2. Level(Tail(q), Head(q).k, Renewed(a, Head(q).enters))
  BY <1>1, AccountTyped DEF Level
<1>3. q = <<>> \o (<<Head(q)>> \o Tail(q)) /\ <<>> \in Seq(QuietEffect)
  <2>1. q \in Seq(AnyEffect) /\ q # <<>>
    BY CleanKinds DEF Answering
  <2>2. q = <<Head(q)>> \o Tail(q)
    BY <2>1, RangeTaken
  <2>3. <<>> \o q = q
    BY <2>1, ConcatEmptySeq
  <2> QED BY <2>2, <2>3
<1> QED BY <1>1, <1>2, <1>3 DEF Leveling

LEMMA DemandingStep ==
    ASSUME NEW a \in Account, NEW q, Demanding(q, a)
    PROVE  /\ Head(q) \in SaveEffect \cup ArmEffect \cup RequestEffect
           /\ Head(q).do \in {"save", "arm", "request"}
           /\ Head(q).do = "save" =>
                  Head(q).enters = {} /\ Spent(Head(q).k, a) /\ Demanding(Tail(q), a)
           /\ Head(q).do = "arm" => Demanding(Tail(q), a)
           /\ Head(q).do = "request" =>
                  Head(q) \in RequestEffect /\ Answering(Tail(q), Asked(a, Head(q).step))
<1>0. PICK r \in RequestEffect :
          \E p \in Seq(DemandEffect(a)), y \in Seq(CleanEffect(Asked(a, r.step))) :
              y # <<>> /\ Head(y).do = "save" /\ q = p \o (<<r>> \o y)
  BY DEF Demanding
<1>1. PICK p \in Seq(DemandEffect(a)), y \in Seq(CleanEffect(Asked(a, r.step))) :
          /\ y # <<>> /\ Head(y).do = "save"
          /\ q = p \o (<<r>> \o y)
  BY <1>0
<1> DEFINE c == <<r>> \o y
<1>2. p \in Seq(AnyEffect) /\ r \in AnyEffect /\ y \in Seq(AnyEffect)
  BY CleanKinds
<1>3. c \in Seq(AnyEffect) /\ c # <<>> /\ Head(c) = r /\ Tail(c) = y
  BY <1>2, RangePrefixed
<1>4. q = p \o c
  BY <1>1
<1> HIDE DEF c
<1>5. CASE p = <<>>
  <2>1. q = c
    BY <1>3, <1>4, <1>5, ConcatEmptySeq
  <2> QED BY <1>1, <1>3, <2>1, KindsApart DEF Answering
<1>6. CASE p # <<>>
  <2>1. Head(q) = Head(p) /\ Tail(q) = Tail(p) \o c
    BY <1>2, <1>3, <1>4, <1>6, JoinedTail
  <2>2. Head(p) \in DemandEffect(a) /\ Tail(p) \in Seq(DemandEffect(a))
    BY <1>6
  <2>3. Demanding(Tail(q), a)
    BY <1>1, <2>1, <2>2 DEF Demanding, c
  <2>4. Head(q).do \in {"save", "arm"}
    BY <2>1, <2>2, KindsApart DEF DemandEffect
  <2>5. Head(q).do = "save" => Head(q).enters = {} /\ Spent(Head(q).k, a)
    BY <2>1, <2>2, KindsApart DEF DemandEffect
  <2>6. Head(q) \in SaveEffect \cup ArmEffect
    BY <2>1, <2>2 DEF DemandEffect
  <2> QED BY <2>3, <2>4, <2>5, <2>6
<1> QED BY <1>5, <1>6

LEMMA LevelStep ==
    ASSUME NEW a \in Account, NEW k, NEW q, q # <<>>, Level(q, k, a)
    PROVE  /\ Head(q).do = "save" => /\ Head(q) \in SaveEffect /\ Head(q).enters = {}
                                     /\ Level(Tail(q), Head(q).k, a)
           /\ Head(q).do = "request" =>
                  Head(q) \in RequestEffect /\ Answering(Tail(q), Asked(a, Head(q).step))
           /\ Head(q).do \notin {"save", "request"} => Level(Tail(q), k, a)
           /\ Head(q).do = "persist" => Level(Tail(q), Idle, a)
           /\ Head(q).do = "post" => Head(q).m.type # "completed" \/ Head(q).m.result = "timeout"
           /\ Head(q).do = "tell" =>
                  /\ Honest(Head(q).m, a.made)
                  /\ Head(q).m.result = "error" => ~k.active /\ Tail(q) \in Seq(Farewell(a))
<1>1. CASE Spent(k, a) /\ q \in Seq(CleanEffect(a))
  <2>1. Spent(Idle, a)
    BY DEF Spent, Idle
  <2> QED BY <1>1, <2>1, CleanStep DEF Level, Honest
<1>2. CASE Spent(k, a) /\ Demanding(q, a)
  <2>1. Head(q).do = "save" => Head(q) \in SaveEffect
    BY <1>2, DemandingStep, KindsApart
  <2> QED BY <1>2, <2>1, DemandingStep DEF Level
<1>3. CASE ~k.active /\ q \in Seq(Farewell(a))
  <2>1. /\ Tail(q) \in Seq(Farewell(a)) /\ Head(q).do \in {"cancel", "post", "tell"}
        /\ Head(q).do \in {"post", "tell"} =>
                  Head(q).m.type = "runCompleted" /\ Honest(Head(q).m, a.made)
    BY <1>3, FarewellStep
  <2> QED BY <1>3, <2>1 DEF Level
<1> QED BY <1>1, <1>2, <1>3 DEF Level

LEMMA LevelingStep ==
    ASSUME NEW a \in Account, NEW q, Leveling(q, a)
    PROVE  /\ q # <<>>
           /\ Head(q).do \in {"save", "arm", "cancel"}
           /\ Head(q).do = "save" =>
                  /\ Head(q) \in SaveEffect
                  /\ \/ Level(Tail(q), Head(q).k, Renewed(a, Head(q).enters))
                     \/ Head(q).enters = {} /\ Leveling(Tail(q), a)
           /\ Head(q).do # "save" => Leveling(Tail(q), a)
<1>1. PICK p \in Seq(QuietEffect), e \in SaveEffect :
          \E z : Level(z, e.k, Renewed(a, e.enters)) /\ q = p \o (<<e>> \o z)
  BY DEF Leveling
<1>2. PICK z : Level(z, e.k, Renewed(a, e.enters)) /\ q = p \o (<<e>> \o z)
  BY <1>1
<1>3. z \in Seq(AnyEffect) /\ e \in AnyEffect /\ p \in Seq(AnyEffect)
  BY <1>2, LevelTyped, CleanKinds
<1> DEFINE c == <<e>> \o z
<1>4. c \in Seq(AnyEffect) /\ c # <<>> /\ Head(c) = e /\ Tail(c) = z
  BY <1>3, RangePrefixed
<1>5. q = p \o c
  BY <1>2
<1> HIDE DEF c
<1>6. CASE p = <<>>
  <2>1. q = c
    BY <1>4, <1>5, <1>6, ConcatEmptySeq
  <2> QED BY <1>2, <1>4, <2>1, KindsApart
<1>7. CASE p # <<>>
  <2>1. q # <<>> /\ Head(q) = Head(p) /\ Tail(q) = Tail(p) \o c
    BY <1>3, <1>4, <1>5, <1>7, JoinedTail
  <2>2. Head(p) \in QuietEffect /\ Tail(p) \in Seq(QuietEffect)
    BY <1>7
  <2>3. Leveling(Tail(q), a)
    BY <1>2, <2>1, <2>2 DEF Leveling, c
  <2> QED BY <2>1, <2>2, <2>3, KindsApart DEF QuietEffect
<1> QED BY <1>6, <1>7

-----------------------------------------------------------------------------
(* The pieces of a handler and the attempts they use                       *)

LEMMA CleanPieces ==
    ASSUME NEW a
    PROVE  /\ \A k \in KernelState : Spent(k, a) => Save(k) \in Seq(CleanEffect(a))
           /\ \A l \in LeaseType : Cancel(l) \in Seq(CleanEffect(a))
           /\ \A m \in Envelope : m.type = "completed" /\ m.result = "timeout" =>
                  Post(m) \in Seq(CleanEffect(a))
           /\ Again \in Seq(CleanEffect(a)) /\ <<>> \in Seq(CleanEffect(a))
<1>1. ASSUME NEW k \in KernelState, Spent(k, a) PROVE Save(k) \in Seq(CleanEffect(a))
  <2>1. [do |-> "save", k |-> k, enters |-> {}] \in CleanEffect(a)
    BY <1>1 DEF CleanEffect, SaveEffect
  <2> QED BY <2>1 DEF Save
<1>2. ASSUME NEW l \in LeaseType PROVE Cancel(l) \in Seq(CleanEffect(a))
  <2>1. [do |-> "cancel", leases |-> {l}] \in CleanEffect(a)
    BY DEF CleanEffect, CancelEffect
  <2> QED BY <2>1 DEF Cancel
<1>3. ASSUME NEW m \in Envelope, m.type = "completed", m.result = "timeout"
      PROVE  Post(m) \in Seq(CleanEffect(a))
  <2>1. [do |-> "post", m |-> m] \in TimeoutEffect
    BY <1>3 DEF TimeoutEffect, CompletionEffect
  <2>2. [do |-> "post", m |-> m] \in CleanEffect(a)
    BY <2>1 DEF CleanEffect
  <2> QED BY <2>2 DEF Post
<1>4. Again \in Seq(CleanEffect(a))
  <2>1. [do |-> "again"] \in CleanEffect(a)
    BY DEF CleanEffect, AgainEffect
  <2> QED BY <2>1 DEF Again
<1> QED BY <1>1, <1>2, <1>3, <1>4

LEMMA OutcomeClean ==
    ASSUME NEW a, NEW result \in OutcomeKinds \ {"error"}, NEW s \in Steps \cup {NoStep}
    PROVE  Outcome(result, s) \in Seq(CleanEffect(a))
<1>1. PICK m \in Envelope :
          /\ m.type = "runCompleted" /\ m.result = result
          /\ Outcome(result, s) = <<[do |-> "post", m |-> m], [do |-> "tell", m |-> m]>>
  BY OutcomeTyped
<1>2. [do |-> "post", m |-> m] \in CleanEffect(a) /\ [do |-> "tell", m |-> m] \in CleanEffect(a)
  BY <1>1 DEF CleanEffect, EndEffect
<1> QED BY <1>1, <1>2

\* A handler may begin with effects that use nothing.
LEMMA LevelingPrefixed ==
    ASSUME NEW a, NEW x \in Seq(QuietEffect), NEW q, Leveling(q, a)
    PROVE  Leveling(x \o q, a)
<1>1. PICK p \in Seq(QuietEffect), e \in SaveEffect :
          \E z : Level(z, e.k, Renewed(a, e.enters)) /\ q = p \o (<<e>> \o z)
  BY DEF Leveling
<1>2. PICK z : Level(z, e.k, Renewed(a, e.enters)) /\ q = p \o (<<e>> \o z)
  BY <1>1
<1>3. z \in Seq(AnyEffect) /\ e \in AnyEffect /\ p \in Seq(AnyEffect) /\ x \in Seq(AnyEffect)
  BY <1>2, LevelTyped, CleanKinds
<1> DEFINE c == <<e>> \o z
<1>4. c \in Seq(AnyEffect)
  BY <1>3, RangePrefixed
<1>5. q = p \o c
  BY <1>2
<1> HIDE DEF c
<1>6. x \o q = (x \o p) \o c
  <2>1. (x \o p) \o c = x \o (p \o c)
    BY <1>3, <1>4, ConcatAssociative
  <2> QED BY <1>5, <2>1
<1>7. x \o p \in Seq(QuietEffect)
  BY Joined
<1> QED BY <1>2, <1>6, <1>7 DEF Leveling, c

\* The save with which the account is settled again.
LEMMA LevelsWith ==
    ASSUME NEW a, NEW e \in SaveEffect, NEW z, Level(z, e.k, Renewed(a, e.enters))
    PROVE  Leveling(<<e>> \o z, a)
<1>1. z \in Seq(AnyEffect) /\ e \in AnyEffect
  BY LevelTyped, CleanKinds
<1>2. <<e>> \o z \in Seq(AnyEffect)
  BY <1>1, RangePrefixed
<1>3. <<e>> \o z = <<>> \o (<<e>> \o z)
  BY <1>2, ConcatEmptySeq
<1> QED BY <1>3, QuietPieces DEF Leveling

LEMMA SaveLevels ==
    ASSUME NEW a \in Account, NEW k \in KernelState, NEW c, Level(c, k, a)
    PROVE  Leveling(Save(k) \o c, a)
<1> DEFINE e == [do |-> "save", k |-> k, enters |-> {}]
<1>1. e \in SaveEffect /\ e.k = k /\ e.enters = {} /\ Save(k) = <<e>>
  BY DEF SaveEffect, Save
<1> HIDE DEF e
<1>2. Level(c, e.k, Renewed(a, e.enters))
  BY <1>1, AccountTyped
<1> QED BY <1>1, <1>2, LevelsWith

\* A run that ends: the state is cleared before anything else.
LEMMA CleanupLevels ==
    ASSUME NEW a \in Account, NEW k \in KernelState, NEW result \in OutcomeKinds,
           NEW s \in Steps \cup {NoStep},
           result = "error" =>
               s \in Steps /\ MaxAttempts[s] <= a.made[s] /\ OnError[s] = "fail"
    PROVE  Leveling(Cleanup(k) \o Outcome(result, s), a) /\ Leveling(Cleanup(k), a)
<1> DEFINE leases == ({k.timeouts[r] : r \in Steps} \cup {k.backoffs[r].lease : r \in Steps})
                     \ {NoLease}
           cancel == CancelAll(leases)
           o == Outcome(result, s)
           C == Farewell(a)
<1>1. leases \in SUBSET LeaseType
  BY DEF KernelState, KernelType
<1>2. Cleanup(k) = Save(Idle) \o cancel
  BY DEF Cleanup, CancelAll
<1> HIDE DEF leases
<1>3. cancel \in Seq(C)
  <2>1. [do |-> "cancel", leases |-> leases] \in C
    BY <1>1 DEF Farewell, CancelEffect
  <2> QED BY <2>1 DEF CancelAll
<1>4. o \in Seq(C)
  <2>1. PICK m \in Envelope :
            /\ m.type = "runCompleted" /\ m.result = result /\ m.step = s
            /\ o = <<[do |-> "post", m |-> m], [do |-> "tell", m |-> m]>>
    BY OutcomeTyped
  <2>2. Honest(m, a.made)
    BY <2>1 DEF Honest
  <2>3. [do |-> "post", m |-> m] \in C /\ [do |-> "tell", m |-> m] \in C
    BY <2>1, <2>2 DEF Farewell, EndEffect
  <2> HIDE DEF C, o
  <2> QED BY <2>1, <2>3
<1> HIDE DEF C, cancel, o
<1>5. Idle \in KernelState /\ ~Idle.active
  BY IdleTyped DEF Idle
<1>6. cancel \o o \in Seq(C)
  BY <1>3, <1>4, Joined
<1>7. Cleanup(k) \o o = Save(Idle) \o (cancel \o o)
  <2>1. Seq(C) \subseteq Seq(AnyEffect) /\ Seq(QuietEffect) \subseteq Seq(AnyEffect)
    BY CleanKinds DEF C
  <2>2. Save(Idle) \in Seq(QuietEffect)
    BY <1>5, QuietPieces
  <2>3. cancel \in Seq(AnyEffect) /\ o \in Seq(AnyEffect) /\ Save(Idle) \in Seq(AnyEffect)
    BY <1>3, <1>4, <2>1, <2>2
  <2> QED BY <1>2, <2>3, ConcatAssociative
<1>8. Level(cancel \o o, Idle, a) /\ Level(cancel, Idle, a)
  BY <1>3, <1>5, <1>6 DEF Level, C
<1> QED BY <1>2, <1>5, <1>7, <1>8, SaveLevels DEF o

\* A request with what comes before and after it.
LEMMA Demands ==
    ASSUME NEW a, NEW s \in Steps, NEW x \in Seq(DemandEffect(a)), NEW r \in RequestEffect,
           r.step = s, NEW k \in KernelState, Spent(k, Asked(a, s)),
           NEW c \in Seq(CleanEffect(Asked(a, s)))
    PROVE  /\ Demanding(x \o <<r>> \o Save(k) \o c, a)
           /\ x \o <<r>> \o Save(k) \in Seq(AnyEffect) /\ c \in Seq(AnyEffect)
<1> DEFINE C == CleanEffect(Asked(a, s))
           e == [do |-> "save", k |-> k, enters |-> {}]
           y == <<e>> \o c
<1>1. e \in C /\ e.do = "save" /\ Save(k) = <<e>>
  BY DEF CleanEffect, SaveEffect, Save
<1> HIDE DEF e
<1>2. y \in Seq(C) /\ y # <<>> /\ Head(y) = e
  BY <1>1, RangePrefixed
<1>3. /\ x \in Seq(AnyEffect) /\ <<r>> \in Seq(AnyEffect) /\ <<e>> \in Seq(AnyEffect)
      /\ c \in Seq(AnyEffect)
  <2>1. /\ Seq(DemandEffect(a)) \subseteq Seq(AnyEffect) /\ RequestEffect \subseteq AnyEffect
        /\ Seq(C) \subseteq Seq(AnyEffect)
    BY CleanKinds
  <2>2. <<e>> \in Seq(C) /\ c \in Seq(C)
    BY <1>1
  <2> HIDE DEF C
  <2>3. <<e>> \in Seq(AnyEffect) /\ c \in Seq(AnyEffect) /\ x \in Seq(AnyEffect)
    BY <2>1, <2>2
  <2>4. r \in AnyEffect
    BY <2>1
  <2> QED BY <2>3, <2>4
<1> HIDE DEF y
<1>4. x \o <<r>> \o <<e>> \o c = x \o (<<r>> \o y)
  <2>1. x \o <<r>> \in Seq(AnyEffect) /\ x \o <<r>> \o <<e>> \in Seq(AnyEffect)
    BY <1>3, Joined
  <2>2. x \o <<r>> \o <<e>> \o c = (x \o <<r>>) \o (<<e>> \o c)
    BY <1>3, <2>1, ConcatAssociative
  <2>3. <<e>> \o c \in Seq(AnyEffect)
    BY <1>3, Joined
  <2>4. (x \o <<r>>) \o (<<e>> \o c) = x \o (<<r>> \o (<<e>> \o c))
    BY <1>3, <2>3, ConcatAssociative
  <2> QED BY <2>2, <2>4 DEF y
<1>5. Demanding(x \o <<r>> \o <<e>> \o c, a)
  <2>1. y \in Seq(CleanEffect(Asked(a, r.step))) /\ Head(y).do = "save"
    BY <1>1, <1>2
  <2> QED BY <1>2, <1>4, <2>1 DEF Demanding
<1>6. x \o <<r>> \o <<e>> \in Seq(AnyEffect)
  <2>1. x \o <<r>> \in Seq(AnyEffect)
    BY <1>3, Joined
  <2> QED BY <1>3, <2>1, Joined
<1> QED BY <1>1, <1>3, <1>5, <1>6

LEMMA DemandPieces ==
    ASSUME NEW a
    PROVE  /\ \A k \in KernelState : Spent(k, a) => Save(k) \in Seq(DemandEffect(a))
           /\ \A cb \in Due, n \in Nat : Arm(cb, n) \in Seq(DemandEffect(a))
           /\ <<>> \in Seq(DemandEffect(a))
<1>1. ASSUME NEW k \in KernelState, Spent(k, a) PROVE Save(k) \in Seq(DemandEffect(a))
  <2>1. [do |-> "save", k |-> k, enters |-> {}] \in DemandEffect(a)
    BY <1>1 DEF DemandEffect, SaveEffect
  <2> QED BY <2>1 DEF Save
<1>2. ASSUME NEW cb \in Due, NEW n \in Nat PROVE Arm(cb, n) \in Seq(DemandEffect(a))
  <2>1. [do |-> "arm", cb |-> cb, attempt |-> n] \in DemandEffect(a)
    BY DEF DemandEffect, ArmEffect
  <2> QED BY <2>1 DEF Arm
<1> QED BY <1>1, <1>2

\* The dispatch that was saved and not carried through makes what is outstanding.
LEMMA ResumeDemands ==
    ASSUME NEW k \in KernelState, NEW s \in Steps, NEW a \in Account, Spent(k, a),
           k.active, k.pending, k.step = s, NEW c \in Seq(CleanEffect(Asked(a, s)))
    PROVE  Demanding(Resume(k) \o c, a) /\ Resume(k) \in Seq(AnyEffect)
<1> DEFINE arms == k.timeouts[s] = NoLease /\ k.cb # NoCallback
           waiting == IF arms THEN [k EXCEPT !.timeouts[s] = [cb |-> k.cb, gen |-> 0]] ELSE k
           timer == IF arms THEN Arm(k.cb, k.exec[s]) \o Save(waiting) ELSE <<>>
           ready == [waiting EXCEPT !.pending = FALSE]
           r == [do |-> "request", step |-> s, attempt |-> k.exec[s], scheduled |-> arms]
<1>2. k.exec[s] \in Nat /\ arms \in BOOLEAN
  BY DEF KernelState, KernelType
<1>3. k.cb \in Due \cup {NoCallback} /\ (arms => k.cb \in Due)
  BY DEF KernelState
<1>4. [cb |-> k.cb, gen |-> 0] \in LeaseType
  BY <1>3, LeasesTyped
<1>5. waiting \in KernelState
  BY <1>4, TimeoutSet
<1>6. /\ waiting.pending = k.pending /\ waiting.active = k.active /\ waiting.step = k.step
      /\ waiting.backoffs = k.backoffs /\ waiting.retries = k.retries
  BY DEF KernelState, KernelType
<1>7. Resume(k) = timer \o Request(s, k.exec[s], arms) \o Save(ready)
  BY DEF Resume
<1>8. r \in RequestEffect /\ r.step = s
  BY <1>2 DEF RequestEffect
<1>9. Request(s, k.exec[s], arms) = <<r>>
  BY DEF Request
<1> HIDE DEF arms, waiting, r
<1>10. ready \in KernelState
  BY <1>5, PendingCleared
<1>11. /\ ready.active /\ ready.pending = FALSE /\ ready.step = s
       /\ ready.backoffs = k.backoffs /\ ready.retries = k.retries
  BY <1>5, <1>6 DEF KernelState, KernelType
<1> HIDE DEF ready
<1>12. Spent(waiting, a)
  BY <1>6, SpentAlike
<1>13. Spent(ready, Asked(a, s))
  <2>1. /\ k.retries[s] \in Nat /\ a.made[s] \in Nat /\ Asked(a, s).made[s] = a.made[s] + 1
        /\ \A x \in Steps \ {s} : k.retries[x] = 0
        /\ k.retries[s] + 1 <= a.made[s] + 1
        /\ Replayable => \A f \in a.flying : Passed(f, k)
    <3>1. Outstanding(k) = 1
      BY DEF Outstanding
    <3>2. k.retries[s] \in Nat /\ a.made \in [Steps -> Nat]
      BY KernelParts, AccountTyped
    <3>3. Asked(a, s).made[s] = a.made[s] + 1
      BY <3>2 DEF Asked, More
    <3> QED BY <3>1, <3>2, <3>3 DEF Spent
  <2>2. Outstanding(ready) \in Nat
    BY DEF Outstanding
  <2>3. ready.retries[s] + 1 <= Asked(a, s).made[s] + Outstanding(ready)
    BY <1>11, <2>1, <2>2
  <2>4. ASSUME Replayable, NEW f \in Asked(a, s).flying PROVE Passed(f, ready)
    BY <1>11, <2>1, <2>4 DEF Passed, Asked
  <2> QED BY <1>11, <2>1, <2>3, <2>4 DEF Spent
<1>14. timer \in Seq(DemandEffect(a))
  <2>1. Save(waiting) \in Seq(DemandEffect(a)) /\ <<>> \in Seq(DemandEffect(a))
    BY <1>5, <1>12, DemandPieces
  <2>2. arms => Arm(k.cb, k.exec[s]) \in Seq(DemandEffect(a))
    BY <1>2, <1>3, DemandPieces
  <2> QED BY <2>1, <2>2, Joined
<1> HIDE DEF timer
<1>15. timer \o <<r>> \o Save(ready) \in Seq(AnyEffect) /\ Demanding(timer \o <<r>> \o Save(ready) \o c, a)
  BY <1>8, <1>10, <1>13, <1>14, Demands
<1> QED BY <1>7, <1>9, <1>15

LEMMA ResumeLevels ==
    ASSUME NEW k \in KernelState, NEW a \in Account, Spent(k, a), k.active, k.pending
    PROVE  Level(Resume(k) \o Again, k, a) /\ Level(Resume(k), k, a)
<1> DEFINE s == k.step
<1>1. s \in Steps
  BY DEF KernelState
<1> HIDE DEF s
<1>2. Again \in Seq(CleanEffect(Asked(a, s))) /\ <<>> \in Seq(CleanEffect(Asked(a, s)))
  BY CleanPieces
<1>3. k.step = s
  BY DEF s
<1>4. /\ Demanding(Resume(k) \o Again, a) /\ Demanding(Resume(k) \o <<>>, a)
      /\ Resume(k) \in Seq(AnyEffect)
  BY <1>1, <1>2, <1>3, ResumeDemands
<1>5. Resume(k) \o <<>> = Resume(k)
  BY <1>4, ConcatEmptySeq
<1> QED BY <1>4, <1>5 DEF Level

\* A dispatch: what is saved first announces a request the retries allow for.
LEMMA DispatchLevels ==
    ASSUME NEW s \in Steps, NEW k \in KernelState, NEW m \in Envelope, NEW visit \in BOOLEAN,
           ids \in Nat, NEW a \in Account, NEW u, u = Renewed(a, IF visit THEN {s} ELSE {}),
           k.active, \A x \in Steps \ {s} : k.retries[x] = 0,
           k.retries[s] <= u.made[s],
           Replayable => \A f \in a.flying : \/ Rank[f] < Rank[s]
                                             \/ f = s /\ k.backoffs[s] # NoBackoff,
           NEW c \in Seq(CleanEffect(Asked(u, s)))
    PROVE  Leveling(Dispatch(s, k, m, visit) \o c, a)
<1> DEFINE done == Dispatched(s, k, m)
           waiting == [done EXCEPT !.pending = TRUE]
           first == [waiting EXCEPT !.timeouts[s] = k.timeouts[s]]
           enters == IF visit THEN {s} ELSE {}
           e == [do |-> "save", k |-> first, enters |-> enters]
           timer == IF s \in Timed THEN Arm(done.cb, ids + 1) \o Save(waiting) ELSE <<>>
           r == [do |-> "request", step |-> s, attempt |-> ids + 1, scheduled |-> s \in Timed]
<1>0. ids + 1 \in Nat
  OBVIOUS
<1>1. done \in KernelState /\ waiting \in KernelState
  BY DispatchTyped
<1>2. s \in Timed => done.cb \in Due
  <2>1. m.id \in Nat
    BY DEF Envelope, EnvelopeType
  <2>2. k \in KernelType
    BY DEF KernelState
  <2>3. s \in Timed => done.cb = Callback("timeout", s, m.id)
    BY <2>2 DEF Dispatched, KernelType
  <2> QED BY <2>1, <2>3 DEF Callback, Due
<1>3. /\ done.step = s /\ done.pending = FALSE /\ done.active
      /\ done.backoffs = k.backoffs /\ done.retries = k.retries
  <2>1. k \in KernelType
    BY DEF KernelState
  <2> QED BY <2>1 DEF Dispatched, KernelType
<1>4. k.timeouts[s] \in LeaseType
  BY KernelParts
<1>5. Dispatch(s, k, m, visit) = <<e>> \o timer \o Request(s, ids + 1, s \in Timed) \o Save(done)
  BY DEF Dispatch
<1>6. r \in RequestEffect /\ r.step = s /\ Request(s, ids + 1, s \in Timed) = <<r>>
  BY <1>0 DEF RequestEffect, Request
<1> HIDE DEF done, r
<1>7. /\ waiting.step = s /\ waiting.pending /\ waiting.active
      /\ waiting.backoffs = k.backoffs /\ waiting.retries = k.retries
  BY <1>1, <1>3 DEF KernelState, KernelType
<1> HIDE DEF waiting
<1>8. /\ first \in KernelState
      /\ first.step = s /\ first.pending /\ first.active
      /\ first.backoffs = k.backoffs /\ first.retries = k.retries
  <2>1. first \in KernelState
    BY <1>1, <1>4, TimeoutSet
  <2> QED BY <1>1, <1>7, <2>1 DEF KernelState, KernelType
<1> HIDE DEF first
<1>9. u \in Account /\ u.made \in [Steps -> Nat] /\ u.flying = a.flying
  <2>1. \A S : Renewed(a, S).flying = a.flying
    BY DEF Renewed
  <2> QED BY <2>1, AccountTyped
<1>10. /\ k.retries[s] \in Nat /\ u.made[s] \in Nat
       /\ Asked(u, s).made[s] = u.made[s] + 1 /\ Asked(u, s).flying = a.flying \cup {s}
  BY <1>9, KernelParts DEF Asked, More
<1>11. ASSUME NEW g, g.step = s, g.pending, g.active, g.backoffs = k.backoffs,
              g.retries = k.retries
       PROVE  Spent(g, u)
  <2>1. Outstanding(g) = 1
    BY <1>11 DEF Outstanding
  <2>2. g.retries[s] + 1 <= u.made[s] + Outstanding(g)
    BY <1>10, <1>11, <2>1
  <2>3. Replayable => \A f \in u.flying : Passed(f, g)
    BY <1>9, <1>11 DEF Passed
  <2> QED BY <1>11, <2>2, <2>3 DEF Spent
<1>12. Spent(first, u) /\ Spent(waiting, u)
  BY <1>7, <1>8, <1>11
<1>13. Spent(done, Asked(u, s))
  <2>1. Outstanding(done) \in Nat
    BY DEF Outstanding
  <2>2. done.retries[s] + 1 <= Asked(u, s).made[s] + Outstanding(done)
    BY <1>3, <1>10, <2>1
  <2>3. ASSUME Replayable, NEW f \in Asked(u, s).flying PROVE Passed(f, done)
    BY <1>3, <1>10, <2>3 DEF Passed
  <2> QED BY <1>3, <2>2, <2>3 DEF Spent
<1>14. timer \in Seq(DemandEffect(u))
  <2>1. Save(waiting) \in Seq(DemandEffect(u)) /\ <<>> \in Seq(DemandEffect(u))
    BY <1>1, <1>12, DemandPieces
  <2>2. s \in Timed => Arm(done.cb, ids + 1) \in Seq(DemandEffect(u))
    BY <1>0, <1>2, DemandPieces
  <2> QED BY <2>1, <2>2, Joined
<1>15. e \in SaveEffect /\ e.k = first /\ e.enters = enters
  BY <1>8 DEF SaveEffect
<1>16. e \in AnyEffect
  BY <1>15, EffectKinds
<1> HIDE DEF timer, e, enters
<1>17. /\ Demanding(timer \o <<r>> \o Save(done) \o c, u)
       /\ timer \o <<r>> \o Save(done) \in Seq(AnyEffect) /\ c \in Seq(AnyEffect)
  BY <1>1, <1>6, <1>13, <1>14, Demands
<1> DEFINE z == timer \o <<r>> \o Save(done) \o c
<1>18. Level(z, first, u)
  BY <1>12, <1>17 DEF Level
<1>19. Leveling(<<e>> \o z, a)
  BY <1>15, <1>18, LevelsWith DEF enters
<1>20. Dispatch(s, k, m, visit) \o c = <<e>> \o z
  <2>1. /\ timer \in Seq(AnyEffect) /\ <<r>> \in Seq(AnyEffect) /\ Save(done) \in Seq(AnyEffect)
        /\ <<e>> \in Seq(AnyEffect)
    <3>1. RequestEffect \subseteq AnyEffect
      BY EffectKinds
    <3>2. Save(done) \in Seq(QuietEffect) /\ Seq(QuietEffect) \subseteq Seq(AnyEffect)
      BY <1>1, QuietPieces, EffectKinds
    <3>3. r \in AnyEffect
      BY <1>6, <3>1
    <3>4. <<r>> \in Seq(AnyEffect) /\ <<e>> \in Seq(AnyEffect)
      BY <1>16, <3>3
    <3>5. timer \in Seq(AnyEffect)
      BY <1>14, CleanKinds
    <3> QED BY <3>2, <3>4, <3>5
  <2>2. timer \o <<r>> \in Seq(AnyEffect) /\ <<r>> \o Save(done) \in Seq(AnyEffect)
    BY <2>1, Joined
  <2>3. <<e>> \o timer \o <<r>> = <<e>> \o (timer \o <<r>>)
    BY <2>1, ConcatAssociative
  <2>4. <<e>> \o timer \o <<r>> \o Save(done) = <<e>> \o (timer \o <<r>> \o Save(done))
    BY <2>1, <2>2, <2>3, ConcatAssociative
  <2>5. <<e>> \o timer \o <<r>> \o Save(done) \o c = <<e>> \o (timer \o <<r>> \o Save(done) \o c)
    <3> DEFINE x == timer \o <<r>> \o Save(done)
    <3>1. x \in Seq(AnyEffect) /\ <<e>> \o timer \o <<r>> \o Save(done) = <<e>> \o x
      BY <1>17, <2>4
    <3>2. (<<e>> \o x) \o c = <<e>> \o (x \o c)
      <4> HIDE DEF x
      <4> QED BY <1>17, <2>1, <3>1, ConcatAssociative
    <3> QED BY <3>1, <3>2
  <2> QED BY <1>5, <1>6, <2>5
<1> QED BY <1>19, <1>20

\* A new visit to a step: everything that is on its way was asked for before it.
Ahead(s, a) == Replayable => \A f \in a.flying : Rank[f] < Rank[s]

LEMMA VisitLevels ==
    ASSUME NEW s \in Steps, NEW k \in KernelState, NEW m \in Envelope, ids \in Nat,
           NEW a \in Account, k.active, \A x \in Steps : k.retries[x] = 0, Ahead(s, a)
    PROVE  Leveling(Dispatch(s, k, m, TRUE), a)
<1> DEFINE u == Renewed(a, IF TRUE THEN {s} ELSE {})
<1>1. u.made[s] = 0 /\ k.retries[s] = 0
  BY DEF Renewed, Reset
<1> HIDE DEF u
<1>2. k.retries[s] <= u.made[s] /\ \A x \in Steps \ {s} : k.retries[x] = 0
  BY <1>1
<1>3. <<>> \in Seq(CleanEffect(Asked(u, s)))
  BY CleanPieces
<1>4. Replayable => \A f \in a.flying : \/ Rank[f] < Rank[s]
                                        \/ f = s /\ k.backoffs[s] # NoBackoff
  BY DEF Ahead
<1>5. Leveling(Dispatch(s, k, m, TRUE) \o <<>>, a)
  BY <1>2, <1>3, <1>4, DispatchLevels DEF u
<1>6. Dispatch(s, k, m, TRUE) \o <<>> = Dispatch(s, k, m, TRUE)
  BY DispatchTyped, ConcatEmptySeq
<1> QED BY <1>5, <1>6

\* Steps the workflow goes to from a step that everything on its way is past.
LEMMA NextAhead ==
    ASSUME NEW a \in Account, NEW s \in Steps, NEW n \in Steps,
           n \in Targets[s] \/ n = OnError[s],
           Replayable => \A f \in a.flying : Rank[f] < Rank[s] \/ f = s
    PROVE  Ahead(n, a)
<1> SUFFICES ASSUME Replayable, NEW f \in a.flying PROVE Rank[f] < Rank[n]
  BY DEF Ahead
<1>1. Rank \in [Steps -> Nat] /\ Rank[s] < Rank[n]
  BY RankForward DEF Forward
<1>2. f \in Steps
  BY AccountTyped
<1>3. Rank[f] \in Nat /\ Rank[s] \in Nat /\ Rank[n] \in Nat
  BY <1>1, <1>2
<1> QED BY <1>1, <1>3

-----------------------------------------------------------------------------
(* What the handlers use of the attempts                                   *)

LEMMA StartSpends ==
    ASSUME NEW m \in Envelope, kernel \in KernelState, ids \in Nat, NEW a \in Account,
           Spent(kernel, a), ~kernel.active => a.flying = {}
    PROVE  SpentTodo(HandleStart(m), kernel, a)
<1> DEFINE k == [Idle EXCEPT !.active = TRUE]
<1>1. k \in KernelState
  BY IdleTyped DEF KernelState, KernelType
<1>2. k.active /\ \A x \in Steps : k.retries[x] = 0
  BY DEF Idle
<1> HIDE DEF k
<1>3. ~kernel.active => Leveling(Save(k) \o Dispatch(Entry, k, m, TRUE), a)
  <2>1. Entry \in Steps /\ (~kernel.active => Ahead(Entry, a))
    BY ConstantsAssumption DEF Ahead
  <2> QED BY <1>1, <1>2, <2>1, QuietPieces, VisitLevels, LevelingPrefixed
<1>4. Level(<<>>, kernel, a)
  BY CleanPieces DEF Level
<1>5. kernel.active /\ kernel.pending => Level(Resume(kernel), kernel, a)
  BY ResumeLevels
<1>6. Level(Outcome("active", NoStep), kernel, a)
  BY OutcomeClean DEF Level, OutcomeKinds
<1> QED BY <1>3, <1>4, <1>5, <1>6 DEF HandleStart, SpentTodo, k

LEMMA TimeoutSpends ==
    ASSUME NEW m \in Envelope, m.type = "timeout", kernel \in KernelState,
           NEW a \in Account, Spent(kernel, a)
    PROVE  SpentTodo(HandleTimeout(m), kernel, a)
<1> DEFINE c == [Blank EXCEPT !.type = "completed", !.step = m.step, !.result = "timeout",
                              !.attempt = m.attempt]
           k == Untimed(kernel, m.step)
<1>1. m.step \in Steps /\ m.attempt \in Nat
  BY DEF Envelope, EnvelopeType
<1>2. c \in EnvelopeType /\ c.type = "completed" /\ c.step = m.step /\ c.result = "timeout"
  BY <1>1, BlankTyped DEF EnvelopeType, Blank, OutcomeKinds
<1>3. c \in Envelope
  BY <1>1, <1>2 DEF Envelope
<1>4. k \in KernelState
  BY <1>1, TimeoutCleared
<1>5. Spent(k, a)
  <2>1. /\ k.active = kernel.active /\ k.step = kernel.step /\ k.pending = kernel.pending
        /\ k.backoffs = kernel.backoffs /\ k.retries = kernel.retries
    BY DEF Untimed, KernelState, KernelType
  <2> HIDE DEF k
  <2> QED BY <2>1, SpentAlike
<1> HIDE DEF c, k
<1>6. Post(c) \in Seq(CleanEffect(a)) /\ Save(k) \in Seq(CleanEffect(a))
  BY <1>2, <1>3, <1>4, <1>5, CleanPieces
<1>7. Post(c) \o Save(k) \in Seq(CleanEffect(a))
  BY <1>6, Joined
<1>8. Level(Post(c) \o Save(k), kernel, a) /\ Level(<<>>, kernel, a)
  BY <1>7, CleanPieces DEF Level
<1>9. ~Stale(m) /\ Resumes(m) => Level(Resume(kernel) \o Again, kernel, a)
  BY ResumeLevels, KernelParts, <1>1 DEF Stale, Resumes
<1> QED BY <1>8, <1>9 DEF HandleTimeout, Untimed, SpentTodo, c, k

LEMMA ProceedLevels ==
    ASSUME NEW k \in KernelState, NEW m \in Envelope, m.type = "completed", ids \in Nat,
           NEW a \in Account, NEW next \in Steps \cup {Done, Invalid},
           \A x \in Steps : k.retries[x] = 0, k.active, next \in Steps => Ahead(next, a)
    PROVE  Leveling(Proceed(next, k, m), a)
<1>1. m.step \in Steps
  BY DEF Envelope
<1>2. /\ Leveling(Cleanup(k) \o Outcome("ok", m.step), a)
      /\ Leveling(Cleanup(k) \o Outcome("invalid", m.step), a)
  BY <1>1, CleanupLevels DEF OutcomeKinds
<1>3. next \in Steps => Leveling(Dispatch(next, k, m, TRUE), a)
  BY VisitLevels
<1>4. CASE next = Done
  BY <1>2, <1>4 DEF Proceed
<1>5. CASE next # Done /\ next = Invalid
  BY <1>2, <1>5 DEF Proceed
<1>6. CASE next # Done /\ next # Invalid
  BY <1>3, <1>6 DEF Proceed
<1> QED BY <1>4, <1>5, <1>6

\* The retry that is counted announces its request, or waits for its backoff.
LEMMA RetryLevels ==
    ASSUME NEW s \in Steps, NEW k \in KernelState, NEW m \in Envelope, ids \in Nat,
           NEW a \in Account, RetriesLeft(s, k), k.active, k.step = s,
           \A x \in Steps \ {s} : k.retries[x] = 0, k.retries[s] + 1 <= a.made[s],
           Replayable => \A f \in a.flying : Rank[f] < Rank[s] \/ f = s
    PROVE  Leveling(TryRetry(s, k, m), a)
<1>1. /\ k.retries[s] \in Nat /\ k.retries[s] + 1 < MaxAttempts[s] /\ k.exec[s] \in Nat
      /\ m.id \in Nat /\ k.retries[s] + 1 \in Nat /\ a.made[s] \in Nat
  BY KernelParts, AccountTyped DEF RetriesLeft, Envelope, EnvelopeType
<1>3. CASE s \in Delayed
  <2> DEFINE cb == Callback("backoff", s, m.id)
             unleased == [cb |-> cb, lease |-> NoLease, dispatching |-> FALSE]
             b == [unleased EXCEPT !.lease = [cb |-> cb, gen |-> 0]]
             waiting == [k EXCEPT !.backoffs[s] = unleased]
             leased == [k EXCEPT !.backoffs[s] = b]
             counted == [leased EXCEPT !.retries[s] = @ + 1]
  <2>1. cb \in Due /\ cb # NoCallback
    BY <1>1 DEF Callback, Due, NoCallback
  <2>2. unleased \in BackoffType
    BY <2>1, LeasesTyped
  <2>3. [cb |-> cb, gen |-> 0] \in LeaseType
    BY <2>1, LeasesTyped
  <2>4. unleased.cb = cb /\ ~unleased.dispatching
    OBVIOUS
  <2> HIDE DEF cb, unleased
  <2>5. b \in BackoffType
    BY <2>2, <2>3 DEF BackoffType
  <2>6. b # NoBackoff /\ ~b.dispatching
    <3>1. b.cb = cb /\ b.dispatching = unleased.dispatching
      BY <2>2, <2>4 DEF BackoffType
    <3> HIDE DEF b
    <3> QED BY <2>1, <2>4, <3>1 DEF NoBackoff
  <2> HIDE DEF b
  <2>7. waiting \in KernelState /\ leased \in KernelState
    BY <2>2, <2>5, BackoffSet
  <2>8. /\ leased.retries = k.retries /\ leased.pending = k.pending /\ leased.step = s
        /\ leased.active /\ leased.backoffs[s] = b
    BY DEF KernelState, KernelType
  <2> HIDE DEF leased
  <2>9. counted \in KernelState
    BY <1>1, <2>7, <2>8, RetriesSet
  <2>10. /\ counted.retries[s] = k.retries[s] + 1 /\ counted.pending = k.pending
         /\ \A x \in Steps \ {s} : counted.retries[x] = k.retries[x]
         /\ counted.active /\ counted.step = s /\ counted.backoffs = leased.backoffs
    BY <2>7, <2>8 DEF KernelState, KernelType
  <2> HIDE DEF waiting, counted
  <2>11. Spent(counted, a)
    <3>1. Outstanding(counted) = 1
      BY <2>6, <2>8, <2>10 DEF Outstanding, Waits
    <3>2. counted.retries[s] + 1 <= a.made[s] + Outstanding(counted)
      BY <1>1, <2>10, <3>1
    <3>3. Replayable => \A f \in a.flying : Passed(f, counted)
      BY <2>6, <2>8, <2>10 DEF Passed
    <3> QED BY <2>10, <3>2, <3>3 DEF Spent
  <2>12. Save(waiting) \o Arm(cb, k.exec[s]) \o Save(leased) \in Seq(QuietEffect)
    <3>1. /\ Save(waiting) \in Seq(QuietEffect) /\ Save(leased) \in Seq(QuietEffect)
          /\ Arm(cb, k.exec[s]) \in Seq(QuietEffect)
      BY <1>1, <2>1, <2>7, QuietPieces
    <3>2. Save(waiting) \o Arm(cb, k.exec[s]) \in Seq(QuietEffect)
      BY <3>1, Joined
    <3> QED BY <3>1, <3>2, Joined
  <2>13. Leveling(Save(counted), a)
    <3>1. Level(<<>>, counted, a)
      BY <2>11, CleanPieces DEF Level
    <3>2. Leveling(Save(counted) \o <<>>, a)
      BY <2>9, <3>1, SaveLevels
    <3>3. Save(counted) \o <<>> = Save(counted)
      BY <2>9, QuietPieces, ConcatEmptySeq
    <3> QED BY <3>2, <3>3
  <2>14. Leveling(Save(waiting) \o Arm(cb, k.exec[s]) \o Save(leased) \o Save(counted), a)
    BY <2>12, <2>13, LevelingPrefixed
  <2> QED BY <1>3, <2>14 DEF TryRetry, StartRetryBackoff, waiting, leased, counted, cb, b, unleased
<1>4. CASE s \notin Delayed
  <2> DEFINE counted == [k EXCEPT !.retries[s] = @ + 1]
             u == Renewed(a, IF FALSE THEN {s} ELSE {})
  <2>1. counted \in KernelState
    BY <1>1, RetriesSet
  <2>2. /\ counted.retries[s] = k.retries[s] + 1 /\ counted.active
        /\ \A x \in Steps \ {s} : counted.retries[x] = 0
    BY DEF KernelState, KernelType
  <2> HIDE DEF counted
  <2>3. u = a
    BY AccountTyped
  <2> HIDE DEF u
  <2>4. counted.retries[s] <= u.made[s]
    BY <1>1, <2>2, <2>3
  <2>5. ~Replayable
    <3>1. MaxAttempts[s] \in Nat /\ 1 < MaxAttempts[s]
      BY <1>1, KernelParts
    <3> QED BY <1>4, <3>1 DEF Replayable, Backed
  <2>6. <<>> \in Seq(CleanEffect(Asked(u, s)))
    BY CleanPieces
  <2>7. Leveling(Dispatch(s, counted, m, FALSE) \o <<>>, a)
    BY <2>1, <2>2, <2>4, <2>5, <2>6, DispatchLevels DEF u
  <2>8. Dispatch(s, counted, m, FALSE) \o <<>> = Dispatch(s, counted, m, FALSE)
    BY <2>1, DispatchTyped, ConcatEmptySeq
  <2>9. Leveling(Save(counted) \o Dispatch(s, counted, m, FALSE), a)
    BY <2>1, <2>7, <2>8, QuietPieces, LevelingPrefixed
  <2> QED BY <1>4, <2>9 DEF TryRetry, counted
<1> QED BY <1>3, <1>4

\* A run fails over the step's error only here, with every attempt made.
LEMMA OnErrorLevels ==
    ASSUME NEW s \in Steps, NEW k \in KernelState, NEW m \in Envelope, m.type = "completed",
           ids \in Nat, NEW a \in Account, k.active,
           \A x \in Steps \ {s} : k.retries[x] = 0, MaxAttempts[s] <= a.made[s],
           Replayable => \A f \in a.flying : Rank[f] < Rank[s] \/ f = s
    PROVE  Leveling(TryOnError(s, k, m), a)
<1> DEFINE forgiven == [k EXCEPT !.retries[s] = 0]
<1>1. /\ 0 < MaxAttempts[s] /\ Default[s] \in Steps \cup {Done, Invalid}
      /\ OnError[s] \in Steps \cup {"fail", "skip"} /\ Default[s] \in Targets[s]
  BY ConstantsAssumption
<1>2. forgiven \in KernelState
  BY <1>1, RetriesSet
<1>3. forgiven.active /\ \A x \in Steps : forgiven.retries[x] = 0
  BY DEF KernelState, KernelType
<1> HIDE DEF forgiven
<1>4. OnError[s] = "fail" => Leveling(Cleanup(k) \o Outcome("error", s), a)
  BY CleanupLevels DEF OutcomeKinds
<1>5. Save(forgiven) \in Seq(QuietEffect)
  BY <1>2, QuietPieces
<1>6. Leveling(Save(forgiven) \o Proceed(Default[s], forgiven, m), a)
  <2>1. Default[s] \in Steps => Ahead(Default[s], a)
    BY <1>1, NextAhead
  <2>2. Leveling(Proceed(Default[s], forgiven, m), a)
    BY <1>1, <1>2, <1>3, <2>1, ProceedLevels
  <2> QED BY <1>5, <2>2, LevelingPrefixed
<1>7. OnError[s] \in Steps => Leveling(Save(forgiven) \o Dispatch(OnError[s], forgiven, m, TRUE), a)
  <2>1. OnError[s] \in Steps => Ahead(OnError[s], a)
    BY NextAhead
  <2> QED BY <1>2, <1>3, <1>5, <2>1, VisitLevels, LevelingPrefixed
<1>8. CASE OnError[s] = "fail"
  BY <1>4, <1>8 DEF TryOnError
<1>9. CASE OnError[s] # "fail" /\ OnError[s] = "skip"
  BY <1>6, <1>9 DEF TryOnError, forgiven
<1>10. CASE OnError[s] # "fail" /\ OnError[s] # "skip"
  BY <1>1, <1>7, <1>10 DEF TryOnError, forgiven
<1> QED BY <1>8, <1>9, <1>10

\* The envelope at work is one that is accounted for: an answer was asked for, it
\* names a branch of its step, and a run is opened before anything is asked.
Accounted(m, a) ==
    /\ m.type = "completed" /\ m.result # "timeout" => m.step \in a.flying
    /\ m.type = "completed" /\ m.result = "ok" => m.next \in Targets[m.step]

LEMMA CompletedSpends ==
    ASSUME NEW m \in Envelope, m.type = "completed", kernel \in KernelState, ids \in Nat,
           modules \in BOOLEAN, NEW a \in Account, Spent(kernel, a), Accounted(m, a),
           Replayable \/ ~kernel.pending
    PROVE  SpentTodo(HandleCompleted(m), kernel, a)
<1> DEFINE s == m.step
           k == AttemptOver(kernel, s)
           backoff == kernel.backoffs[s]
           unwaiting == [k EXCEPT !.backoffs[s] = NoBackoff]
           succeeded == [unwaiting EXCEPT !.retries[s] = 0]
           cancelTimeout == Save(k) \o Cancel(kernel.timeouts[s])
           cancelBackoff == IF backoff = NoBackoff THEN <<>>
                            ELSE Save(unwaiting) \o Cancel(backoff.lease)
<1>1. /\ s \in Steps /\ (m.result = "ok" => m.next \in Steps \cup {Done, Invalid})
      /\ m.result \in {"ok", "error", "timeout"}
  BY DEF Envelope
<1>2. /\ kernel.timeouts[s] \in LeaseType /\ backoff.lease \in LeaseType /\ 0 < MaxAttempts[s]
      /\ NoBackoff \in BackoffType /\ kernel.retries[s] \in Nat /\ MaxAttempts[s] \in Nat
      /\ kernel.retries[s] < MaxAttempts[s] /\ a.made[s] \in Nat
  BY <1>1, KernelParts, LeasesTyped, AccountTyped
<1>3. k \in KernelState
  BY <1>1, AttemptCleared
<1>4. /\ k.active = kernel.active /\ k.step = kernel.step /\ k.pending = kernel.pending
      /\ k.backoffs = kernel.backoffs /\ k.retries = kernel.retries
  BY DEF AttemptOver, KernelState, KernelType
<1>5. unwaiting \in KernelState
  BY <1>1, <1>2, <1>3, BackoffSet
<1>6. unwaiting.active = kernel.active /\ unwaiting.retries = kernel.retries
  <2>1. k \in KernelType
    BY <1>3 DEF KernelState
  <2> HIDE DEF k, s
  <2> QED BY <1>4, <2>1 DEF KernelType
<1>7. succeeded \in KernelState
  BY <1>1, <1>2, <1>5, RetriesSet
<1>8. /\ succeeded.active = kernel.active
      /\ \A x \in Steps : succeeded.retries[x] = IF x = s THEN 0 ELSE kernel.retries[x]
  <2>1. unwaiting \in KernelType
    BY <1>5 DEF KernelState
  <2> HIDE DEF unwaiting, s
  <2> QED BY <1>6, <2>1 DEF KernelType
<1>9. Spent(k, a)
  <2> HIDE DEF k
  <2> QED BY <1>4, SpentAlike
<1>10. HandleCompleted(m) =
          IF Stale(m) THEN <<>>
          ELSE IF Resumes(m) THEN Resume(kernel) \o Again
          ELSE IF m.result = "ok"
          THEN cancelTimeout \o cancelBackoff \o Save(succeeded) \o Proceed(m.next, succeeded, m)
          ELSE IF backoff # NoBackoff THEN cancelTimeout
          ELSE cancelTimeout \o StepFailed(s, k, m)
  BY DEF HandleCompleted, AttemptOver
<1>11. ~Stale(m) /\ ~Resumes(m) => kernel.active /\ kernel.step = s
  BY KernelParts, <1>1 DEF Stale, Resumes
<1>12. ~Stale(m) /\ ~Resumes(m) =>
           /\ \A x \in Steps \ {s} : kernel.retries[x] = 0
           /\ kernel.retries[s] + 1 <= a.made[s] + Outstanding(kernel)
           /\ Replayable => \A f \in a.flying : Passed(f, kernel)
           /\ Replayable => \A f \in a.flying : Rank[f] < Rank[s] \/ f = s
  BY <1>1, <1>11 DEF Spent, Passed
<1>13. m.result # "timeout" => s \in a.flying
  BY DEF Accounted
<1>14. m.result = "ok" => m.next \in Targets[s]
  BY DEF Accounted
<1> HIDE DEF s, k, backoff, unwaiting, succeeded
<1>15. cancelTimeout \in Seq(QuietEffect) /\ cancelTimeout \in Seq(CleanEffect(a))
  <2>1. /\ Save(k) \in Seq(QuietEffect) /\ Cancel(kernel.timeouts[s]) \in Seq(QuietEffect)
        /\ Save(k) \in Seq(CleanEffect(a)) /\ Cancel(kernel.timeouts[s]) \in Seq(CleanEffect(a))
    BY <1>2, <1>3, <1>9, QuietPieces, CleanPieces
  <2> QED BY <2>1, Joined
<1>16. cancelBackoff \in Seq(QuietEffect)
  BY <1>2, <1>5, QuietPieces, Joined
<1> HIDE DEF cancelTimeout, cancelBackoff
<1>17. ~Stale(m) /\ Resumes(m) => Level(Resume(kernel) \o Again, kernel, a)
  BY ResumeLevels, KernelParts, <1>1 DEF Stale, Resumes
<1>18. ASSUME ~Stale(m), ~Resumes(m), m.result = "ok"
       PROVE  Leveling(cancelTimeout \o cancelBackoff \o Save(succeeded)
                       \o Proceed(m.next, succeeded, m), a)
  <2>1. cancelTimeout \o cancelBackoff \o Save(succeeded) \in Seq(QuietEffect)
    <3>1. cancelTimeout \o cancelBackoff \in Seq(QuietEffect)
      BY <1>15, <1>16, Joined
    <3>2. Save(succeeded) \in Seq(QuietEffect)
      BY <1>7, QuietPieces
    <3> QED BY <3>1, <3>2, Joined
  <2>2. succeeded.active /\ \A x \in Steps : succeeded.retries[x] = 0
    BY <1>8, <1>11, <1>12, <1>18
  <2>3. m.next \in Steps => Ahead(m.next, a)
    BY <1>1, <1>12, <1>14, <1>18, NextAhead
  <2>4. Leveling(Proceed(m.next, succeeded, m), a)
    BY <1>1, <1>7, <1>18, <2>2, <2>3, ProceedLevels
  <2> QED BY <2>1, <2>4, LevelingPrefixed
<1>19. ASSUME ~Stale(m), ~Resumes(m), m.result # "ok", backoff = NoBackoff
       PROVE  Leveling(cancelTimeout \o StepFailed(s, k, m), a)
  <2>1. k.active /\ k.step = s /\ \A x \in Steps \ {s} : k.retries[x] = 0
    BY <1>4, <1>11, <1>12, <1>19
  <2>2. Leveling(Cleanup(k) \o Outcome("timeout", s), a)
    BY <1>1, <1>3, CleanupLevels DEF OutcomeKinds
  <2>3. ASSUME m.result = "error" PROVE k.retries[s] + 1 <= a.made[s]
    <3>1. ~kernel.pending
      <4>1. Replayable => Passed(s, kernel)
        BY <1>12, <1>13, <1>19, <2>3
      <4>2. Replayable => Rank[s] \in Nat
        BY <1>1, RankForward
      <4> QED BY <1>11, <1>19, <4>1, <4>2 DEF Passed, backoff
    <3>2. Outstanding(kernel) = 0
      BY <1>11, <1>19, <3>1 DEF Outstanding, Waits, backoff
    <3> QED BY <1>2, <1>4, <1>12, <1>19, <3>2
  <2>4. m.result = "error" /\ RetriesLeft(s, k) => Leveling(TryRetry(s, k, m), a)
    BY <1>1, <1>3, <1>12, <1>19, <2>1, <2>3, RetryLevels
  <2>5. m.result = "error" /\ ~RetriesLeft(s, k) => Leveling(TryOnError(s, k, m), a)
    <3>1. m.result = "error" /\ ~RetriesLeft(s, k) => MaxAttempts[s] <= a.made[s]
      BY <1>2, <1>4, <2>3 DEF RetriesLeft
    <3> QED BY <1>1, <1>3, <1>12, <1>19, <2>1, <3>1, OnErrorLevels
  <2>6. Leveling(StepFailed(s, k, m), a)
    BY <1>1, <1>19, <2>2, <2>4, <2>5 DEF StepFailed
  <2> QED BY <1>15, <2>6, LevelingPrefixed
<1>20. Level(<<>>, kernel, a) /\ Level(cancelTimeout, kernel, a)
  BY <1>15, CleanPieces DEF Level
<1> QED BY <1>10, <1>17, <1>18, <1>19, <1>20 DEF SpentTodo

\* The backoff that has fired announces the request of its redispatch.
LEMMA RedispatchLevels ==
    ASSUME NEW m \in Envelope, NEW s \in Steps, kernel \in KernelState, ids \in Nat,
           NEW a \in Account, Spent(kernel, a), kernel.active, kernel.step = s,
           Waits(kernel, s)
    PROVE  Leveling(Redispatch(s, m), a)
<1> DEFINE cb == IF s \in Timed THEN Callback("timeout", s, m.id) ELSE NoCallback
           k == Redispatching(kernel, s, cb)
           over == Dispatched(s, k, m)
           done == [over EXCEPT !.backoffs[s] = NoBackoff]
           u == Renewed(a, IF FALSE THEN {s} ELSE {})
<1>1. m.id \in Nat /\ NoBackoff \in BackoffType
  BY LeasesTyped DEF Envelope, EnvelopeType
<1>2. cb \in Due \cup {NoCallback}
  BY <1>1 DEF Callback, Due
<1> HIDE DEF cb
<1>3. k \in KernelState
  BY <1>2, DispatchingSet
<1>4. k.active /\ k.retries = kernel.retries /\ k.backoffs[s] # NoBackoff
  <2>1. kernel.backoffs[s] \in BackoffType
    BY KernelParts
  <2>2. k.active /\ k.retries = kernel.retries /\ k.backoffs[s].dispatching = TRUE
    BY <2>1 DEF Redispatching, KernelState, KernelType, BackoffType
  <2> HIDE DEF k
  <2> QED BY <2>2 DEF NoBackoff
<1>5. /\ \A x \in Steps \ {s} : kernel.retries[x] = 0
      /\ kernel.retries[s] <= a.made[s] /\ a.made[s] \in Nat /\ kernel.retries[s] \in Nat
      /\ Replayable => \A f \in a.flying : Rank[f] < Rank[s] \/ f = s
  <2>1. Outstanding(kernel) = 1
    BY DEF Outstanding
  <2>2. a.made[s] \in Nat /\ kernel.retries[s] \in Nat
    BY KernelParts, AccountTyped
  <2> QED BY <2>1, <2>2 DEF Spent, Passed
<1> HIDE DEF k
<1>6. over \in KernelState
  BY <1>3, DispatchTyped
<1>7. /\ over.active /\ over.pending = FALSE /\ over.step = s /\ over.retries = k.retries
  BY <1>3, <1>4 DEF Dispatched, KernelState, KernelType
<1> HIDE DEF over
<1>8. done \in KernelState
  BY <1>1, <1>6, BackoffSet
<1>9. done.active /\ done.pending = FALSE /\ done.step = s /\ done.retries = k.retries
  BY <1>6, <1>7 DEF KernelState, KernelType
<1> HIDE DEF done
<1>10. u = a
  BY AccountTyped
<1> HIDE DEF u
<1>11. Spent(done, Asked(u, s))
  <2>1. Asked(u, s).made[s] = a.made[s] + 1 /\ Asked(u, s).flying = a.flying \cup {s}
    BY <1>10, AccountTyped DEF Asked, More
  <2>2. Outstanding(done) \in Nat
    BY DEF Outstanding
  <2>3. done.retries[s] + 1 <= Asked(u, s).made[s] + Outstanding(done)
    BY <1>4, <1>5, <1>9, <2>1, <2>2
  <2>4. ASSUME Replayable, NEW f \in Asked(u, s).flying PROVE Passed(f, done)
    BY <1>5, <1>9, <2>1, <2>4 DEF Passed
  <2> QED BY <1>4, <1>5, <1>9, <2>3, <2>4 DEF Spent
<1>12. Save(done) \in Seq(CleanEffect(Asked(u, s)))
  BY <1>8, <1>11, CleanPieces
<1>13. k.retries[s] <= u.made[s] /\ \A x \in Steps \ {s} : k.retries[x] = 0
  BY <1>4, <1>5, <1>10
<1>14. Leveling(Dispatch(s, k, m, FALSE) \o Save(done), a)
  BY <1>3, <1>4, <1>5, <1>12, <1>13, DispatchLevels DEF u
<1>15. Leveling(Save(k) \o (Dispatch(s, k, m, FALSE) \o Save(done)), a)
  BY <1>3, <1>14, QuietPieces, LevelingPrefixed
<1>16. Save(k) \o Dispatch(s, k, m, FALSE) \o Save(done)
           = Save(k) \o (Dispatch(s, k, m, FALSE) \o Save(done))
  <2>1. /\ Save(k) \in Seq(WorkEffect) /\ Save(done) \in Seq(WorkEffect)
        /\ Dispatch(s, k, m, FALSE) \in Seq(WorkEffect)
    BY <1>3, <1>8, SaveTyped, DispatchTyped
  <2>2. \A x, y, z \in Seq(WorkEffect) : x \o y \o z = x \o (y \o z)
    BY ConcatAssociative
  <2> QED BY <2>1, <2>2, Zenon
<1>17. Redispatch(s, m) = Save(k) \o Dispatch(s, k, m, FALSE) \o Save(done)
  BY DEF Redispatch, Redispatching, k, cb, done, over
<1> QED BY <1>15, <1>16, <1>17

LEMMA BackoffSpends ==
    ASSUME NEW m \in Envelope, m.type = "backoff", kernel \in KernelState, ids \in Nat,
           NEW a \in Account, Spent(kernel, a)
    PROVE  SpentTodo(HandleBackoff(m), kernel, a)
<1> DEFINE s == m.step
           b == kernel.backoffs[m.step]
           cleared == [kernel EXCEPT !.backoffs[m.step] = NoBackoff]
<1>1. s \in Steps /\ NoBackoff \in BackoffType
  BY LeasesTyped DEF Envelope
<1>2. cleared \in KernelState
  BY <1>1, BackoffSet
<1>3. /\ cleared.active = kernel.active /\ cleared.step = kernel.step
      /\ cleared.pending = kernel.pending /\ cleared.retries = kernel.retries
      /\ \A x \in Steps : cleared.backoffs[x] = IF x = s THEN NoBackoff ELSE kernel.backoffs[x]
  BY <1>1 DEF KernelState, KernelType
<1> HIDE DEF cleared
<1>4. b.dispatching /\ ~kernel.pending => Spent(cleared, a)
  <2> SUFFICES ASSUME b.dispatching, ~kernel.pending, kernel.active, kernel.step \in Steps
               PROVE  /\ \A x \in Steps \ {kernel.step} : kernel.retries[x] = 0
                      /\ kernel.retries[kernel.step] + 1 <= a.made[kernel.step] + Outstanding(cleared)
                      /\ Replayable => \A f \in a.flying : Passed(f, cleared)
    BY <1>3 DEF Spent
  <2>1. /\ \A x \in Steps \ {kernel.step} : kernel.retries[x] = 0
        /\ kernel.retries[kernel.step] + 1 <= a.made[kernel.step] + Outstanding(kernel)
        /\ Replayable => \A f \in a.flying : Passed(f, kernel)
    BY DEF Spent
  <2>2. Waits(cleared, kernel.step) <=> Waits(kernel, kernel.step)
    BY <1>3 DEF Waits
  <2>3. Outstanding(cleared) = Outstanding(kernel)
    BY <1>3, <2>2 DEF Outstanding
  <2>4. Replayable => \A f \in a.flying : Passed(f, cleared)
    BY <1>3, <2>1 DEF Passed
  <2> QED BY <2>1, <2>3, <2>4
<1>5. b.dispatching /\ ~kernel.pending => Save(cleared) \in Seq(CleanEffect(a))
  BY <1>2, <1>4, CleanPieces
<1>6. /\ Level(<<>>, kernel, a)
      /\ b.dispatching /\ ~kernel.pending => Level(Save(cleared), kernel, a)
  BY <1>5, CleanPieces DEF Level
<1>7. kernel.active /\ kernel.pending => Level(Resume(kernel) \o Again, kernel, a)
  BY ResumeLevels
<1>8. kernel.active /\ kernel.step = s /\ b # NoBackoff /\ ~b.dispatching =>
          Leveling(Redispatch(s, m), a)
  BY <1>1, RedispatchLevels DEF Waits
<1> QED BY <1>6, <1>7, <1>8 DEF HandleBackoff, Resumes, SpentTodo, cleared

LEMMA AgentSpends ==
    ASSUME NEW a, NEW q \in AgentTodos
    PROVE  q \in Seq(CleanEffect(a))
<1> DEFINE C == CleanEffect(a)
<1>1. /\ \A st \in {"running"} \cup Terminal : [do |-> "persist", status |-> st] \in C
      /\ [do |-> "disable"] \in C /\ [do |-> "post", m |-> StartMessage] \in C
  BY DEF CleanEffect, AgentEffects, PersistEffect, DisableEffect, OpenEffect
<1> SUFFICES q \in Seq(C)
  OBVIOUS
<1> HIDE DEF C
<1>2. Post(StartMessage) \in Seq(C) /\ Disable \in Seq(C)
  BY <1>1 DEF Post, Disable
<1>3. \A st \in {"running"} \cup Terminal : Persist(st) \in Seq(C)
  <2> SUFFICES ASSUME NEW st \in {"running"} \cup Terminal PROVE Persist(st) \in Seq(C)
    OBVIOUS
  <2> DEFINE e == [do |-> "persist", status |-> st]
  <2>1. e \in C /\ Persist(st) = <<e>>
    BY <1>1 DEF Persist
  <2> HIDE DEF e
  <2> QED BY <2>1
<1>4. Persist("running") \o Post(StartMessage) \in Seq(C)
  BY <1>2, <1>3, Joined
<1>5. \A st \in Terminal : Persist(st) \o Disable \in Seq(C)
  BY <1>2, <1>3, Joined
<1> QED BY <1>2, <1>4, <1>5 DEF AgentTodos

\* Whatever the envelope, its handler spends the attempts it counts.
LEMMA HandlerSpends ==
    ASSUME TypeInv, NEW m \in Envelope, m.type # "request", NEW a \in Account,
           Spent(kernel, a), Accounted(m, a), Opening(m) => a.flying = {},
           Replayable \/ ~kernel.pending
    PROVE  SpentTodo(Handler(m), kernel, a)
<1>1. m.type \in HandlerTypes
  BY DEF Envelope, EnvelopeType, HandlerTypes
<1>2. kernel \in KernelState /\ ids \in Nat /\ modules \in BOOLEAN
  BY DEF TypeInv
<1>3. CASE m.type \in {"chat", "runCompleted"}
  <2>1. Handler(m) \in AgentTodos
    BY <1>2, <1>3, AgentTyped DEF Handler
  <2> QED BY <2>1, AgentSpends DEF SpentTodo, Level
<1>4. CASE m.type = "start"
  BY <1>2, <1>4, StartSpends DEF Handler, Opening
<1>5. CASE m.type = "timeout"
  BY <1>2, <1>5, TimeoutSpends DEF Handler
<1>6. CASE m.type = "backoff"
  BY <1>2, <1>6, BackoffSpends DEF Handler
<1>7. CASE m.type = "completed"
  BY <1>2, <1>7, CompletedSpends DEF Handler
<1>8. CASE m.type = "stop"
  <2>1. Persist("stopped") \o Disable \in AgentTodos
    BY DEF AgentTodos, Terminal
  <2>2. Level(<<>>, kernel, a) /\ Level(Persist("stopped") \o Disable, kernel, a)
    BY <2>1, AgentSpends, CleanPieces DEF Level
  <2>3. NoStep \in Steps \cup {NoStep} /\ "ok" \in OutcomeKinds
    BY DEF OutcomeKinds
  <2>4. Leveling(Cleanup(kernel), a)
    BY <1>2, <2>3, CleanupLevels
  <2> QED BY <1>8, <2>2, <2>4 DEF Handler, HandleStopped, SpentTodo
<1> QED BY <1>1, <1>3, <1>4, <1>5, <1>6, <1>7, <1>8 DEF HandlerTypes

-----------------------------------------------------------------------------
(* The account of a run                                                    *)

\* A request, and the answer of an executor that is not taken for a timeout.
Answers(m) == m.type = "request" \/ (m.type = "completed" /\ m.result # "timeout")

Envelopes == Range(mailbox) \cup retrying \cup working \cup {now}
Flying == {m.step : m \in {x \in Envelopes : Answers(x)}}
Ledger == [made |-> tries, flying |-> Flying]

SpentInv == SpentTodo(todo, kernel, Ledger)

LEMMA LedgerTyped ==
    ASSUME TypeInv
    PROVE  Ledger \in Account
<1>1. Envelopes \subseteq Envelope \cup {Blank}
  <2>1. Range(mailbox) \subseteq Envelope
    BY DEF TypeInv, Range
  <2> QED BY <2>1 DEF TypeInv, Envelopes
<1>2. \A m \in Envelope : Answers(m) => m.step \in Steps
  BY DEF Envelope, Answers
<1>3. ~Answers(Blank)
  BY DEF Blank, Answers
<1>4. Flying \subseteq Steps
  BY <1>1, <1>2, <1>3 DEF Flying
<1> QED BY <1>4 DEF Ledger, Account, TypeInv

\* What is no longer on its way is no obstacle.
LEMMA FewerSpent ==
    ASSUME NEW a, NEW b, b.made = a.made, b.flying \subseteq a.flying, NEW k, Spent(k, a)
    PROVE  Spent(k, b)
BY DEF Spent

LEMMA FewerClean ==
    ASSUME NEW a, NEW b, b.made = a.made, b.flying \subseteq a.flying
    PROVE  /\ Seq(CleanEffect(a)) \subseteq Seq(CleanEffect(b))
           /\ Seq(DemandEffect(a)) \subseteq Seq(DemandEffect(b))
           /\ Seq(Farewell(a)) \subseteq Seq(Farewell(b))
<1>1. \A k : Spent(k, a) => Spent(k, b)
  BY FewerSpent
<1>2. CleanEffect(a) \subseteq CleanEffect(b)
  <2>1. {e \in SaveEffect : e.enters = {} /\ Spent(e.k, a)}
            \subseteq {e \in SaveEffect : e.enters = {} /\ Spent(e.k, b)}
    BY <1>1
  <2> QED BY <2>1 DEF CleanEffect
<1>3. DemandEffect(a) \subseteq DemandEffect(b)
  <2>1. {e \in SaveEffect : e.enters = {} /\ Spent(e.k, a)}
            \subseteq {e \in SaveEffect : e.enters = {} /\ Spent(e.k, b)}
    BY <1>1
  <2> QED BY <2>1 DEF DemandEffect
<1>4. Farewell(a) = Farewell(b)
  BY DEF Farewell
<1>5. \A S, T : S \subseteq T => Seq(S) \subseteq Seq(T)
  OBVIOUS
<1> QED BY <1>2, <1>3, <1>4, <1>5

LEMMA FewerLevel ==
    ASSUME NEW a, NEW b, b.made = a.made, b.flying \subseteq a.flying,
           NEW k, NEW q, Level(q, k, a)
    PROVE  Level(q, k, b)
<1>1. Spent(k, a) => Spent(k, b)
  BY FewerSpent
<1>2. q \in Seq(CleanEffect(a)) => q \in Seq(CleanEffect(b))
  BY FewerClean
<1>3. q \in Seq(Farewell(a)) => q \in Seq(Farewell(b))
  BY FewerClean
<1>4. ASSUME Demanding(q, a) PROVE Demanding(q, b)
  <2>1. PICK r \in RequestEffect :
            \E p \in Seq(DemandEffect(a)), y \in Seq(CleanEffect(Asked(a, r.step))) :
                y # <<>> /\ Head(y).do = "save" /\ q = p \o (<<r>> \o y)
    BY <1>4 DEF Demanding
  <2>2. PICK p \in Seq(DemandEffect(a)), y \in Seq(CleanEffect(Asked(a, r.step))) :
            y # <<>> /\ Head(y).do = "save" /\ q = p \o (<<r>> \o y)
    BY <2>1
  <2>3. p \in Seq(DemandEffect(b))
    BY FewerClean
  <2>4. y \in Seq(CleanEffect(Asked(b, r.step)))
    <3>1. /\ Asked(b, r.step).made = Asked(a, r.step).made
          /\ Asked(b, r.step).flying \subseteq Asked(a, r.step).flying
      BY DEF Asked
    <3> QED BY <3>1, FewerClean
  <2> QED BY <2>2, <2>3, <2>4 DEF Demanding
<1> QED BY <1>1, <1>2, <1>3, <1>4 DEF Level

LEMMA FewerTodo ==
    ASSUME NEW a, NEW b, b.made = a.made, b.flying \subseteq a.flying,
           NEW k, NEW q, SpentTodo(q, k, a)
    PROVE  SpentTodo(q, k, b)
<1>1. Level(q, k, a) => Level(q, k, b)
  BY FewerLevel
<1>2. ASSUME Leveling(q, a) PROVE Leveling(q, b)
  <2>1. PICK p \in Seq(QuietEffect), e \in SaveEffect :
            \E z : Level(z, e.k, Renewed(a, e.enters)) /\ q = p \o (<<e>> \o z)
    BY <1>2 DEF Leveling
  <2>2. PICK z : Level(z, e.k, Renewed(a, e.enters)) /\ q = p \o (<<e>> \o z)
    BY <2>1
  <2>3. Level(z, e.k, Renewed(b, e.enters))
    <3>1. /\ Renewed(b, e.enters).made = Renewed(a, e.enters).made
          /\ Renewed(b, e.enters).flying \subseteq Renewed(a, e.enters).flying
      BY DEF Renewed
    <3> QED BY <2>2, <3>1, FewerLevel
  <2> QED BY <2>2, <2>3 DEF Leveling
<1> QED BY <1>1, <1>2 DEF SpentTodo

LEMMA RestSpent ==
    ASSUME NEW a \in Account, NEW k, SpentTodo(<<>>, k, a)
    PROVE  Spent(k, a)
<1>1. ~Leveling(<<>>, a)
  BY LevelingStep
<1> QED BY <1>1, LevelTyped DEF SpentTodo

LEMMA SpentRests ==
    ASSUME NEW a, NEW k, Spent(k, a)
    PROVE  SpentTodo(<<>>, k, a)
BY CleanPieces DEF SpentTodo, Level

\* The generation granted to a saved lease uses no attempt.
LEMMA GrantedSpent ==
    ASSUME NEW k \in KernelState, NEW a, Spent(k, a)
    PROVE  Spent(GrantedKernel(k), a)
<1>1. k \in KernelType
  BY DEF KernelState
<1> DEFINE ts == [s \in Steps |-> Granted(k.timeouts[s])]
           b == [s \in Steps |-> [k.backoffs[s] EXCEPT !.lease = Granted(@)]]
           g == GrantedKernel(k)
<1>2. g = [k EXCEPT !.timeouts = ts, !.backoffs = b]
  BY DEF GrantedKernel
<1>3. ASSUME NEW s \in Steps
      PROVE  /\ k.backoffs[s] = NoBackoff <=> b[s] = NoBackoff
             /\ b[s].dispatching = k.backoffs[s].dispatching
  <2>1. k.backoffs[s] \in BackoffType
    BY KernelParts
  <2>2. /\ b[s].dispatching = k.backoffs[s].dispatching /\ b[s].cb = k.backoffs[s].cb
        /\ b[s].lease = Granted(k.backoffs[s].lease) /\ b[s] \in [cb : CallbackType, lease : {Granted(k.backoffs[s].lease)}, dispatching : BOOLEAN]
    BY <2>1 DEF BackoffType
  <2>3. Granted(k.backoffs[s].lease) = NoLease <=> k.backoffs[s].lease = NoLease
    <3>1. k.backoffs[s].lease \in LeaseType
      BY KernelParts
    <3>2. ASSUME NEW l \in LeaseType, l # NoLease, l.gen = 0
          PROVE  [l EXCEPT !.gen = granted] # NoLease
      BY <3>2 DEF LeaseType, NoLease
    <3> QED BY <3>1, <3>2 DEF Granted
  <2> HIDE DEF b
  <2> QED BY <2>1, <2>2, <2>3 DEF BackoffType, NoBackoff
<1> HIDE DEF ts, b
<1>4. /\ g.active = k.active /\ g.pending = k.pending /\ g.step = k.step
      /\ g.retries = k.retries /\ g.backoffs = b
  BY <1>1, <1>2 DEF KernelType
<1> HIDE DEF g
<1>5. SUFFICES ASSUME k.active, k.step \in Steps
               PROVE  /\ \A s \in Steps \ {k.step} : g.retries[s] = 0
                      /\ g.retries[k.step] + 1 <= a.made[k.step] + Outstanding(g)
                      /\ Replayable => \A f \in a.flying : Passed(f, g)
  BY <1>4 DEF Spent, g
<1>6. Outstanding(g) = Outstanding(k)
  <2>1. Waits(g, k.step) <=> Waits(k, k.step)
    BY <1>3, <1>4, <1>5 DEF Waits
  <2> QED BY <1>4, <2>1 DEF Outstanding
<1>7. ASSUME NEW f, Passed(f, k) PROVE Passed(f, g)
  BY <1>3, <1>4, <1>5, <1>7 DEF Passed
<1> QED BY <1>4, <1>5, <1>6, <1>7 DEF Spent

LEMMA GrantedLevel ==
    ASSUME NEW k \in KernelState, NEW a, NEW q, Level(q, k, a)
    PROVE  Level(q, GrantedKernel(k), a)
<1>1. Spent(k, a) => Spent(GrantedKernel(k), a)
  BY GrantedSpent
<1>2. GrantedKernel(k).active = k.active
  BY DEF GrantedKernel, KernelState, KernelType
<1> QED BY <1>1, <1>2 DEF Level

LEMMA FlyingFewer ==
    ASSUME NEW F, \A m \in Envelopes' : Answers(m) => m.step \in F
    PROVE  Flying' \subseteq F
BY DEF Flying, Answers

LEMMA FlyingKnown ==
    ASSUME NEW m \in Envelopes, Answers(m)
    PROVE  m.step \in Flying
BY DEF Flying

LEMMA FlyingKept ==
    ASSUME UNCHANGED <<mailbox, retrying, working>>, now' \in {now, Blank}
    PROVE  Flying' \subseteq Flying
<1>1. \A m \in Envelopes' : m \in Envelopes \/ m = Blank
  BY DEF Envelopes, Range
<1>2. ~Answers(Blank)
  BY DEF Answers, Blank
<1>3. \A m \in Envelopes' : Answers(m) => m.step \in Flying
  BY <1>1, <1>2, FlyingKnown
<1> QED BY <1>3, FlyingFewer

\* An envelope sent is the same but for its id.
LEMMA SentEnvelope ==
    ASSUME NEW m \in Envelope, ids \in Nat, NEW n, n = [m EXCEPT !.id = ids + 1]
    PROVE  /\ n \in Envelope /\ n.type = m.type /\ n.step = m.step /\ n.result = m.result
           /\ n.next = m.next
<1>1. /\ n \in EnvelopeType /\ n.type = m.type /\ n.step = m.step /\ n.result = m.result
      /\ n.next = m.next
  BY DEF Envelope, EnvelopeType
<1> QED BY <1>1 DEF Envelope

LEMMA FlyingSent ==
    ASSUME TypeInv, NEW m \in Envelope, Send(m), NEW F, Flying \subseteq F,
           Answers(m) => m.step \in F,
           UNCHANGED retrying, working' \subseteq working, now' \in {now, Blank}
    PROVE  Flying' \subseteq F
<1> DEFINE n == [m EXCEPT !.id = ids + 1]
<1>1. n.type = m.type /\ n.result = m.result /\ n.step = m.step /\ n \in Envelope
  BY SentEnvelope DEF TypeInv
<1>2. mailbox' = Append(mailbox, n) /\ mailbox \in Seq(Envelope)
  BY DEF Send, TypeInv
<1> HIDE DEF n
<1>3. Range(mailbox') = Range(mailbox) \cup {n}
  BY <1>1, <1>2, RangeAppended
<1>4. \A x \in Envelopes' : x \in Envelopes \/ x \in {n, Blank}
  BY <1>3 DEF Envelopes
<1>5. ~Answers(Blank) /\ (Answers(n) <=> Answers(m))
  BY <1>1 DEF Answers, Blank
<1>6. \A x \in Envelopes' : Answers(x) => x.step \in F
  BY <1>1, <1>4, <1>5, FlyingKnown
<1> QED BY <1>6, FlyingFewer

\* What a handler publishes to the run itself.
LEMMA Posted ==
    ASSUME TypeInv, todo # <<>>, Head(todo).do = "post"
    PROVE  /\ Head(todo) \in CompletionEffect \cup EndEffect \cup OpenEffect
           /\ Head(todo).m \in Envelope
           /\ Head(todo).m.type \in {"completed", "runCompleted", "start"}
<1>1. /\ Head(todo) \in KernelEffect \cup PersistEffect \cup DisableEffect \cup OpenEffect
      /\ Head(todo).m \in Envelope
  BY EffectTyped DEF Effect
<1>2. Head(todo) \in CompletionEffect \cup EndEffect \cup OpenEffect
  BY <1>1 DEF KernelEffect, WorkEffect, SaveEffect, RequestEffect, ArmEffect, CancelEffect,
              AgainEffect, PersistEffect, DisableEffect
<1> QED BY <1>1, <1>2 DEF CompletionEffect, EndEffect, OpenEffect, StartMessage, Blank

\* A handler performs its next effect.
LEMMA PerformSpends ==
    ASSUME TypeInv, SpentInv, Perform,
           Head(todo).do = "again" => Accounted(now, Ledger) /\ ~Opening(now) /\ Replayable
    PROVE  SpentInv'
<1> USE DEF runVars
<1> DEFINE e == Head(todo)
<1>1. /\ todo # <<>> /\ tries \in [Steps -> Nat] /\ kernel \in KernelState
      /\ Ledger \in Account /\ Ledger.made = tries /\ Ledger.flying = Flying
      /\ Ledger'.made = tries' /\ Ledger'.flying = Flying'
  BY PerformKind, LedgerTyped DEF TypeInv, Ledger
<1>2. SpentTodo(todo, kernel, Ledger)
  BY DEF SpentInv
<1>3. CASE e.do = "save"
  <2>1. SaveState
    BY <1>3, PerformKind
  <2>2. /\ todo' = Tail(todo) /\ kernel' = GrantedKernel(e.k)
        /\ tries' = Reset(tries, e.enters)
        /\ UNCHANGED <<mailbox, retrying, working>> /\ now' \in {now, Blank}
    BY <2>1 DEF SaveState, Step, GrantedKernel, Reset
  <2>3. e \in SaveEffect
    BY <1>1, <1>2, <1>3, LevelStep, LevelingStep DEF SpentTodo
  <2>4. e.k \in KernelState
    BY <2>3, KindsApart
  <2>5. Level(Tail(todo), e.k, Renewed(Ledger, e.enters)) \/ Leveling(Tail(todo), Renewed(Ledger, e.enters))
    <3>1. Renewed(Ledger, {}) = Ledger
      BY <1>1, AccountTyped
    <3>2. CASE Level(todo, kernel, Ledger)
      BY <1>1, <1>3, <3>1, <3>2, LevelStep
    <3>3. CASE Leveling(todo, Ledger)
      BY <1>1, <1>3, <3>1, <3>3, LevelingStep
    <3> QED BY <1>2, <3>2, <3>3 DEF SpentTodo
  <2>6. SpentTodo(todo', kernel', Renewed(Ledger, e.enters))
    BY <2>2, <2>4, <2>5, GrantedLevel DEF SpentTodo
  <2>7. /\ Ledger'.made = Renewed(Ledger, e.enters).made
        /\ Ledger'.flying \subseteq Renewed(Ledger, e.enters).flying
    BY <1>1, <2>2, FlyingKept DEF Renewed
  <2> QED BY <2>6, <2>7, FewerTodo DEF SpentInv
<1>4. CASE e.do = "request"
  <2>1. PublishRequest
    BY <1>4, PerformKind
  <2>2. e \in RequestEffect /\ Answering(Tail(todo), Asked(Ledger, e.step))
    <3>1. ~Leveling(todo, Ledger)
      BY <1>1, <1>4, LevelingStep
    <3> QED BY <1>1, <1>2, <1>4, <3>1, LevelStep DEF SpentTodo
  <2> DEFINE m == [Blank EXCEPT !.type = "request", !.step = e.step, !.attempt = e.attempt]
  <2>3. /\ todo' = Tail(todo) /\ kernel' = kernel /\ tries' = More(tries, e.step)
        /\ Send(m) /\ UNCHANGED <<retrying, working>> /\ now' \in {now, Blank}
    BY <2>1 DEF PublishRequest, Step, More
  <2>4. m \in Envelope /\ m.step = e.step
    <3>1. e.step \in Steps /\ e.attempt \in Nat
      BY <2>2 DEF RequestEffect
    <3>2. m \in EnvelopeType /\ m.type = "request" /\ m.step = e.step
      BY <3>1, BlankTyped DEF EnvelopeType, Blank
    <3> HIDE DEF m
    <3> QED BY <3>1, <3>2 DEF Envelope
  <2> HIDE DEF m
  <2>5. e.step \in Steps /\ Asked(Ledger, e.step) \in Account
    BY <1>1, <2>2, KindsApart, AccountTyped
  <2>6. SpentTodo(todo', kernel', Asked(Ledger, e.step))
    BY <2>2, <2>3, <2>5, AnsweringLevels DEF SpentTodo
  <2>7. Flying' \subseteq Flying \cup {e.step}
    BY <2>3, <2>4, FlyingSent
  <2>8. /\ Ledger'.made = Asked(Ledger, e.step).made
        /\ Ledger'.flying \subseteq Asked(Ledger, e.step).flying
    BY <1>1, <2>3, <2>7 DEF Asked
  <2> QED BY <2>6, <2>8, FewerTodo DEF SpentInv
<1>5. CASE e.do \in {"arm", "cancel"}
  <2>1. /\ todo' = Tail(todo) /\ kernel' = kernel /\ tries' = tries
        /\ UNCHANGED <<mailbox, retrying, working>> /\ now' \in {now, Blank}
    BY <1>5, PerformKind DEF ScheduleCallback, CancelCallbacks, Step
  <2>2. SpentTodo(todo', kernel', Ledger)
    BY <1>1, <1>2, <1>5, <2>1, LevelStep, LevelingStep DEF SpentTodo
  <2>3. Ledger'.made = Ledger.made /\ Ledger'.flying \subseteq Ledger.flying
    BY <1>1, <2>1, FlyingKept
  <2> QED BY <2>2, <2>3, FewerTodo DEF SpentInv
<1>6. e.do \notin {"save", "arm", "cancel"} => Level(todo, kernel, Ledger)
  BY <1>1, <1>2, LevelingStep DEF SpentTodo
<1>7. CASE e.do = "again"
  <2>1. /\ todo' = Handler(now) /\ kernel' = kernel /\ tries' = tries
        /\ UNCHANGED <<mailbox, retrying, working>> /\ now' \in {now, Blank}
    BY <1>7, PerformKind DEF Reload
  <2>2. now \in Envelope /\ now.type # "request"
    BY <1>1 DEF TypeInv
  <2>3. Spent(kernel, Ledger)
    BY <1>6, <1>7, LevelTyped
  <2>4. SpentTodo(todo', kernel', Ledger)
    BY <1>1, <1>7, <2>1, <2>2, <2>3, HandlerSpends
  <2>5. Ledger'.made = Ledger.made /\ Ledger'.flying \subseteq Ledger.flying
    BY <1>1, <2>1, FlyingKept
  <2> QED BY <2>4, <2>5, FewerTodo DEF SpentInv
<1>8. CASE e.do \in {"tell", "persist", "disable"}
  <2>1. /\ todo' = Tail(todo) /\ tries' = tries
        /\ kernel' = kernel \/ (e.do = "persist" /\ kernel' = Idle)
        /\ UNCHANGED <<mailbox, retrying, working>> /\ now' \in {now, Blank}
    BY <1>8, PerformKind DEF PersistStatus, TellParent, DisableModules, Step
  <2>2. SpentTodo(todo', kernel', Ledger)
    BY <1>1, <1>6, <1>8, <2>1, LevelStep DEF SpentTodo
  <2>3. Ledger'.made = Ledger.made /\ Ledger'.flying \subseteq Ledger.flying
    BY <1>1, <2>1, FlyingKept
  <2> QED BY <2>2, <2>3, FewerTodo DEF SpentInv
<1>9. CASE e.do = "post"
  <2>1. /\ todo' = Tail(todo) /\ kernel' = kernel /\ tries' = tries
        /\ Send(e.m) /\ UNCHANGED <<retrying, working>> /\ now' \in {now, Blank}
    BY <1>9, PerformKind DEF PublishSelf, Step
  <2>2. e.m \in Envelope
    BY <1>9, PerformFacts
  <2>3. SpentTodo(todo', kernel', Ledger) /\ (e.m.type # "completed" \/ e.m.result = "timeout")
    BY <1>1, <1>6, <1>9, <2>1, LevelStep DEF SpentTodo
  <2>4. e.m.type # "request"
    BY <1>1, <1>9, Posted
  <2>5. Flying' \subseteq Flying
    BY <2>1, <2>2, <2>3, <2>4, FlyingSent DEF Answers
  <2>6. Ledger'.made = Ledger.made /\ Ledger'.flying \subseteq Ledger.flying
    BY <1>1, <2>1, <2>5
  <2> QED BY <2>3, <2>6, FewerTodo DEF SpentInv
<1>10. e.do \in {"save", "post", "request", "tell", "arm", "cancel", "again", "persist", "disable"}
  BY DEF Perform, SaveState, PublishSelf, PublishRequest, TellParent, ScheduleCallback,
         CancelCallbacks, Reload, PersistStatus, DisableModules, Effect
<1> QED BY <1>3, <1>4, <1>5, <1>7, <1>8, <1>9, <1>10

-----------------------------------------------------------------------------
(* Which envelopes there are after a step                                  *)

\* Whatever is sent: a stop, an executor's answer, a callback that fires, and what
\* the handler at work publishes.
Sent(m) ==
    \/ m.type = "stop"
    \/ \E w \in working :
           /\ m.type = "completed" /\ m.step = w.step
           /\ m.result = "ok" => m.next \in Targets[w.step]
    \/ \E c \in armed : m.type = c.cb.kind /\ m.step = c.cb.step
    \/ /\ todo # <<>> /\ Head(todo).do = "post"
       /\ m.type = Head(todo).m.type /\ m.step = Head(todo).m.step
       /\ m.result = Head(todo).m.result
    \/ PublishRequest /\ m.type = "request" /\ m.step = Head(todo).step

\* Those that wait to be handled, now or later.
Waiting == Range(mailbox) \cup retrying

LEMMA SendArrives ==
    ASSUME TypeInv, NEW m, Send(m), NEW n, n = [m EXCEPT !.id = ids + 1], n \in Envelope
    PROVE  mailbox' = Append(mailbox, n) /\ Range(mailbox') = Range(mailbox) \cup {n}
BY RangeAppended DEF TypeInv, Send

\* An executor's answer.
LEMMA AnswerSends ==
    ASSUME TypeInv, NEW w \in working, Answer(w)
    PROVE  \E n \in Envelope :
               /\ mailbox' = Append(mailbox, n) /\ Range(mailbox') = Range(mailbox) \cup {n}
               /\ n.type = "completed" /\ n.step = w.step
               /\ n.result = "ok" => n.next \in Targets[w.step]
<1>1. PICK r \in Results : \E n \in Targets[w.step] :
          Send([Blank EXCEPT !.type = "completed", !.step = w.step, !.result = r,
                             !.next = IF r = "ok" THEN n ELSE NoStep, !.attempt = w.attempt])
  BY DEF Answer
<1>2. PICK n \in Targets[w.step] :
          Send([Blank EXCEPT !.type = "completed", !.step = w.step, !.result = r,
                             !.next = IF r = "ok" THEN n ELSE NoStep, !.attempt = w.attempt])
  BY <1>1
<1> DEFINE m == [Blank EXCEPT !.type = "completed", !.step = w.step, !.result = r,
                             !.next = IF r = "ok" THEN n ELSE NoStep, !.attempt = w.attempt]
           e == [m EXCEPT !.id = ids + 1]
<1>3. w \in Envelope /\ w.type = "request" /\ w.step \in Steps /\ w.attempt \in Nat
  BY DEF TypeInv, Envelope, EnvelopeType
<1>4. r \in {"ok", "error", "timeout"} /\ n \in Steps \cup {Done, Invalid}
  BY <1>3, ConstantsAssumption
<1>5. /\ m \in EnvelopeType /\ m.type = "completed" /\ m.step = w.step /\ m.result = r
      /\ m.next = IF r = "ok" THEN n ELSE NoStep
  BY <1>3, <1>4, BlankTyped DEF EnvelopeType, Blank, OutcomeKinds
<1> HIDE DEF m
<1>6. m \in Envelope
  BY <1>3, <1>4, <1>5 DEF Envelope
<1>7. e \in Envelope /\ e.type = m.type /\ e.step = m.step /\ e.result = m.result /\ e.next = m.next
  BY <1>6, SentEnvelope DEF TypeInv
<1>8. Send(m)
  BY <1>2 DEF m
<1> HIDE DEF e
<1>9. mailbox' = Append(mailbox, e) /\ Range(mailbox') = Range(mailbox) \cup {e}
  BY <1>7, <1>8, SendArrives DEF e
<1> QED BY <1>5, <1>7, <1>9

\* A callback that fires.
LEMMA FireSends ==
    ASSUME TypeInv, NEW c \in armed, Fire(c)
    PROVE  \E n \in Envelope :
               /\ mailbox' = Append(mailbox, n) /\ Range(mailbox') = Range(mailbox) \cup {n}
               /\ n.type = c.cb.kind /\ n.step = c.cb.step
<1> DEFINE l == [cb |-> c.cb, gen |-> c.gen]
           m == [Blank EXCEPT !.type = c.cb.kind, !.step = c.cb.step, !.attempt = c.attempt,
                              !.lease = [cb |-> c.cb, gen |-> c.gen]]
           e == [m EXCEPT !.id = ids + 1]
<1>1. c.cb \in Due /\ c.gen \in Nat /\ c.attempt \in Nat
  BY DEF TypeInv
<1>2. /\ c.cb.kind \in {"timeout", "backoff"} /\ c.cb.step \in Steps
      /\ c.cb \in CallbackType
  BY <1>1, BlankTyped DEF Due
<1>3. m \in EnvelopeType /\ m.type = c.cb.kind /\ m.step = c.cb.step
  BY <1>1, <1>2, BlankTyped DEF EnvelopeType, Blank, LeaseType
<1> HIDE DEF m
<1>4. m \in Envelope
  BY <1>2, <1>3 DEF Envelope
<1>5. e \in Envelope /\ e.type = m.type /\ e.step = m.step
  BY <1>4, SentEnvelope DEF TypeInv
<1>6. Send(m)
  BY DEF Fire, m
<1> HIDE DEF e
<1>7. mailbox' = Append(mailbox, e) /\ Range(mailbox') = Range(mailbox) \cup {e}
  BY <1>5, <1>6, SendArrives DEF e
<1> QED BY <1>3, <1>5, <1>7

LEMMA StopSends ==
    ASSUME TypeInv, RequestStop
    PROVE  \E n \in Envelope :
               /\ mailbox' = Append(mailbox, n) /\ Range(mailbox') = Range(mailbox) \cup {n}
               /\ n.type = "stop"
<1> DEFINE m == [Blank EXCEPT !.type = "stop"]
           e == [m EXCEPT !.id = ids + 1]
<1>1. m \in EnvelopeType /\ m.type = "stop"
  BY BlankTyped DEF EnvelopeType, Blank
<1>2. Send(m)
  BY DEF RequestStop
<1> HIDE DEF m
<1>3. m \in Envelope
  BY <1>1 DEF Envelope
<1>4. e \in Envelope /\ e.type = "stop"
  BY <1>1, <1>3, SentEnvelope DEF TypeInv
<1> HIDE DEF e
<1>5. mailbox' = Append(mailbox, e) /\ Range(mailbox') = Range(mailbox) \cup {e}
  BY <1>2, <1>4, SendArrives DEF e
<1> QED BY <1>4, <1>5

\* What a handler at work publishes.
LEMMA PerformSends ==
    ASSUME TypeInv, Perform
    PROVE  /\ Head(todo).do \notin {"post", "request"} => mailbox' = mailbox
           /\ Head(todo).do \in {"post", "request"} =>
                  \E n \in Envelope :
                      /\ mailbox' = Append(mailbox, n) /\ Range(mailbox') = Range(mailbox) \cup {n}
                      /\ Sent(n) /\ n.type \in {"completed", "runCompleted", "start", "request"}
                      /\ n.type = "start" => Head(todo) \in OpenEffect
           /\ UNCHANGED <<working, retrying>> /\ now' \in {now, Blank}
<1> USE DEF runVars
<1>1. todo # <<>> /\ UNCHANGED <<working, retrying>> /\ now' \in {now, Blank}
  BY PerformKind DEF Perform, SaveState, PublishSelf, PublishRequest, TellParent, ScheduleCallback,
         CancelCallbacks, Reload, PersistStatus, DisableModules, Step
<1>2. Head(todo).do \notin {"post", "request"} => mailbox' = mailbox
  BY DEF Perform, SaveState, PublishSelf, PublishRequest, TellParent, ScheduleCallback,
         CancelCallbacks, Reload, PersistStatus, DisableModules, Effect
<1>3. ASSUME Head(todo).do = "post"
      PROVE  \E n \in Envelope :
                 /\ mailbox' = Append(mailbox, n) /\ Range(mailbox') = Range(mailbox) \cup {n}
                 /\ Sent(n) /\ n.type \in {"completed", "runCompleted", "start", "request"}
                 /\ n.type = "start" => Head(todo) \in OpenEffect
  <2> DEFINE m == Head(todo).m
             n == [m EXCEPT !.id = ids + 1]
  <2>1. /\ m \in Envelope /\ m.type \in {"completed", "runCompleted", "start"}
        /\ m.type = "start" => Head(todo) \in OpenEffect
    BY <1>1, <1>3, Posted DEF CompletionEffect, EndEffect
  <2>2. Send(m)
    BY <1>3, PerformKind DEF PublishSelf
  <2>3. n \in Envelope /\ n.type = m.type /\ n.step = m.step /\ n.result = m.result
    BY <2>1, SentEnvelope DEF TypeInv
  <2>4. mailbox' = Append(mailbox, n) /\ Range(mailbox') = Range(mailbox) \cup {n}
    BY <2>2, <2>3, SendArrives
  <2>5. Sent(n)
    BY <1>1, <1>3, <2>3 DEF Sent
  <2> HIDE DEF n
  <2> QED BY <2>1, <2>3, <2>4, <2>5
<1>4. ASSUME Head(todo).do = "request"
      PROVE  \E n \in Envelope :
                 /\ mailbox' = Append(mailbox, n) /\ Range(mailbox') = Range(mailbox) \cup {n}
                 /\ Sent(n) /\ n.type = "request"
  <2> DEFINE m == [Blank EXCEPT !.type = "request", !.step = Head(todo).step,
                                !.attempt = Head(todo).attempt]
             n == [m EXCEPT !.id = ids + 1]
  <2>1. Head(todo).step \in Steps /\ Head(todo).attempt \in Nat
    <3>1. Head(todo) \in RequestEffect
      BY <1>1, <1>4, EffectTyped DEF Effect
    <3> QED BY <3>1 DEF RequestEffect
  <2>2. m \in EnvelopeType /\ m.type = "request" /\ m.step = Head(todo).step
    BY <2>1, BlankTyped DEF EnvelopeType, Blank
  <2>3. Send(m) /\ PublishRequest
    BY <1>4, PerformKind DEF PublishRequest
  <2> HIDE DEF m
  <2>4. m \in Envelope
    BY <2>1, <2>2 DEF Envelope
  <2>5. n \in Envelope /\ n.type = m.type /\ n.step = m.step
    BY <2>4, SentEnvelope DEF TypeInv
  <2>6. mailbox' = Append(mailbox, n) /\ Range(mailbox') = Range(mailbox) \cup {n}
    BY <2>3, <2>5, SendArrives
  <2>7. Sent(n)
    BY <2>2, <2>3, <2>5 DEF Sent
  <2> HIDE DEF n
  <2> QED BY <2>2, <2>5, <2>6, <2>7
<1> QED BY <1>1, <1>2, <1>3, <1>4

\* Envelopes move, and new ones are sent.
LEMMA EnvelopesStep ==
    ASSUME TypeInv, [Next]_vars, crashes' = 0
    PROVE  /\ \A m \in Envelopes' : m \in Envelopes \cup {Blank} \/ Sent(m)
           /\ \A m \in Waiting' : m \in Waiting \cup {now} \/ Sent(m)
<1> USE DEF runVars
<1>1. CASE Deliver
  <2>1. /\ mailbox # <<>> /\ mailbox' = Tail(mailbox) /\ now' \in {Blank, Head(mailbox)}
        /\ UNCHANGED <<working, retrying>>
    BY <1>1 DEF Deliver
  <2>2. Range(mailbox) = {Head(mailbox)} \cup Range(mailbox')
    BY <2>1, RangeTaken DEF TypeInv
  <2> QED BY <2>1, <2>2 DEF Envelopes, Waiting
<1>2. CASE AcceptRequest
  <2>1. /\ mailbox # <<>> /\ mailbox' = Tail(mailbox)
        /\ working' \subseteq working \cup {Head(mailbox)}
        /\ UNCHANGED <<now, retrying>>
    BY <1>2 DEF AcceptRequest
  <2>2. Range(mailbox) = {Head(mailbox)} \cup Range(mailbox')
    BY <2>1, RangeTaken DEF TypeInv
  <2> QED BY <2>1, <2>2 DEF Envelopes, Waiting
<1>3. CASE Perform
  <2>1. /\ UNCHANGED <<working, retrying>> /\ now' \in {now, Blank}
        /\ \A m \in Range(mailbox') : m \in Range(mailbox) \/ Sent(m)
    BY <1>3, PerformSends
  <2> QED BY <2>1 DEF Envelopes, Waiting
<1>4. ASSUME NEW w \in working, Answer(w)
      PROVE  /\ \A m \in Envelopes' : m \in Envelopes \cup {Blank} \/ Sent(m)
             /\ \A m \in Waiting' : m \in Waiting \cup {now} \/ Sent(m)
  <2>1. \A m \in Range(mailbox') : m \in Range(mailbox) \/ Sent(m)
    BY <1>4, AnswerSends DEF Sent
  <2>2. working' \subseteq working /\ UNCHANGED <<now, retrying>>
    BY <1>4 DEF Answer
  <2> QED BY <2>1, <2>2 DEF Envelopes, Waiting
<1>5. ASSUME NEW c \in armed, Fire(c)
      PROVE  /\ \A m \in Envelopes' : m \in Envelopes \cup {Blank} \/ Sent(m)
             /\ \A m \in Waiting' : m \in Waiting \cup {now} \/ Sent(m)
  <2>1. \A m \in Range(mailbox') : m \in Range(mailbox) \/ Sent(m)
    BY <1>5, FireSends DEF Sent
  <2>2. UNCHANGED <<working, now, retrying>>
    BY <1>5 DEF Fire
  <2> QED BY <2>1, <2>2 DEF Envelopes, Waiting
<1>6. ASSUME NEW m \in retrying, Redeliver(m)
      PROVE  Envelopes' \subseteq Envelopes /\ Waiting' \subseteq Waiting
  <2>1. /\ mailbox' = Append(mailbox, m) /\ retrying' = retrying \ {m}
        /\ UNCHANGED <<working, now>>
    BY <1>6 DEF Redeliver
  <2>2. Range(mailbox') = Range(mailbox) \cup {m}
    BY <2>1, RangeAppended DEF TypeInv
  <2> QED BY <2>1, <2>2 DEF Envelopes, Waiting
<1>7. CASE RequestStop
  <2>1. \A m \in Range(mailbox') : m \in Range(mailbox) \/ Sent(m)
    BY <1>7, StopSends DEF Sent
  <2>2. UNCHANGED <<working, now, retrying>>
    BY <1>7 DEF RequestStop
  <2> QED BY <2>1, <2>2 DEF Envelopes, Waiting
<1>8. CASE PublishFails
  <2>1. /\ UNCHANGED <<mailbox, working>> /\ retrying' = retrying \cup {now} /\ now' = Blank
    BY <1>8 DEF PublishFails
  <2>2. Range(mailbox') = Range(mailbox)
    BY <2>1 DEF Range
  <2> QED BY <2>1, <2>2 DEF Envelopes, Waiting
<1>9. CASE Crash
  BY <1>9 DEF Crash, TypeInv
<1>10. CASE UNCHANGED vars
  BY <1>10 DEF vars, Envelopes, Waiting, Range
<1> QED BY <1>1, <1>2, <1>3, <1>4, <1>5, <1>6, <1>7, <1>8, <1>9, <1>10 DEF Next

\* What an answer of success selects is one of its step's branches.
Branches(m) == m.type = "completed" /\ m.result = "ok" => m.next \in Targets[m.step]
BranchInv == \A m \in Envelopes : Branches(m)

\* A handler itself completes a step only when it timed out.
LEMMA PostsTimeouts ==
    ASSUME TypeInv, SpentInv, todo # <<>>, Head(todo).do = "post"
    PROVE  Head(todo).m.type # "completed" \/ Head(todo).m.result = "timeout"
BY LedgerTyped, LevelStep, LevelingStep DEF SpentInv, SpentTodo

\* Executors, which follow the workflow's branches, answer only for what was asked.
LEMMA AnswersBranch ==
    ASSUME TypeInv, BranchInv, SpentInv, [Next]_vars, crashes' = 0
    PROVE  BranchInv'
<1> SUFFICES ASSUME NEW m \in Envelopes' PROVE Branches(m)
  BY DEF BranchInv
<1>1. CASE m \in Envelopes \cup {Blank}
  BY <1>1 DEF BranchInv, Branches, Blank
<1>2. CASE Sent(m)
  <2>1. CASE m.type = "stop"
    BY <2>1 DEF Branches
  <2>2. CASE \E w \in working :
                 /\ m.type = "completed" /\ m.step = w.step
                 /\ m.result = "ok" => m.next \in Targets[w.step]
    <3>1. PICK w \in working : m.step = w.step /\ (m.result = "ok" => m.next \in Targets[w.step])
      BY <2>2
    <3> QED BY <3>1 DEF Branches
  <2>3. CASE \E c \in armed : m.type = c.cb.kind /\ m.step = c.cb.step
    BY <2>3 DEF TypeInv, Due, Branches
  <2>4. CASE /\ todo # <<>> /\ Head(todo).do = "post"
             /\ m.type = Head(todo).m.type /\ m.step = Head(todo).m.step
             /\ m.result = Head(todo).m.result
    BY <2>4, PostsTimeouts DEF Branches
  <2>5. CASE m.type = "request"
    BY <2>5 DEF Branches
  <2> QED BY <1>2, <2>1, <2>2, <2>3, <2>4, <2>5 DEF Sent
<1> QED BY <1>1, <1>2, EnvelopesStep

-----------------------------------------------------------------------------
(* Until the first request is made nothing is on its way                   *)

EntryTimeout(cb) == cb.kind = "timeout" /\ cb.step = Entry

\* The kernel is idle, or at its first step without having waited for a retry.
AtEntry(k) ==
    k.active =>
        /\ k.step \in {NoStep, Entry} /\ \A s \in Steps : k.backoffs[s] = NoBackoff
        /\ k.cb # NoCallback => EntryTimeout(k.cb)

\* What a handler does that asks for nothing, and what asks for the first step.
FirstEffect ==
    {e \in SaveEffect : AtEntry(e.k)} \cup {e \in ArmEffect : EntryTimeout(e.cb)}
        \cup CancelEffect \cup {e \in TimeoutEffect : e.m.step = Entry}
        \cup {e \in EndEffect : e.m.result # "error"} \cup PersistEffect \cup DisableEffect
Opener == {r \in RequestEffect : r.step = Entry} \cup OpenEffect
First(q) == q \in Seq(FirstEffect)
Openable(q) ==
    \E p \in Seq(FirstEffect), y \in Seq(FirstEffect), r \in Opener :
        (r \in OpenEffect => y = <<>>) /\ q = p \o (<<r>> \o y)

LEMMA FirstKinds ==
    /\ Seq(FirstEffect) \subseteq Seq(AnyEffect) /\ Opener \subseteq AnyEffect
    /\ \A e \in FirstEffect : e \notin Opener
<1>1. FirstEffect \subseteq AnyEffect /\ Opener \subseteq AnyEffect
  BY DEF FirstEffect, Opener, TimeoutEffect, AnyEffect, KernelEffect, WorkEffect, AgentEffects
<1>2. \A S, T : S \subseteq T => Seq(S) \subseteq Seq(T)
  OBVIOUS
<1>3. ASSUME NEW e \in FirstEffect PROVE e \notin Opener
  <2>1. e \notin RequestEffect
    <3>1. e.do # "request"
      BY KindsApart DEF FirstEffect, TimeoutEffect, AgentEffects
    <3> QED BY <3>1, KindsApart
  <2>2. e \notin OpenEffect
    BY DEF FirstEffect, TimeoutEffect, SaveEffect, ArmEffect, CancelEffect, CompletionEffect,
           EndEffect, PersistEffect, DisableEffect, OpenEffect, StartMessage, Blank
  <2> QED BY <2>1, <2>2 DEF Opener
<1> QED BY <1>1, <1>2, <1>3

LEMMA FirstForms ==
    ASSUME NEW e \in FirstEffect
    PROVE  /\ e.do \in {"save", "arm", "cancel", "post", "tell", "persist", "disable"}
           /\ e.do = "save" => e \in SaveEffect /\ AtEntry(e.k)
           /\ e.do = "arm" => EntryTimeout(e.cb)
           /\ e.do = "post" => /\ e.m.type \in {"completed", "runCompleted"}
                               /\ e.m.type = "completed" =>
                                      e.m.step = Entry /\ e.m.result = "timeout"
           /\ e.do = "tell" => e.m.result # "error"
<1>1. CASE e \in {x \in SaveEffect : AtEntry(x.k)}
  BY <1>1, KindsApart
<1>2. CASE e \in {x \in ArmEffect : EntryTimeout(x.cb)}
  <2>1. e.do = "arm" /\ EntryTimeout(e.cb)
    BY <1>2, KindsApart
  <2> QED BY <2>1
<1>3. CASE e \in CancelEffect
  <2>1. e.do = "cancel"
    BY <1>3, KindsApart
  <2> QED BY <2>1
<1>4. CASE e \in {x \in TimeoutEffect : x.m.step = Entry}
  <2>1. e.do = "post" /\ e.m.type = "completed" /\ e.m.step = Entry /\ e.m.result = "timeout"
    BY <1>4 DEF TimeoutEffect, CompletionEffect
  <2> QED BY <2>1
<1>5. CASE e \in {x \in EndEffect : x.m.result # "error"}
  <2>1. e.do \in {"post", "tell"} /\ e.m.type = "runCompleted" /\ e.m.result # "error"
    BY <1>5 DEF EndEffect
  <2> QED BY <2>1
<1>6. CASE e \in PersistEffect \cup DisableEffect
  <2>1. e.do \in {"persist", "disable"}
    BY <1>6 DEF PersistEffect, DisableEffect
  <2> QED BY <2>1
<1> QED BY <1>1, <1>2, <1>3, <1>4, <1>5, <1>6 DEF FirstEffect

LEMMA FirstStep ==
    ASSUME NEW q, First(q), q # <<>>
    PROVE  Head(q) \in FirstEffect /\ First(Tail(q))
BY RangeTaken DEF First

LEMMA OpenableStep ==
    ASSUME NEW q, Openable(q)
    PROVE  /\ q # <<>>
           /\ \/ Head(q) \in FirstEffect /\ Openable(Tail(q))
              \/ Head(q) \in Opener /\ First(Tail(q)) /\ (Head(q) \in OpenEffect => Tail(q) = <<>>)
<1>1. PICK p \in Seq(FirstEffect), y \in Seq(FirstEffect), r \in Opener :
          (r \in OpenEffect => y = <<>>) /\ q = p \o (<<r>> \o y)
  BY DEF Openable
<1> DEFINE c == <<r>> \o y
<1>2. p \in Seq(AnyEffect) /\ r \in AnyEffect /\ y \in Seq(AnyEffect)
  BY FirstKinds
<1>3. c \in Seq(AnyEffect) /\ c # <<>> /\ Head(c) = r /\ Tail(c) = y
  BY <1>2, RangePrefixed
<1>4. q = p \o c
  BY <1>1
<1> HIDE DEF c
<1>5. CASE p = <<>>
  <2>1. q = c
    BY <1>3, <1>4, <1>5, ConcatEmptySeq
  <2> QED BY <1>1, <1>3, <2>1 DEF First
<1>6. CASE p # <<>>
  <2>1. q # <<>> /\ Head(q) = Head(p) /\ Tail(q) = Tail(p) \o c
    BY <1>2, <1>3, <1>4, <1>6, JoinedTail
  <2>2. Head(p) \in FirstEffect /\ Tail(p) \in Seq(FirstEffect)
    BY <1>6, RangeTaken
  <2>3. Openable(Tail(q))
    BY <1>1, <2>1, <2>2 DEF Openable, c
  <2> QED BY <2>1, <2>2, <2>3
<1> QED BY <1>5, <1>6

LEMMA Regrouping ==
    ASSUME NEW S, NEW x \in Seq(S), NEW y \in Seq(S), NEW z \in Seq(S)
    PROVE  x \o (y \o z) = (x \o y) \o z
BY ConcatAssociative

LEMMA OpenablePrefixed ==
    ASSUME NEW x \in Seq(FirstEffect), NEW q, Openable(q)
    PROVE  Openable(x \o q)
<1>1. PICK p \in Seq(FirstEffect), y \in Seq(FirstEffect), r \in Opener :
          (r \in OpenEffect => y = <<>>) /\ q = p \o (<<r>> \o y)
  BY DEF Openable
<1> DEFINE c == <<r>> \o y
<1>2. p \in Seq(AnyEffect) /\ r \in AnyEffect /\ y \in Seq(AnyEffect) /\ x \in Seq(AnyEffect)
  BY FirstKinds
<1>3. c \in Seq(AnyEffect)
  BY <1>2, RangePrefixed
<1>4. x \o p \in Seq(FirstEffect)
  BY Joined
<1>5. x \o q = (x \o p) \o c
  <2> HIDE DEF c
  <2>1. x \o (p \o c) = (x \o p) \o c
    BY <1>2, <1>3, Regrouping
  <2> QED BY <1>1, <2>1 DEF c
<1> QED BY <1>1, <1>4, <1>5 DEF Openable

LEMMA FirstPieces ==
    /\ \A k \in KernelState : AtEntry(k) => First(Save(k))
    /\ \A l \in LeaseType : First(Cancel(l))
    /\ \A leases \in SUBSET LeaseType : First(CancelAll(leases))
    /\ \A cb \in Due, n \in Nat : EntryTimeout(cb) => First(Arm(cb, n))
    /\ \A m \in Envelope : m.type = "completed" /\ m.result = "timeout" /\ m.step = Entry =>
           First(Post(m))
    /\ \A st \in {"running"} \cup Terminal : First(Persist(st) \o Disable) /\ First(Persist(st))
    /\ First(<<>>)
<1>1. ASSUME NEW k \in KernelState, AtEntry(k) PROVE First(Save(k))
  <2>1. [do |-> "save", k |-> k, enters |-> {}] \in FirstEffect
    BY <1>1 DEF FirstEffect, SaveEffect
  <2> QED BY <2>1 DEF Save, First
<1>2. ASSUME NEW l \in LeaseType PROVE First(Cancel(l))
  <2>1. [do |-> "cancel", leases |-> {l}] \in FirstEffect
    BY DEF FirstEffect, CancelEffect
  <2> QED BY <2>1 DEF Cancel, First
<1>3. ASSUME NEW leases \in SUBSET LeaseType PROVE First(CancelAll(leases))
  <2>1. [do |-> "cancel", leases |-> leases] \in FirstEffect
    BY DEF FirstEffect, CancelEffect
  <2> QED BY <2>1 DEF CancelAll, First
<1>4. ASSUME NEW cb \in Due, NEW n \in Nat, EntryTimeout(cb) PROVE First(Arm(cb, n))
  <2>1. [do |-> "arm", cb |-> cb, attempt |-> n] \in FirstEffect
    BY <1>4 DEF FirstEffect, ArmEffect
  <2> QED BY <2>1 DEF Arm, First
<1>5. ASSUME NEW m \in Envelope, m.type = "completed", m.result = "timeout", m.step = Entry
      PROVE  First(Post(m))
  <2>1. [do |-> "post", m |-> m] \in FirstEffect
    BY <1>5 DEF FirstEffect, TimeoutEffect, CompletionEffect
  <2> QED BY <2>1 DEF Post, First
<1>6. ASSUME NEW st \in {"running"} \cup Terminal
      PROVE  First(Persist(st)) /\ First(Persist(st) \o Disable)
  <2>1. /\ [do |-> "persist", status |-> st] \in FirstEffect
        /\ [do |-> "disable"] \in FirstEffect
    BY DEF FirstEffect, PersistEffect, DisableEffect
  <2>2. Persist(st) \in Seq(FirstEffect) /\ Disable \in Seq(FirstEffect)
    BY <2>1 DEF Persist, Disable
  <2> QED BY <2>2, Joined DEF First
<1>7. First(<<>>)
  BY DEF First
<1> QED BY <1>1, <1>2, <1>3, <1>4, <1>5, <1>6, <1>7

LEMMA FirstOutcome ==
    ASSUME NEW result \in OutcomeKinds \ {"error"}, NEW s \in Steps \cup {NoStep}
    PROVE  First(Outcome(result, s))
<1>1. PICK m \in Envelope :
          /\ m.type = "runCompleted" /\ m.result = result
          /\ Outcome(result, s) = <<[do |-> "post", m |-> m], [do |-> "tell", m |-> m]>>
  BY OutcomeTyped
<1>2. [do |-> "post", m |-> m] \in FirstEffect /\ [do |-> "tell", m |-> m] \in FirstEffect
  BY <1>1 DEF FirstEffect, EndEffect
<1> QED BY <1>1, <1>2 DEF First

LEMMA FirstJoined ==
    ASSUME NEW x, First(x), NEW y, First(y)
    PROVE  First(x \o y)
BY Joined DEF First

LEMMA FirstCleanup ==
    ASSUME NEW k \in KernelState
    PROVE  First(Cleanup(k))
<1> DEFINE leases == ({k.timeouts[r] : r \in Steps} \cup {k.backoffs[r].lease : r \in Steps})
                     \ {NoLease}
<1>1. leases \in SUBSET LeaseType
  BY DEF KernelState, KernelType
<1>2. Cleanup(k) = Save(Idle) \o CancelAll(leases)
  BY DEF Cleanup, CancelAll
<1>3. AtEntry(Idle)
  BY DEF AtEntry, Idle
<1> HIDE DEF leases
<1> QED BY <1>1, <1>2, <1>3, IdleTyped, FirstPieces, FirstJoined

\* A request for the first step, after which its dispatch is no longer pending.
LEMMA Opens ==
    ASSUME NEW p, First(p), NEW r \in RequestEffect, r.step = Entry,
           NEW k \in KernelState, AtEntry(k)
    PROVE  Openable(p \o <<r>> \o Save(k))
<1>1. First(Save(k)) /\ r \in Opener
  BY FirstPieces DEF Opener
<1>2. r \notin OpenEffect
  BY KindsApart DEF OpenEffect
<1>3. p \in Seq(AnyEffect) /\ Save(k) \in Seq(AnyEffect) /\ r \in AnyEffect
  BY <1>1, FirstKinds DEF First
<1>4. <<r>> \in Seq(AnyEffect)
  BY <1>3
<1>5. p \o (<<r>> \o Save(k)) = p \o <<r>> \o Save(k)
  BY <1>3, <1>4, Regrouping
<1> QED BY <1>1, <1>2, <1>5 DEF Openable, First

LEMMA ResumeOpens ==
    ASSUME NEW k \in KernelState, k.active, k.pending, AtEntry(k)
    PROVE  Openable(Resume(k)) /\ k.step = Entry
<1> DEFINE s == k.step
           arms == k.timeouts[s] = NoLease /\ k.cb # NoCallback
           waiting == IF arms THEN [k EXCEPT !.timeouts[s] = [cb |-> k.cb, gen |-> 0]] ELSE k
           timer == IF arms THEN Arm(k.cb, k.exec[s]) \o Save(waiting) ELSE <<>>
           ready == [waiting EXCEPT !.pending = FALSE]
           r == [do |-> "request", step |-> s, attempt |-> k.exec[s], scheduled |-> arms]
<1>1. s \in Steps /\ s = Entry
  BY ConstantsAssumption DEF AtEntry, KernelState
<1>2. k.exec[s] \in Nat /\ arms \in BOOLEAN
  BY <1>1 DEF KernelState, KernelType
<1>3. arms => k.cb \in Due /\ EntryTimeout(k.cb)
  BY DEF KernelState, AtEntry
<1>4. arms => [cb |-> k.cb, gen |-> 0] \in LeaseType
  BY <1>3, LeasesTyped
<1>5. waiting \in KernelState
  BY <1>1, <1>4, TimeoutSet
<1>6. /\ waiting.active = k.active /\ waiting.step = k.step
      /\ waiting.backoffs = k.backoffs /\ waiting.cb = k.cb
  BY DEF KernelState, KernelType
<1>7. Resume(k) = timer \o Request(s, k.exec[s], arms) \o Save(ready)
  BY DEF Resume
<1>8. r \in RequestEffect /\ r.step = s
  BY <1>1, <1>2 DEF RequestEffect
<1>9. Request(s, k.exec[s], arms) = <<r>>
  BY DEF Request
<1> HIDE DEF arms, waiting, r, s
<1>10. ready \in KernelState
  BY <1>5, PendingCleared
<1>11. /\ ready.active = k.active /\ ready.step = k.step
       /\ ready.backoffs = k.backoffs /\ ready.cb = k.cb
  BY <1>5, <1>6 DEF KernelState, KernelType
<1> HIDE DEF ready
<1>12. AtEntry(waiting) /\ AtEntry(ready)
  BY <1>6, <1>11 DEF AtEntry
<1>13. First(timer)
  <2>1. First(Save(waiting)) /\ First(<<>>)
    BY <1>5, <1>12, FirstPieces
  <2>2. arms => First(Arm(k.cb, k.exec[s]))
    BY <1>2, <1>3, FirstPieces
  <2> QED BY <2>1, <2>2, FirstJoined
<1> HIDE DEF timer
<1>14. Openable(timer \o <<r>> \o Save(ready))
  BY <1>1, <1>8, <1>10, <1>12, <1>13, Opens
<1> QED BY <1>1, <1>7, <1>9, <1>14 DEF s

LEMMA DispatchOpens ==
    ASSUME NEW k \in KernelState, k.active, AtEntry(k), NEW m \in Envelope, ids \in Nat
    PROVE  Openable(Dispatch(Entry, k, m, TRUE))
<1> DEFINE s == Entry
           done == Dispatched(s, k, m)
           waiting == [done EXCEPT !.pending = TRUE]
           first == [waiting EXCEPT !.timeouts[s] = k.timeouts[s]]
           e == [do |-> "save", k |-> first, enters |-> {s}]
           timer == IF s \in Timed THEN Arm(done.cb, ids + 1) \o Save(waiting) ELSE <<>>
           r == [do |-> "request", step |-> s, attempt |-> ids + 1, scheduled |-> s \in Timed]
<1>0. ids + 1 \in Nat /\ s \in Steps
  BY ConstantsAssumption
<1>1. done \in KernelState /\ waiting \in KernelState
  BY <1>0, DispatchTyped
<1>2. /\ s \in Timed => done.cb \in Due /\ EntryTimeout(done.cb)
      /\ s \notin Timed => done.cb = NoCallback
      /\ done.step = s /\ done.active /\ done.backoffs = k.backoffs
  <2>1. m.id \in Nat
    BY DEF Envelope, EnvelopeType
  <2>2. k \in KernelType
    BY DEF KernelState
  <2>3. /\ done.cb = (IF s \in Timed THEN Callback("timeout", s, m.id) ELSE NoCallback)
        /\ done.step = s /\ done.active /\ done.backoffs = k.backoffs
    BY <2>2 DEF Dispatched, KernelType
  <2>4. Callback("timeout", s, m.id) \in Due /\ EntryTimeout(Callback("timeout", s, m.id))
    BY <1>0, <2>1 DEF Callback, Due, EntryTimeout
  <2> QED BY <2>3, <2>4
<1>4. k.timeouts[s] \in LeaseType
  BY <1>0, KernelParts
<1>5. Dispatch(s, k, m, TRUE) = <<e>> \o timer \o Request(s, ids + 1, s \in Timed) \o Save(done)
  BY DEF Dispatch
<1>6. r \in RequestEffect /\ r.step = s /\ Request(s, ids + 1, s \in Timed) = <<r>>
  BY <1>0 DEF RequestEffect, Request
<1> HIDE DEF done, r
<1>7. /\ waiting.step = s /\ waiting.active /\ waiting.backoffs = k.backoffs
      /\ waiting.cb = done.cb
  BY <1>1, <1>2 DEF KernelState, KernelType
<1> HIDE DEF waiting
<1>8. /\ first \in KernelState
      /\ first.step = s /\ first.active /\ first.backoffs = k.backoffs /\ first.cb = done.cb
  <2>1. first \in KernelState
    BY <1>0, <1>1, <1>4, TimeoutSet
  <2> QED BY <1>1, <1>7, <2>1 DEF KernelState, KernelType
<1> HIDE DEF first, s
<1>9. AtEntry(done) /\ AtEntry(waiting) /\ AtEntry(first)
  BY <1>2, <1>7, <1>8 DEF AtEntry, s
<1>10. <<e>> \in Seq(FirstEffect)
  <2>1. e \in SaveEffect /\ e.k = first
    BY <1>0, <1>8 DEF SaveEffect
  <2> HIDE DEF e
  <2>2. e \in FirstEffect
    BY <1>9, <2>1 DEF FirstEffect
  <2> QED BY <2>2
<1> HIDE DEF e
<1>11. timer \in Seq(FirstEffect)
  <2>1. First(Save(waiting)) /\ First(<<>>)
    BY <1>1, <1>9, FirstPieces
  <2>2. s \in Timed => First(Arm(done.cb, ids + 1))
    BY <1>0, <1>2, FirstPieces
  <2> QED BY <2>1, <2>2, FirstJoined DEF First
<1> HIDE DEF timer
<1>12. First(<<e>> \o timer)
  BY <1>10, <1>11, Joined DEF First
<1>13. Openable((<<e>> \o timer) \o <<r>> \o Save(done))
  BY <1>1, <1>6, <1>9, <1>12, Opens DEF s
<1> QED BY <1>5, <1>6, <1>13 DEF s

LEMMA StartOpens ==
    ASSUME NEW m \in Envelope, kernel \in KernelState, ids \in Nat, AtEntry(kernel)
    PROVE  First(HandleStart(m)) \/ Openable(HandleStart(m))
<1> DEFINE k == [Idle EXCEPT !.active = TRUE]
<1>1. k \in KernelState
  BY IdleTyped DEF KernelState, KernelType
<1>2. AtEntry(k) /\ k.active
  BY DEF AtEntry, Idle
<1> HIDE DEF k
<1>3. Openable(Save(k) \o Dispatch(Entry, k, m, TRUE))
  <2>1. Save(k) \in Seq(FirstEffect)
    BY <1>1, <1>2, FirstPieces DEF First
  <2> QED BY <1>1, <1>2, <2>1, DispatchOpens, OpenablePrefixed
<1>4. kernel.active /\ kernel.pending => Openable(Resume(kernel))
  BY ResumeOpens
<1>5. First(Outcome("active", NoStep)) /\ First(<<>>)
  BY FirstOutcome, FirstPieces DEF OutcomeKinds
<1> QED BY <1>3, <1>4, <1>5 DEF HandleStart, k

LEMMA ChatOpens ==
    ASSUME NEW m
    PROVE  Openable(HandleChatRequest(m))
<1> DEFINE r == [do |-> "post", m |-> StartMessage]
<1>1. r \in OpenEffect /\ r \in Opener
  BY DEF OpenEffect, Opener
<1>2. First(Persist("running")) /\ First(<<>>)
  BY FirstPieces
<1>3. HandleChatRequest(m) = Persist("running") \o <<r>>
  BY DEF HandleChatRequest, Post, StartMessage
<1>4. <<r>> = <<r>> \o <<>>
  <2> HIDE DEF r
  <2> QED BY <1>1, FirstKinds, ConcatEmptySeq
<1> HIDE DEF r
<1> QED BY <1>1, <1>2, <1>3, <1>4 DEF Openable, First

\* Before the first request only timeouts of the first step come, and a stop.
LEMMA FirstTimeout ==
    ASSUME NEW m \in Envelope, m.type = "timeout", m.step = Entry, kernel \in KernelState,
           AtEntry(kernel)
    PROVE  First(HandleTimeout(m))
<1> DEFINE c == [Blank EXCEPT !.type = "completed", !.step = m.step, !.result = "timeout",
                              !.attempt = m.attempt]
           k == Untimed(kernel, m.step)
<1>1. m.step \in Steps /\ m.attempt \in Nat
  BY DEF Envelope, EnvelopeType
<1>2. c \in EnvelopeType /\ c.type = "completed" /\ c.step = m.step /\ c.result = "timeout"
  BY <1>1, BlankTyped DEF EnvelopeType, Blank, OutcomeKinds
<1>3. c \in Envelope
  BY <1>1, <1>2 DEF Envelope
<1>4. k \in KernelState
  BY <1>1, TimeoutCleared
<1>5. AtEntry(k)
  <2>1. /\ k.active = kernel.active /\ k.step = kernel.step /\ k.backoffs = kernel.backoffs
        /\ k.cb = NoCallback
    BY DEF Untimed, KernelState, KernelType
  <2> HIDE DEF k
  <2> QED BY <2>1 DEF AtEntry
<1> HIDE DEF c, k
<1>6. First(Post(c) \o Save(k)) /\ First(<<>>)
  BY <1>2, <1>3, <1>4, <1>5, FirstPieces, FirstJoined
<1>7. ~Stale(m) => ~Resumes(m)
  <2>1. kernel.pending => kernel.step \in Steps
    BY DEF KernelState
  <2> QED BY <1>1, <2>1, ConstantsAssumption DEF Stale, Resumes, AtEntry
<1> QED BY <1>6, <1>7 DEF HandleTimeout, Untimed, c, k

LEMMA FirstCompleted ==
    ASSUME NEW m \in Envelope, m.type = "completed", m.result = "timeout", m.step = Entry,
           kernel \in KernelState, AtEntry(kernel)
    PROVE  First(HandleCompleted(m))
<1> DEFINE s == m.step
           k == AttemptOver(kernel, s)
           cancelTimeout == Save(k) \o Cancel(kernel.timeouts[s])
<1>1. s \in Steps
  BY DEF Envelope
<1>2. kernel.timeouts[s] \in LeaseType
  BY <1>1, KernelParts
<1>3. k \in KernelState
  BY <1>1, AttemptCleared
<1>4. AtEntry(k)
  <2>1. /\ k.active = kernel.active /\ k.step = kernel.step /\ k.backoffs = kernel.backoffs
        /\ k.cb = NoCallback
    BY DEF AttemptOver, KernelState, KernelType
  <2> HIDE DEF k
  <2> QED BY <2>1 DEF AtEntry
<1>5. First(cancelTimeout)
  <2> HIDE DEF k
  <2> QED BY <1>2, <1>3, <1>4, FirstPieces, FirstJoined
<1>6. First(StepFailed(s, k, m))
  <2>1. First(Cleanup(k))
    <3> HIDE DEF k
    <3> QED BY <1>3, FirstCleanup
  <2>2. First(Outcome("timeout", s))
    BY <1>1, FirstOutcome DEF OutcomeKinds
  <2>3. StepFailed(s, k, m) = Cleanup(k) \o Outcome("timeout", s)
    BY DEF StepFailed
  <2> HIDE DEF k, s
  <2> QED BY <2>1, <2>2, <2>3, FirstJoined
<1>7. First(<<>>)
  BY FirstPieces
<1>8. ~Stale(m) => ~Resumes(m) /\ kernel.backoffs[s] = NoBackoff
  <2>1. kernel.pending => kernel.step \in Steps
    BY DEF KernelState
  <2> QED BY <1>1, <2>1, ConstantsAssumption DEF Stale, Resumes, AtEntry
<1>9. HandleCompleted(m) = IF Stale(m) THEN <<>> ELSE cancelTimeout \o StepFailed(s, k, m)
  BY <1>8 DEF HandleCompleted, AttemptOver
<1> HIDE DEF k, s, cancelTimeout
<1> QED BY <1>5, <1>6, <1>7, <1>9, FirstJoined

LEMMA FirstHandles ==
    ASSUME TypeInv, NEW m \in Envelope, ~Opening(m), m.type \notin {"request", "backoff"},
           AtEntry(kernel), m.type \in {"timeout", "completed"} => m.step = Entry,
           m.type = "completed" => m.result = "timeout"
    PROVE  First(Handler(m))
<1>1. m.type \in {"timeout", "completed", "runCompleted", "stop"}
  BY DEF Envelope, EnvelopeType, Opening
<1>2. kernel \in KernelState
  BY DEF TypeInv
<1>3. CASE m.type = "timeout"
  BY <1>2, <1>3, FirstTimeout, KernelHandler
<1>4. CASE m.type = "completed"
  BY <1>2, <1>4, FirstCompleted, KernelHandler
<1>5. \A st \in Terminal : First(Persist(st) \o Disable)
  BY FirstPieces
<1>6. CASE m.type = "runCompleted"
  <2>1. Handler(m) = HandleWorkflowCompleted(m)
    BY <1>6 DEF Handler
  <2> QED BY <1>5, <2>1 DEF HandleWorkflowCompleted, Terminal
<1>7. CASE m.type = "stop"
  <2>1. Handler(m) = HandleStopped(m)
    BY <1>7 DEF Handler
  <2>2. First(Cleanup(kernel)) /\ First(<<>>)
    BY <1>2, FirstCleanup, FirstPieces
  <2> QED BY <1>5, <2>1, <2>2 DEF HandleStopped, Terminal
<1> QED BY <1>1, <1>3, <1>4, <1>6, <1>7

\* One envelope at most opens the run, wherever it is.
One ==
    /\ Lone(mailbox)
    /\ Opening(now) => \A m \in Waiting : ~Opening(m)
    /\ \A m \in retrying : Opening(m) =>
           NoOpening(mailbox) /\ \A n \in retrying : Opening(n) => n = m

\* The envelope that opens the run waits, or its handler has not yet asked for the
\* first step.
Expecting == (\E m \in Waiting : Opening(m)) \/ (Opening(now) /\ ~First(todo))

Begun ==
    /\ Flying = {} /\ AtEntry(kernel) /\ \A c \in armed : EntryTimeout(c.cb)
    /\ \A m \in Envelopes : /\ m.type # "backoff"
                            /\ m.type \in {"timeout", "completed"} => m.step = Entry

\* The start is announced by the handler of a chat request only.
Announcing == {Persist("running") \o Post(StartMessage), Post(StartMessage)}
Announced == todo \in Announcing => Opening(now)

OpenInv ==
    /\ One /\ Announced
    /\ Opening(now) => First(todo) \/ Openable(todo)
    /\ Expecting => Begun /\ (Opening(now) \/ First(todo))

\* What a step keeps, but for what was begun.
Openly ==
    /\ One' /\ Announced'
    /\ Opening(now') => First(todo') \/ Openable(todo')
    /\ Expecting' => Expecting /\ ~PublishRequest /\ (Opening(now') \/ First(todo'))

LEMMA GrantedEntry ==
    ASSUME NEW k \in KernelState, AtEntry(k)
    PROVE  AtEntry(GrantedKernel(k))
<1>1. k \in KernelType
  BY DEF KernelState
<1> DEFINE ts == [s \in Steps |-> Granted(k.timeouts[s])]
           b == [s \in Steps |-> [k.backoffs[s] EXCEPT !.lease = Granted(@)]]
           g == GrantedKernel(k)
<1>2. g = [k EXCEPT !.timeouts = ts, !.backoffs = b]
  BY DEF GrantedKernel
<1>3. ASSUME NEW s \in Steps, k.backoffs[s] = NoBackoff PROVE b[s] = NoBackoff
  <2>1. b[s] = [NoBackoff EXCEPT !.lease = Granted(NoBackoff.lease)]
    BY <1>3
  <2>2. Granted(NoLease) = NoLease /\ NoBackoff.lease = NoLease
    BY DEF Granted, NoBackoff
  <2> HIDE DEF b
  <2> QED BY <2>1, <2>2 DEF NoBackoff
<1> HIDE DEF ts, b
<1>4. g.active = k.active /\ g.step = k.step /\ g.cb = k.cb /\ g.backoffs = b
  BY <1>1, <1>2 DEF KernelType
<1> HIDE DEF g
<1> QED BY <1>3, <1>4 DEF AtEntry, g

\* The kernel, the callbacks and what is on its way while no request is made.
LEMMA BegunStep ==
    ASSUME TypeInv, OpenInv, Expecting, [Next]_vars, crashes' = 0, ~PublishRequest
    PROVE  Begun'
<1> USE DEF runVars
<1>1. Begun /\ (First(todo) \/ Openable(todo))
  BY DEF OpenInv
<1>2. kernel \in KernelState
  BY DEF TypeInv
<1>3. todo # <<>> => Head(todo) \in FirstEffect \cup Opener
  BY <1>1, FirstStep, OpenableStep
<1>4. todo # <<>> =>
          /\ Head(todo).do = "save" => Head(todo) \in SaveEffect /\ AtEntry(Head(todo).k)
          /\ Head(todo).do = "arm" => EntryTimeout(Head(todo).cb)
          /\ Head(todo).do = "post" /\ Head(todo).m.type = "completed" =>
                 Head(todo).m.step = Entry /\ Head(todo).m.result = "timeout"
  <2>1. todo # <<>> /\ Head(todo) \in Opener =>
            /\ Head(todo).do \notin {"save", "arm"}
            /\ Head(todo).do = "post" => Head(todo).m.type = "start"
    BY KindsApart DEF Opener, OpenEffect, StartMessage, Blank
  <2> QED BY <1>3, <2>1, FirstForms
<1>5. AtEntry(kernel')
  <2>1. CASE SaveState
    <3>1. kernel' = GrantedKernel(Head(todo).k) /\ todo # <<>> /\ Head(todo).do = "save"
      BY <2>1 DEF SaveState, GrantedKernel, Effect
    <3> QED BY <1>4, <3>1, KindsApart, GrantedEntry
  <2>2. CASE PersistStatus
    <3>1. kernel' \in {Idle, kernel}
      BY <2>2 DEF PersistStatus
    <3> QED BY <1>1, <3>1 DEF Begun, AtEntry, Idle
  <2>3. CASE PublishFails
    <3>1. kernel' = kernel \/ kernel' = [kernel EXCEPT !.timeouts[Head(todo).step] = NoLease]
      BY <2>3 DEF PublishFails
    <3>2. /\ kernel'.active = kernel.active /\ kernel'.step = kernel.step
          /\ kernel'.backoffs = kernel.backoffs /\ kernel'.cb = kernel.cb
      BY <1>2, <3>1 DEF KernelState, KernelType
    <3> QED BY <1>1, <3>2 DEF Begun, AtEntry
  <2>4. ASSUME ~SaveState, ~PersistStatus, ~PublishFails PROVE kernel' = kernel
    <3>1. Perform => kernel' = kernel
      BY <2>4 DEF Perform, PublishSelf, PublishRequest, TellParent, ScheduleCallback,
         CancelCallbacks, Reload, DisableModules
    <3>2. Deliver \/ AcceptRequest \/ RequestStop \/ Crash \/ UNCHANGED vars => kernel' = kernel
      BY DEF Deliver, AcceptRequest, RequestStop, Crash, vars
    <3>3. /\ \A w \in working : Answer(w) => kernel' = kernel
          /\ \A c \in armed : Fire(c) => kernel' = kernel
          /\ \A m \in retrying : Redeliver(m) => kernel' = kernel
      BY DEF Answer, Fire, Redeliver
    <3> QED BY <2>4, <3>1, <3>2, <3>3 DEF Next
  <2> QED BY <1>1, <2>1, <2>2, <2>3, <2>4 DEF Begun
<1>6. ASSUME NEW c \in armed' PROVE EntryTimeout(c.cb)
  <2>1. CASE c \in armed
    BY <1>1, <2>1 DEF Begun
  <2>2. ASSUME c \notin armed
        PROVE  ScheduleCallback
    <3>1. Perform => ScheduleCallback
      BY <2>2 DEF Perform, SaveState, PublishSelf, PublishRequest, TellParent, PersistStatus,
         CancelCallbacks, Reload, DisableModules
    <3>2. ~(Deliver \/ AcceptRequest \/ RequestStop \/ Crash \/ PublishFails \/ UNCHANGED vars)
      BY <2>2 DEF Deliver, AcceptRequest, RequestStop, Crash, PublishFails, vars
    <3>3. /\ \A w \in working : ~Answer(w)
          /\ \A d \in armed : ~Fire(d)
          /\ \A m \in retrying : ~Redeliver(m)
      BY <2>2 DEF Answer, Fire, Redeliver
    <3> QED BY <2>2, <3>1, <3>2, <3>3 DEF Next
  <2>3. ASSUME c \notin armed, ScheduleCallback PROVE EntryTimeout(c.cb)
    <3>1. c.cb = Head(todo).cb /\ todo # <<>> /\ Head(todo).do = "arm"
      BY <2>3 DEF ScheduleCallback, Effect
    <3> QED BY <1>4, <3>1
  <2> QED BY <2>1, <2>2, <2>3
<1>7. ASSUME NEW m \in Envelopes'
      PROVE  /\ ~Answers(m) /\ m.type # "backoff"
             /\ m.type \in {"timeout", "completed"} => m.step = Entry
  <2>1. \A x \in Envelopes : ~Answers(x)
    BY <1>1, FlyingKnown DEF Begun
  <2>2. CASE m \in Envelopes \cup {Blank}
    BY <1>1, <2>1, <2>2 DEF Begun, Blank, Answers
  <2>3. CASE Sent(m)
    <3>1. CASE m.type \in {"stop"}
      BY <3>1 DEF Answers
    <3>2. ASSUME NEW w \in working PROVE FALSE
      BY <2>1 DEF TypeInv, Envelopes, Answers
    <3>3. ASSUME NEW c \in armed, m.type = c.cb.kind, m.step = c.cb.step
          PROVE  m.type = "timeout" /\ m.step = Entry
      BY <1>1, <3>3 DEF Begun, EntryTimeout
    <3>4. CASE /\ todo # <<>> /\ Head(todo).do = "post"
               /\ m.type = Head(todo).m.type /\ m.step = Head(todo).m.step
               /\ m.result = Head(todo).m.result
      <4>1. m.type \in {"completed", "runCompleted", "start"}
        BY <3>4, Posted
      <4> QED BY <1>4, <3>4, <4>1 DEF Answers
    <3> QED BY <2>3, <3>1, <3>2, <3>3, <3>4 DEF Sent, Answers
  <2> QED BY <2>2, <2>3, EnvelopesStep
<1>8. Flying' = {}
  <2>1. \A m \in Envelopes' : ~Answers(m)
    BY <1>7
  <2> QED BY <2>1 DEF Flying, Answers
<1> QED BY <1>5, <1>6, <1>7, <1>8 DEF Begun

-----------------------------------------------------------------------------
(* Steps that the handler at work does not make                            *)

LEMMA OpenlyMeanwhile ==
    ASSUME TypeInv, OpenInv, UNCHANGED <<todo, now, tries>>, One',
           \A m \in Waiting' : Opening(m) => m \in Waiting
    PROVE  Openly
<1>1. ~PublishRequest
  <2> SUFFICES ASSUME PublishRequest PROVE FALSE
    OBVIOUS
  <2> DEFINE s == Head(todo).step
  <2>1. tries' = [tries EXCEPT ![s] = @ + 1] /\ todo # <<>> /\ Head(todo).do = "request"
    BY DEF PublishRequest, Effect
  <2>2. Head(todo) \in RequestEffect
    BY <2>1, EffectTyped DEF Effect
  <2>3. s \in Steps
    BY <2>2, KindsApart
  <2>4. tries[s] \in Nat /\ tries'[s] = tries[s] + 1
    BY <2>1, <2>3 DEF TypeInv
  <2> QED BY <2>4
<1>2. Expecting' => Expecting
  BY DEF Expecting
<1>3. Announced'
  BY DEF OpenInv, Announced
<1> QED BY <1>1, <1>2, <1>3 DEF OpenInv, Openly

LEMMA OneArrives ==
    ASSUME TypeInv, One, NEW n \in Envelope, ~Opening(n), mailbox' = Append(mailbox, n),
           Range(mailbox') = Range(mailbox) \cup {n}, retrying' = retrying,
           now' \in {now, Blank}
    PROVE  One' /\ \A m \in Waiting' : Opening(m) => m \in Waiting
<1>1. mailbox \in Seq(Envelope)
  BY DEF TypeInv
<1>2. Lone(mailbox')
  BY <1>1, LoneAppended DEF One
<1>3. \A m \in Waiting' : Opening(m) => m \in Waiting
  BY DEF Waiting
<1>4. Opening(now') => Opening(now)
  BY DEF Opening, Blank
<1>5. NoOpening(mailbox) => NoOpening(mailbox')
  BY DEF NoOpening
<1> QED BY <1>2, <1>3, <1>4, <1>5 DEF One

LEMMA OpenlyArrives ==
    ASSUME TypeInv, OpenInv, NEW n \in Envelope, ~Opening(n), mailbox' = Append(mailbox, n),
           Range(mailbox') = Range(mailbox) \cup {n},
           UNCHANGED <<todo, now, tries, retrying>>
    PROVE  Openly
BY OneArrives, OpenlyMeanwhile DEF OpenInv

LEMMA AnswerOpenly ==
    ASSUME TypeInv, OpenInv, NEW w \in working, Answer(w)
    PROVE  Openly
<1>1. PICK n \in Envelope :
          /\ mailbox' = Append(mailbox, n) /\ Range(mailbox') = Range(mailbox) \cup {n}
          /\ n.type = "completed"
  BY AnswerSends
<1>2. UNCHANGED <<todo, now, tries, retrying>>
  BY DEF Answer
<1>3. ~Opening(n)
  BY <1>1 DEF Opening
<1> QED BY <1>1, <1>2, <1>3, OpenlyArrives

LEMMA FireOpenly ==
    ASSUME TypeInv, OpenInv, NEW c \in armed, Fire(c)
    PROVE  Openly
<1>1. PICK n \in Envelope :
          /\ mailbox' = Append(mailbox, n) /\ Range(mailbox') = Range(mailbox) \cup {n}
          /\ n.type = c.cb.kind
  BY FireSends
<1>2. UNCHANGED <<todo, now, tries, retrying>>
  BY DEF Fire
<1>3. ~Opening(n)
  BY <1>1 DEF Opening, TypeInv, Due
<1> QED BY <1>1, <1>2, <1>3, OpenlyArrives

LEMMA StopOpenly ==
    ASSUME TypeInv, OpenInv, RequestStop
    PROVE  Openly
<1>1. PICK n \in Envelope :
          /\ mailbox' = Append(mailbox, n) /\ Range(mailbox') = Range(mailbox) \cup {n}
          /\ n.type = "stop"
  BY StopSends
<1>2. UNCHANGED <<todo, now, tries, retrying>>
  BY DEF RequestStop, runVars
<1>3. ~Opening(n)
  BY <1>1 DEF Opening
<1> QED BY <1>1, <1>2, <1>3, OpenlyArrives

LEMMA RedeliverOpenly ==
    ASSUME TypeInv, OpenInv, NEW m \in retrying, Redeliver(m)
    PROVE  Openly
<1>1. /\ mailbox' = Append(mailbox, m) /\ retrying' = retrying \ {m}
      /\ UNCHANGED <<todo, now, tries>>
  BY DEF Redeliver
<1>2. mailbox \in Seq(Envelope) /\ m \in Envelope
  BY DEF TypeInv
<1>3. Range(mailbox') = Range(mailbox) \cup {m}
  BY <1>1, <1>2, RangeAppended
<1>4. Waiting' = Waiting
  BY <1>1, <1>3 DEF Waiting
<1>5. One'
  <2>1. Lone(mailbox')
    BY <1>1, <1>2, LoneAppended DEF OpenInv, One
  <2>2. Opening(now') => \A n \in Waiting' : ~Opening(n)
    BY <1>1, <1>4 DEF OpenInv, One
  <2>3. ASSUME NEW n \in retrying', Opening(n)
        PROVE  NoOpening(mailbox') /\ \A x \in retrying' : Opening(x) => x = n
    <3>1. NoOpening(mailbox) /\ \A x \in retrying : Opening(x) => x = n
      BY <1>1, <2>3 DEF OpenInv, One
    <3>2. ~Opening(m)
      BY <1>1, <2>3, <3>1
    <3> QED BY <1>1, <1>3, <3>1, <3>2 DEF NoOpening
  <2> QED BY <2>1, <2>2, <2>3 DEF One
<1> QED BY <1>1, <1>4, <1>5, OpenlyMeanwhile

\* The first envelope leaves the mailbox.
LEMMA OneTaken ==
    ASSUME TypeInv, One, mailbox # <<>>, mailbox' = Tail(mailbox), retrying' = retrying,
           now' \in {now, Blank, Head(mailbox)}
    PROVE  One' /\ Waiting' \subseteq Waiting /\ Head(mailbox) \in Waiting
<1>1. /\ mailbox \in Seq(Envelope)
      /\ Range(mailbox) = {Head(mailbox)} \cup Range(mailbox')
  BY RangeTaken DEF TypeInv
<1>2. Lone(mailbox') /\ (Opening(Head(mailbox)) => NoOpening(mailbox'))
  BY <1>1, LoneTaken DEF One
<1>3. Waiting' \subseteq Waiting /\ Head(mailbox) \in Waiting
  BY <1>1 DEF Waiting
<1>4. ASSUME Opening(now') PROVE \A m \in Waiting' : ~Opening(m)
  <2>1. CASE now' = now
    BY <1>3, <1>4, <2>1 DEF One
  <2>2. CASE now' = Blank
    BY <1>4, <2>2 DEF Blank, Opening
  <2>3. CASE now' = Head(mailbox)
    <3>1. NoOpening(mailbox')
      BY <1>2, <1>4, <2>3
    <3>2. \A m \in retrying : ~Opening(m)
      <4>1. ~NoOpening(mailbox)
        BY <1>1, <1>4, <2>3 DEF NoOpening
      <4> QED BY <4>1 DEF One
    <3> QED BY <3>1, <3>2 DEF Waiting, NoOpening
  <2> QED BY <2>1, <2>2, <2>3
<1>5. NoOpening(mailbox) => NoOpening(mailbox')
  BY <1>1 DEF NoOpening
<1> QED BY <1>2, <1>3, <1>4, <1>5 DEF One

LEMMA AcceptOpenly ==
    ASSUME TypeInv, OpenInv, AcceptRequest
    PROVE  Openly
<1>1. /\ mailbox # <<>> /\ mailbox' = Tail(mailbox) /\ Head(mailbox).type = "request"
      /\ UNCHANGED <<todo, now, tries, retrying>>
  BY DEF AcceptRequest
<1>2. One' /\ Waiting' \subseteq Waiting
  BY <1>1, OneTaken DEF OpenInv
<1> QED BY <1>1, <1>2, OpenlyMeanwhile

-----------------------------------------------------------------------------
(* Steps of a handler                                                      *)

LEMMA AnnouncingForms ==
    /\ \A q \in Announcing : /\ q # <<>> /\ q \in AgentTodos
                             /\ Head(q).do = "persist" => Head(q).status = "running"
                             /\ Head(q) \notin KernelEffect
                             /\ Head(q) \notin DisableEffect
    /\ \A q \in AgentTodos : Head(q) \in OpenEffect => q \in Announcing
    /\ \A q \in AgentTodos : Tail(q) \in Announcing => q \in Announcing
<1> DEFINE a == Persist("running") \o Post(StartMessage)
           b == Post(StartMessage)
           p == [do |-> "persist", status |-> "running"]
           s == [do |-> "post", m |-> StartMessage]
<1>1. a \in AgentTodos /\ b \in AgentTodos
  BY DEF AgentTodos
<1>2. a = <<p>> \o <<s>> /\ b = <<s>>
  BY DEF Persist, Post
<1>3. p \notin KernelEffect /\ s \notin KernelEffect
  BY DEF KernelEffect, WorkEffect, SaveEffect, RequestEffect, ArmEffect, CancelEffect,
         AgainEffect, CompletionEffect, EndEffect, StartMessage, Blank
<1>4. /\ p.do = "persist" /\ p.status = "running" /\ s.do = "post" /\ s \in OpenEffect
      /\ p \notin OpenEffect /\ p \notin DisableEffect /\ s \notin DisableEffect
  BY DEF OpenEffect, DisableEffect
<1> HIDE DEF p, s
<1>5. <<p>> \o <<s>> = <<p, s>>
  BY TwoJoined
<1>6. Head(a) = p /\ Tail(a) = b /\ Head(b) = s /\ Tail(b) = <<>> /\ a # <<>> /\ b # <<>>
  <2>1. Head(<<p, s>>) = p /\ Tail(<<p, s>>) = <<s>>
    BY TwoTail
  <2>2. Head(<<s>>) = s /\ Tail(<<s>>) = <<>> /\ <<s>> # <<>> /\ <<p, s>> # <<>>
    OBVIOUS
  <2>3. a = <<p, s>>
    BY <1>2, <1>5
  <2> QED BY <1>2, <2>1, <2>2, <2>3
<1>7. Announcing = {a, b}
  BY DEF Announcing
<1> HIDE DEF a, b
<1>8. ASSUME NEW q \in AgentTodos
      PROVE  (Head(q) \in OpenEffect => q \in Announcing)
             /\ (Tail(q) \in Announcing => q \in Announcing)
  <2>1. q \in {a, b} \/ q = Disable \/ \E st \in Terminal : q = Persist(st) \o Disable
    BY DEF AgentTodos, a, b
  <2>2. CASE q \in {a, b}
    BY <1>7, <2>2
  <2>3. CASE q = Disable \/ \E st \in Terminal : q = Persist(st) \o Disable
    <3> DEFINE d == [do |-> "disable"]
    <3>1. Disable = <<d>> /\ d \notin OpenEffect /\ d # s
      BY <1>4 DEF Disable, OpenEffect
    <3>2. \A st : Persist(st) = <<[do |-> "persist", status |-> st]>>
      BY DEF Persist
    <3>3. \A st : [do |-> "persist", status |-> st] \notin OpenEffect
      BY DEF OpenEffect
    <3> HIDE DEF d
    <3>4. Disable \notin Announcing /\ <<>> \notin Announcing
      <4>1. Head(Disable) = d /\ Tail(Disable) = <<>> /\ d \in DisableEffect
        BY <3>1 DEF DisableEffect, d
      <4> QED BY <1>4, <1>6, <1>7, <4>1
    <3>5. CASE q = Disable
      BY <3>1, <3>4, <3>5
    <3>6. ASSUME NEW st \in Terminal, q = Persist(st) \o Disable
          PROVE  Head(q) \notin OpenEffect /\ Tail(q) \notin Announcing
      <4> DEFINE e == [do |-> "persist", status |-> st]
      <4>1. q = <<e>> \o <<d>> /\ e \notin OpenEffect
        BY <3>1, <3>2, <3>3, <3>6
      <4> HIDE DEF e
      <4>2. Head(q) = e /\ Tail(q) = <<d>>
        <5>1. <<e>> \o <<d>> = <<e, d>>
          BY TwoJoined
        <5>2. Head(<<e, d>>) = e /\ Tail(<<e, d>>) = <<d>>
          BY TwoTail
        <5> QED BY <4>1, <5>1, <5>2
      <4> QED BY <3>1, <3>4, <4>1, <4>2
    <3> QED BY <2>3, <3>5, <3>6
  <2> QED BY <2>1, <2>2, <2>3
<1> QED BY <1>1, <1>3, <1>4, <1>6, <1>7, <1>8

\* The work of the kernel announces nothing.
LEMMA KernelAnnounces ==
    ASSUME NEW q, KernelTodo(q)
    PROVE  q = <<>> \/ (q \notin Announcing /\ Head(q) \notin OpenEffect)
<1>1. q # <<>> => Head(q) \in KernelEffect
  BY KernelStep
<1>2. \A e \in OpenEffect : e \notin KernelEffect
  BY DEF KernelEffect, WorkEffect, SaveEffect, RequestEffect, ArmEffect, CancelEffect,
         AgainEffect, CompletionEffect, EndEffect, OpenEffect, StartMessage, Blank
<1> QED BY <1>1, <1>2, AnnouncingForms

LEMMA ChatAnnounces ==
    ASSUME TypeInv, NEW m \in Envelope, m.type \notin {"request", "chat"}
    PROVE  Handler(m) \notin Announcing
<1>1. m.type \in HandlerTypes
  BY DEF Envelope, EnvelopeType, HandlerTypes
<1>2. kernel \in KernelState /\ ids \in Nat /\ modules \in BOOLEAN
  BY DEF TypeInv
<1>3. <<>> \notin Announcing
  BY AnnouncingForms
<1>4. ASSUME NEW q, KernelTodo(q) PROVE q \notin Announcing
  BY <1>3, <1>4, KernelAnnounces
<1>5. ASSUME NEW st \in Terminal PROVE Persist(st) \o Disable \notin Announcing
  <2>1. /\ Head(Persist(st) \o Disable) = [do |-> "persist", status |-> st]
    BY AgentEffect
  <2>2. st # "running"
    BY DEF Terminal
  <2> DEFINE h == Head(Persist(st) \o Disable)
  <2> HIDE DEF h
  <2>3. h = [do |-> "persist", status |-> st]
    BY <2>1 DEF h
  <2>4. h.do = "persist" /\ h.status = st
    BY <2>3
  <2> QED BY <2>2, <2>4, AnnouncingForms DEF h
<1>6. CASE m.type \in {"completed", "timeout", "backoff", "start"}
  <2>1. Closing(Outcome("active", NoStep))
    BY DEF Closing, OutcomeKinds
  <2>2. m.type = "start" => KernelTodo(HandleStart(m))
    BY <1>2, <2>1, StartTyped DEF KernelTodo, Course
  <2>3. m.type = "completed" => KernelTodo(HandleCompleted(m))
    BY <1>2, CompletedTyped DEF KernelTodo
  <2>4. m.type = "timeout" => KernelTodo(HandleTimeout(m))
    BY <1>2, TimeoutTyped DEF KernelTodo, Course
  <2>5. m.type = "backoff" => KernelTodo(HandleBackoff(m))
    BY <1>2, BackoffTyped DEF KernelTodo, Course
  <2>6. m.type = "start" => Handler(m) = HandleStart(m)
    BY DEF Handler
  <2> QED BY <1>4, <1>6, <2>2, <2>3, <2>4, <2>5, <2>6, KernelHandler
<1>7. CASE m.type = "runCompleted"
  <2>1. Handler(m) = HandleWorkflowCompleted(m)
    BY <1>7 DEF Handler
  <2> QED BY <1>5, <2>1 DEF HandleWorkflowCompleted, Terminal
<1>8. CASE m.type = "stop"
  <2>1. Handler(m) = HandleStopped(m)
    BY <1>8 DEF Handler
  <2>2. HandleStopped(m) = Persist("stopped") \o Disable \/ HandleStopped(m) \in Seq(WorkEffect)
    BY <1>2, AgentTyped
  <2>3. \A q \in Seq(WorkEffect) : KernelTodo(q)
    BY DEF KernelTodo, Course
  <2> QED BY <1>4, <1>5, <2>1, <2>2, <2>3 DEF Terminal
<1> QED BY <1>1, <1>6, <1>7, <1>8 DEF HandlerTypes

\* What is left of a handler that announced nothing announces nothing.
LEMMA AnnouncingTaken ==
    ASSUME TypeInv, todo # <<>>, Announced, ~Opening(now)
    PROVE  Head(todo) \notin OpenEffect /\ Tail(todo) \notin Announcing
<1>1. todo \notin Announcing
  BY DEF Announced
<1>2. CASE KernelTodo(todo)
  <2>1. KernelTodo(Tail(todo))
    BY <1>2, KernelStep
  <2>2. <<>> \notin Announcing
    BY AnnouncingForms
  <2> QED BY <1>2, <2>1, <2>2, KernelAnnounces
<1>3. CASE todo \in AgentTodos
  BY <1>1, <1>3, AnnouncingForms
<1> QED BY <1>2, <1>3 DEF TypeInv

-----------------------------------------------------------------------------
(* Steps of a handler, and the run that opens                              *)

LEMMA DeliverOpenly ==
    ASSUME TypeInv, OpenInv, Deliver
    PROVE  Openly
<1> DEFINE m == Head(mailbox)
<1>1. /\ todo = <<>> /\ mailbox # <<>> /\ m.type # "request"
      /\ todo' = Handler(m) /\ now' = IF todo' = <<>> THEN Blank ELSE m
      /\ mailbox' = Tail(mailbox) /\ retrying' = retrying
  BY DEF Deliver, runVars
<1>2. One' /\ Waiting' \subseteq Waiting /\ m \in Waiting
  BY <1>1, OneTaken DEF OpenInv
<1>3. ~PublishRequest
  BY <1>1 DEF PublishRequest, Effect
<1>4. m \in Envelope /\ m \in Envelopes /\ Range(mailbox) \subseteq Envelopes
  <2>1. Range(mailbox) = {m} \cup Range(Tail(mailbox)) /\ m \in Envelope
    BY <1>1, RangeTaken DEF TypeInv
  <2> QED BY <2>1 DEF Envelopes
<1>5. ~Opening(Blank) /\ First(<<>>) /\ <<>> \notin Announcing
  BY FirstPieces, AnnouncingForms DEF Opening, Blank
<1>6. kernel \in KernelState /\ ids \in Nat
  BY DEF TypeInv
<1>7. Expecting' => Expecting
  BY <1>1, <1>2, <1>5 DEF Expecting
<1> HIDE DEF m
<1>8. CASE Opening(m)
  <2>1. AtEntry(kernel)
    BY <1>2, <1>8 DEF OpenInv, Expecting, Begun
  <2>2. First(Handler(m)) \/ Openable(Handler(m))
    <3>1. CASE m.type = "chat"
      BY <3>1, ChatOpens DEF Handler
    <3>2. CASE m.type = "start"
      BY <1>4, <1>6, <2>1, <3>2, StartOpens DEF Handler
    <3> QED BY <1>8, <3>1, <3>2 DEF Opening
  <2>3. todo' # <<>> => Opening(now')
    BY <1>1, <1>8
  <2>4. Opening(now') \/ First(todo')
    BY <1>5, <2>3
  <2> QED BY <1>1, <1>2, <1>3, <1>5, <1>7, <2>2, <2>3, <2>4 DEF Openly, Announced
<1>9. CASE ~Opening(m)
  <2>1. ~Opening(now')
    BY <1>1, <1>5, <1>9
  <2>2. todo' \notin Announcing
    BY <1>1, <1>4, <1>9, ChatAnnounces DEF Opening
  <2>3. ASSUME Expecting' PROVE First(todo')
    <3>1. Begun
      BY <1>7, <2>3 DEF OpenInv
    <3>2. ~Answers(m)
      BY <1>4, <3>1, FlyingKnown DEF Begun
    <3>3. m.type # "backoff" /\ (m.type \in {"timeout", "completed"} => m.step = Entry)
      BY <1>4, <3>1 DEF Begun
    <3>4. m.type = "completed" => m.result = "timeout"
      BY <3>2 DEF Answers
    <3> QED BY <1>1, <1>4, <1>9, <3>1, <3>3, <3>4, FirstHandles DEF Begun
  <2> QED BY <1>2, <1>3, <1>7, <2>1, <2>2, <2>3 DEF Openly, Announced
<1> QED BY <1>8, <1>9

\* The envelope whose handler could not publish is handled again.
LEMMA FailsOpenly ==
    ASSUME TypeInv, OpenInv, PublishFails
    PROVE  Openly
<1>1. /\ (todo # <<>> /\ Head(todo).do = "request") \/ now.type = "timeout"
      /\ todo' = <<>> /\ now' = Blank /\ mailbox' = mailbox
      /\ retrying' = retrying \cup {now} /\ failures' = failures + 1 /\ failures \in Nat
  BY DEF PublishFails, Effect, TypeInv
<1>2. ~PublishRequest
  BY <1>1 DEF PublishRequest
<1>3. ~Opening(now') /\ First(todo') /\ todo' \notin Announcing
  BY <1>1, FirstPieces, AnnouncingForms DEF Opening, Blank
<1>4. Waiting' = Waiting \cup {now}
  BY <1>1 DEF Waiting
<1>5. Opening(now) => ~First(todo)
  <2>1. Opening(now) => todo # <<>> /\ Head(todo).do = "request"
    BY <1>1 DEF Opening
  <2> QED BY <2>1, FirstStep, FirstForms
<1>6. Expecting' => Expecting
  BY <1>3, <1>4, <1>5 DEF Expecting
<1>7. One'
  <2>1. ASSUME NEW m \in retrying', Opening(m)
        PROVE  NoOpening(mailbox') /\ \A n \in retrying' : Opening(n) => n = m
    <3>1. CASE Opening(now)
      <4>1. \A n \in Waiting : ~Opening(n)
        BY <3>1 DEF OpenInv, One
      <4> QED BY <1>1, <2>1, <4>1 DEF Waiting, NoOpening
    <3>2. CASE ~Opening(now)
      <4>1. m \in retrying
        BY <1>1, <2>1, <3>2
      <4> QED BY <1>1, <2>1, <3>2, <4>1 DEF OpenInv, One
    <3> QED BY <3>1, <3>2
  <2> QED BY <1>1, <1>3, <2>1 DEF OpenInv, One
<1> QED BY <1>2, <1>3, <1>6, <1>7 DEF Openly, Announced

\* A handler performs an effect that announces no start.
LEMMA StepOpenly ==
    ASSUME TypeInv, OpenInv, Perform, Step, One', \A m \in Waiting' : Opening(m) => m \in Waiting
    PROVE  Openly
<1>1. todo # <<>> /\ todo' = Tail(todo) /\ now' = IF todo' = <<>> THEN Blank ELSE now
  BY PerformKind DEF Step
<1>2. First(<<>>) /\ <<>> \notin Announcing /\ ~Opening(Blank)
  BY FirstPieces, AnnouncingForms DEF Opening, Blank
<1>3. First(todo) => First(todo') /\ Head(todo).do # "request"
  BY <1>1, FirstStep, FirstForms
<1>4. Openable(todo) => /\ First(todo') \/ Openable(todo')
                        /\ Head(todo).do = "request" => First(todo')
  BY <1>1, OpenableStep, FirstForms
<1>5. Opening(now') => Opening(now) /\ now' = now
  BY <1>1, <1>2
<1>6. Opening(now) => Opening(now') \/ First(todo')
  BY <1>1, <1>2
<1>7. Announced'
  <2>1. CASE Opening(now)
    <3>1. todo' # <<>> => Opening(now')
      BY <1>1, <2>1
    <3> QED BY <1>2, <3>1 DEF Announced
  <2>2. CASE ~Opening(now)
    BY <1>1, <2>2, AnnouncingTaken DEF OpenInv, Announced
  <2> QED BY <2>1, <2>2
<1>8. Opening(now') => First(todo') \/ Openable(todo')
  BY <1>3, <1>4, <1>5 DEF OpenInv
<1>9. Expecting' => Expecting
  BY <1>3, <1>5 DEF Expecting
<1>10. Expecting' => Opening(now') \/ First(todo')
  BY <1>3, <1>6, <1>9 DEF OpenInv
<1>11. ASSUME Expecting', PublishRequest PROVE FALSE
  <2>1. Head(todo).do = "request"
    BY <1>11 DEF PublishRequest, Effect
  <2>2. Opening(now)
    BY <1>3, <1>9, <1>11, <2>1 DEF OpenInv
  <2>3. First(todo')
    BY <1>3, <1>4, <2>1, <2>2 DEF OpenInv
  <2>4. \E m \in Waiting : Opening(m)
    BY <1>11, <2>3 DEF Expecting
  <2> QED BY <2>2, <2>4 DEF OpenInv, One
<1> QED BY <1>7, <1>8, <1>9, <1>10, <1>11 DEF Openly

\* The handler of a chat request announces the start, and is done.
LEMMA AnnounceOpenly ==
    ASSUME TypeInv, OpenInv, Perform, Step, NEW n \in Envelope, Opening(n),
           Head(todo) \in OpenEffect, mailbox' = Append(mailbox, n),
           Range(mailbox') = Range(mailbox) \cup {n}, retrying' = retrying
    PROVE  Openly
<1>1. todo # <<>> /\ todo' = Tail(todo) /\ now' = IF todo' = <<>> THEN Blank ELSE now
  BY PerformKind DEF Step
<1>2. Opening(now)
  BY <1>1, AnnouncingTaken DEF OpenInv
<1>3. Head(todo) \in Opener /\ ~PublishRequest
  <2>1. Head(todo).do = "post"
    BY DEF OpenEffect
  <2> QED BY <2>1 DEF Opener, PublishRequest, Effect
<1>4. ~First(todo) /\ Openable(todo)
  BY <1>1, <1>2, <1>3, FirstStep, FirstKinds DEF OpenInv
<1>5. todo' = <<>> /\ now' = Blank
  BY <1>1, <1>3, <1>4, OpenableStep, FirstKinds
<1>6. First(todo') /\ todo' \notin Announcing /\ ~Opening(now')
  BY <1>5, FirstPieces, AnnouncingForms DEF Opening, Blank
<1>7. \A m \in Waiting : ~Opening(m)
  BY <1>2 DEF OpenInv, One
<1>8. One'
  <2>1. NoOpening(mailbox) /\ \A m \in retrying' : ~Opening(m)
    BY <1>7 DEF Waiting, NoOpening
  <2>2. Lone(mailbox')
    <3>1. mailbox \in Seq(Envelope)
      BY DEF TypeInv
    <3> QED BY <2>1, <3>1, LoneAppended DEF OpenInv, One
  <2> QED BY <1>6, <2>1, <2>2 DEF One
<1> QED BY <1>2, <1>3, <1>4, <1>6, <1>8 DEF Openly, Announced, Expecting

LEMMA ReloadOpenly ==
    ASSUME TypeInv, OpenInv, Reload
    PROVE  Openly
<1>1. /\ todo # <<>> /\ Head(todo).do = "again" /\ todo' = Handler(now)
      /\ now' = IF todo' = <<>> THEN Blank ELSE now
      /\ mailbox' = mailbox /\ retrying' = retrying
  BY DEF Reload, Effect, runVars
<1>2. ~First(todo) /\ ~Openable(todo)
  <2>1. ASSUME Head(todo) \in FirstEffect PROVE FALSE
    BY <1>1, <2>1, FirstForms
  <2>2. ASSUME Head(todo) \in Opener PROVE FALSE
    BY <1>1, <2>2, KindsApart DEF Opener, OpenEffect
  <2> QED BY <1>1, <2>1, <2>2, FirstStep, OpenableStep
<1>3. ~Opening(now) /\ ~Expecting
  BY <1>2 DEF OpenInv
<1>4. ~Opening(now') /\ Waiting' = Waiting
  BY <1>1, <1>3 DEF Opening, Blank, Waiting
<1>5. ~Expecting'
  BY <1>3, <1>4 DEF Expecting
<1>6. todo' \notin Announcing
  <2>1. now \in Envelope /\ now.type \notin {"request", "chat"}
    BY <1>1, <1>3 DEF TypeInv, Opening
  <2> QED BY <1>1, <2>1, ChatAnnounces
<1>7. One'
  BY <1>1, <1>4 DEF OpenInv, One
<1> QED BY <1>4, <1>5, <1>6, <1>7 DEF Openly, Announced

LEMMA PerformOpenly ==
    ASSUME TypeInv, OpenInv, Perform
    PROVE  Openly
<1>1. UNCHANGED retrying /\ now' \in {now, Blank}
  BY PerformSends
<1>2. CASE Head(todo).do = "again"
  BY <1>2, PerformKind, ReloadOpenly
<1>3. ASSUME Head(todo).do # "again" PROVE Openly
  <2>1. Step
    BY <1>3 DEF Perform, SaveState, PublishSelf, PublishRequest, TellParent, PersistStatus,
       ScheduleCallback, CancelCallbacks, Reload, DisableModules, Effect
  <2>2. CASE Head(todo).do \notin {"post", "request"}
    <3>1. mailbox' = mailbox
      BY <2>2, PerformSends
    <3>2. Waiting' = Waiting
      BY <1>1, <3>1 DEF Waiting
    <3>3. One'
      <4>1. Opening(now') => Opening(now)
        BY <1>1 DEF Opening, Blank
      <4> QED BY <1>1, <3>1, <3>2, <4>1 DEF OpenInv, One
    <3> QED BY <2>1, <3>2, <3>3, StepOpenly
  <2>3. CASE Head(todo).do \in {"post", "request"}
    <3>1. PICK n \in Envelope :
              /\ mailbox' = Append(mailbox, n) /\ Range(mailbox') = Range(mailbox) \cup {n}
              /\ n.type \in {"completed", "runCompleted", "start", "request"}
              /\ n.type = "start" => Head(todo) \in OpenEffect
      BY <2>3, PerformSends
    <3>2. CASE Opening(n)
      <4>1. Head(todo) \in OpenEffect
        BY <3>1, <3>2 DEF Opening
      <4> QED BY <1>1, <2>1, <3>1, <3>2, <4>1, AnnounceOpenly
    <3>3. CASE ~Opening(n)
      <4>1. One' /\ \A m \in Waiting' : Opening(m) => m \in Waiting
        BY <1>1, <3>1, <3>3, OneArrives DEF OpenInv
      <4> QED BY <2>1, <4>1, StepOpenly
    <3> QED BY <3>2, <3>3
  <2> QED BY <2>2, <2>3
<1> QED BY <1>2, <1>3

LEMMA OpenStep ==
    ASSUME TypeInv, OpenInv, [Next]_vars, crashes' = 0
    PROVE  OpenInv'
<1>1. CASE UNCHANGED vars
  BY <1>1 DEF vars, OpenInv, One, Announced, Expecting, Begun, Waiting, Envelopes, Flying
<1>2. CASE Next
  <2>1. ~Crash
    BY DEF Crash, TypeInv
  <2>2. Openly
    BY <1>2, <2>1, DeliverOpenly, AcceptOpenly, PerformOpenly, AnswerOpenly, FireOpenly,
       RedeliverOpenly, StopOpenly, FailsOpenly DEF Next
  <2>3. Expecting' => Begun'
    BY <2>2, BegunStep DEF Openly
  <2> QED BY <2>2, <2>3 DEF Openly, OpenInv
<1> QED BY <1>1, <1>2

-----------------------------------------------------------------------------
(* Every step spends what it counts                                        *)

\* No handler that has spent what it counts completes a step but by its timeout.
LEMMA SpentPosts ==
    ASSUME TypeInv, SpentInv, todo # <<>>, Head(todo).do = "post"
    PROVE  Head(todo).m.type # "completed" \/ Head(todo).m.result = "timeout"
<1>1. ~Leveling(todo, Ledger)
  BY LedgerTyped, LevelingStep
<1>2. Level(todo, kernel, Ledger)
  BY <1>1 DEF SpentInv, SpentTodo
<1> QED BY <1>2, LedgerTyped, LevelStep

LEMMA FlyingStep ==
    ASSUME TypeInv, SpentInv, [Next]_vars, crashes' = 0, ~PublishRequest
    PROVE  Flying' \subseteq Flying
<1> SUFFICES ASSUME NEW m \in Envelopes', Answers(m) PROVE m.step \in Flying
  BY FlyingFewer
<1>1. CASE m \in Envelopes \cup {Blank}
  BY <1>1, FlyingKnown DEF Answers, Blank
<1>2. CASE Sent(m)
  <2>1. CASE m.type = "stop"
    BY <2>1 DEF Answers
  <2>2. ASSUME NEW w \in working, m.step = w.step PROVE m.step \in Flying
    <3>1. w \in Envelopes /\ Answers(w)
      BY DEF Envelopes, Answers, TypeInv
    <3> QED BY <2>2, <3>1, FlyingKnown
  <2>3. ASSUME NEW c \in armed, m.type = c.cb.kind PROVE FALSE
    <3>1. m.type \in {"timeout", "backoff"}
      BY <2>3 DEF TypeInv, Due
    <3> QED BY <3>1 DEF Answers
  <2>4. ASSUME todo # <<>>, Head(todo).do = "post", m.type = Head(todo).m.type,
               m.result = Head(todo).m.result
        PROVE  FALSE
    <3>1. m.type \in {"completed", "runCompleted", "start"}
      BY <2>4, Posted
    <3> QED BY <2>4, <3>1, SpentPosts DEF Answers
  <2> QED BY <1>2, <2>1, <2>2, <2>3, <2>4 DEF Sent
<1> QED BY <1>1, <1>2, EnvelopesStep

LEMMA SpentMeanwhile ==
    ASSUME SpentInv, UNCHANGED <<todo, kernel, tries>>, Flying' \subseteq Flying
    PROVE  SpentInv'
<1>1. Ledger'.made = Ledger.made /\ Ledger'.flying \subseteq Ledger.flying
  BY DEF Ledger
<1> QED BY <1>1, FewerTodo DEF SpentInv

\* A run that no publication fails in is not left with a pending dispatch.
LEMMA SettledPending ==
    ASSUME CallbackInv, todo = <<>>
    PROVE  ~kernel.pending
<1>1. Settled(kernel, Insts, Watched)
  BY PromiseAtRest DEF CallbackInv
<1> QED BY <1>1 DEF Settled, Tidy

LEMMA DeliverSpends ==
    ASSUME TypeInv, SpentInv, BranchInv, OpenInv, Deliver, crashes' = 0,
           Replayable \/ ~kernel.pending
    PROVE  SpentInv'
<1> DEFINE m == Head(mailbox)
<1>1. /\ todo = <<>> /\ mailbox # <<>> /\ m.type # "request" /\ todo' = Handler(m)
      /\ UNCHANGED <<kernel, tries>>
  BY DEF Deliver, runVars
<1>2. ~PublishRequest
  BY <1>1 DEF PublishRequest, Effect
<1>3. m \in Envelope /\ m \in Envelopes /\ m \in Waiting
  <2>1. Range(mailbox) = {m} \cup Range(Tail(mailbox)) /\ m \in Envelope
    BY <1>1, RangeTaken DEF TypeInv
  <2> QED BY <2>1 DEF Envelopes, Waiting
<1>4. Accounted(m, Ledger)
  <2>1. m.type = "completed" /\ m.result # "timeout" => m.step \in Flying
    BY <1>3, FlyingKnown DEF Answers
  <2>2. Branches(m)
    BY <1>3 DEF BranchInv
  <2> QED BY <2>1, <2>2 DEF Accounted, Branches, Ledger
<1>5. Opening(m) => Ledger.flying = {}
  BY <1>3 DEF OpenInv, Expecting, Begun, Ledger
<1>6. Spent(kernel, Ledger)
  BY <1>1, LedgerTyped, RestSpent DEF SpentInv
<1> HIDE DEF m
<1>7. SpentTodo(Handler(m), kernel, Ledger)
  BY <1>1, <1>3, <1>4, <1>5, <1>6, LedgerTyped, HandlerSpends
<1>8. Flying' \subseteq Flying
  BY <1>2, FlyingStep DEF Next
<1>9. Ledger'.made = Ledger.made /\ Ledger'.flying \subseteq Ledger.flying
  BY <1>1, <1>8 DEF Ledger
<1> QED BY <1>1, <1>7, <1>9, FewerTodo DEF SpentInv

LEMMA FailureSpends ==
    ASSUME TypeInv, SpentInv, PublishFails, crashes' = 0
    PROVE  SpentInv'
<1>1. /\ todo # <<>> /\ Head(todo).do \in {"request", "post"} /\ todo' = <<>> /\ tries' = tries
      /\ kernel' = kernel \/ kernel' = [kernel EXCEPT !.timeouts[Head(todo).step] = NoLease]
  BY DEF PublishFails, Effect
<1>2. ~Leveling(todo, Ledger)
  BY <1>1, LedgerTyped, LevelingStep
<1>3. Spent(kernel, Ledger)
  BY <1>2, LevelTyped DEF SpentInv, SpentTodo
<1>4. /\ kernel'.active = kernel.active /\ kernel'.step = kernel.step
      /\ kernel'.pending = kernel.pending /\ kernel'.retries = kernel.retries
      /\ kernel'.backoffs = kernel.backoffs
  <2>1. kernel \in KernelType
    BY DEF TypeInv, KernelState
  <2> QED BY <1>1, <2>1 DEF KernelType
<1>5. Spent(kernel', Ledger)
  BY <1>3, <1>4, SpentAlike
<1>6. ~PublishRequest
  <2>1. failures' # failures
    BY DEF PublishFails, TypeInv
  <2> QED BY <2>1 DEF PublishRequest
<1>7. Flying' \subseteq Flying
  BY <1>6, FlyingStep DEF Next
<1>8. Ledger'.made = Ledger.made /\ Ledger'.flying \subseteq Ledger.flying
  BY <1>1, <1>7 DEF Ledger
<1>9. SpentTodo(<<>>, kernel', Ledger')
  BY <1>5, <1>8, SpentRests, FewerTodo
<1> QED BY <1>1, <1>9 DEF SpentInv

\* Publications may fail where every dispatch that is replayed was counted before;
\* elsewhere nothing is pending between two envelopes.
LEMMA SpentStep ==
    ASSUME TypeInv, SpentInv, BranchInv, OpenInv, [Next]_vars, crashes' = 0,
           Replayable \/ CallbackInv
    PROVE  SpentInv'
<1>1. CASE UNCHANGED vars
  <2>1. UNCHANGED <<todo, kernel, tries, mailbox, retrying, working, now>>
    BY <1>1 DEF vars
  <2>2. Flying' \subseteq Flying
    BY <2>1, FlyingKept
  <2> QED BY <2>1, <2>2, SpentMeanwhile
<1>2. CASE Deliver
  <2>1. Replayable \/ ~kernel.pending
    BY <1>2, SettledPending DEF Deliver
  <2> QED BY <1>2, <2>1, DeliverSpends
<1>3. CASE Perform
  <2>1. ASSUME Head(todo).do = "again"
        PROVE  Accounted(now, Ledger) /\ ~Opening(now) /\ Replayable
    <3>1. todo # <<>>
      BY <1>3, PerformKind
    <3>2. ~CallbackInv
      BY <2>1, <3>1, PromiseTaken DEF CallbackInv
    <3>3. ~First(todo) /\ ~Openable(todo)
      <4>1. Head(todo) \notin FirstEffect
        BY <2>1, FirstForms
      <4>2. Head(todo) \notin Opener
        BY <2>1, KindsApart DEF Opener, OpenEffect
      <4> QED BY <3>1, <4>1, <4>2, FirstStep, OpenableStep
    <3>4. now \in Envelopes
      BY DEF Envelopes
    <3>5. now.type = "completed" /\ now.result # "timeout" => now.step \in Flying
      BY <3>4, FlyingKnown DEF Answers
    <3>6. Branches(now)
      BY <3>4 DEF BranchInv
    <3> QED BY <3>2, <3>3, <3>5, <3>6 DEF OpenInv, Accounted, Branches, Ledger
  <2> QED BY <1>3, <2>1, PerformSpends
<1>4. CASE PublishFails
  BY <1>4, FailureSpends
<1>5. CASE Crash
  BY <1>5 DEF Crash, TypeInv
<1>6. CASE \/ AcceptRequest \/ RequestStop
           \/ \E w \in working : Answer(w)
           \/ \E c \in armed : Fire(c)
           \/ \E m \in retrying : Redeliver(m)
  <2>1. UNCHANGED <<todo, kernel, tries>>
    BY <1>6 DEF AcceptRequest, RequestStop, Answer, Fire, Redeliver, runVars
  <2>2. ~PublishRequest
    <3>1. ASSUME PublishRequest PROVE FALSE
      <4>1. tries' = [tries EXCEPT ![Head(todo).step] = @ + 1] /\ Effect("request")
        BY <3>1 DEF PublishRequest
      <4>2. Head(todo).step \in Steps
        BY <4>1, EffectTyped, KindsApart DEF Effect
      <4>3. tries[Head(todo).step] \in Nat
        BY <4>2 DEF TypeInv
      <4>4. tries'[Head(todo).step] = tries[Head(todo).step] + 1
        BY <4>1, <4>2 DEF TypeInv
      <4> QED BY <2>1, <4>3, <4>4
    <3> QED BY <3>1
  <2>3. Flying' \subseteq Flying
    BY <2>2, FlyingStep
  <2> QED BY <2>1, <2>3, SpentMeanwhile
<1> QED BY <1>1, <1>2, <1>3, <1>4, <1>5, <1>6 DEF Next

-----------------------------------------------------------------------------
(* Once the parent was told of an error                                    *)

Quit == \E i \in DOMAIN told : told[i].result = "error"

\* What is left of the handler that told it, and of any that comes after it: no
\* state is saved and nothing is requested.
QuitEffect == CancelEffect \cup EndEffect \cup PersistEffect \cup DisableEffect
QuitInv ==
    Quit => /\ ~kernel.active /\ todo \in Seq(QuitEffect)
            /\ ~Opening(now) /\ \A m \in Waiting : ~Opening(m)

ToldInv == \A i \in DOMAIN told : Honest(told[i], tries)

LEMMA QuitKinds ==
    ASSUME NEW e \in QuitEffect
    PROVE  /\ e.do \in {"cancel", "post", "tell", "persist", "disable"}
           /\ e.do = "post" => e.m.type = "runCompleted"
BY DEF QuitEffect, CancelEffect, EndEffect, PersistEffect, DisableEffect

LEMMA QuitHandles ==
    ASSUME TypeInv, ~kernel.active, NEW m \in Envelope, m.type # "request", ~Opening(m)
    PROVE  Handler(m) \in Seq(QuitEffect)
<1>1. m.type \in {"completed", "timeout", "backoff", "runCompleted", "stop"}
  BY DEF Envelope, EnvelopeType, Opening
<1>2. <<>> \in Seq(QuitEffect)
  OBVIOUS
<1>3. \A st \in Terminal : Persist(st) \o Disable \in Seq(QuitEffect)
  <2> SUFFICES ASSUME NEW st \in Terminal PROVE Persist(st) \o Disable \in Seq(QuitEffect)
    OBVIOUS
  <2>1. /\ [do |-> "persist", status |-> st] \in QuitEffect
        /\ [do |-> "disable"] \in QuitEffect
    BY DEF QuitEffect, PersistEffect, DisableEffect
  <2>2. Persist(st) \in Seq(QuitEffect) /\ Disable \in Seq(QuitEffect)
    BY <2>1 DEF Persist, Disable
  <2> QED BY <2>2, Joined
<1>4. CASE m.type = "completed"
  <2>1. HandleCompleted(m) = <<>>
    BY DEF HandleCompleted, Stale
  <2> QED BY <1>2, <1>4, <2>1, KernelHandler
<1>5. CASE m.type = "timeout"
  <2>1. HandleTimeout(m) = <<>>
    BY DEF HandleTimeout, Stale
  <2> QED BY <1>2, <1>5, <2>1, KernelHandler
<1>6. CASE m.type = "backoff"
  <2>1. HandleBackoff(m) = <<>>
    BY DEF HandleBackoff
  <2> QED BY <1>2, <1>6, <2>1, KernelHandler
<1>7. CASE m.type = "runCompleted"
  <2>1. Handler(m) = HandleWorkflowCompleted(m)
    BY <1>7 DEF Handler
  <2> QED BY <1>3, <2>1 DEF HandleWorkflowCompleted, Terminal
<1>8. CASE m.type = "stop"
  <2>1. Handler(m) = HandleStopped(m)
    BY <1>8 DEF Handler
  <2>2. HandleStopped(m) = Persist("stopped") \o Disable \/ HandleStopped(m) = <<>>
    BY DEF HandleStopped
  <2> QED BY <1>2, <1>3, <2>1, <2>2 DEF Terminal
<1> QED BY <1>1, <1>4, <1>5, <1>6, <1>7, <1>8

\* The parent hears of an error, and nothing of the run is left.
LEMMA ErrorQuits ==
    ASSUME TypeInv, SpentInv, OpenInv, TellParent, Head(todo).m.result = "error"
    PROVE  QuitInv'
<1>1. /\ todo # <<>> /\ Head(todo).do = "tell" /\ todo' = Tail(todo)
      /\ now' \in {now, Blank} /\ UNCHANGED <<kernel, mailbox, retrying>>
  BY DEF TellParent, Effect, Step
<1>2. Level(todo, kernel, Ledger)
  BY <1>1, LedgerTyped, LevelingStep DEF SpentInv, SpentTodo
<1>3. ~kernel.active /\ Tail(todo) \in Seq(Farewell(Ledger))
  BY <1>1, <1>2, LedgerTyped, LevelStep
<1>4. Tail(todo) \in Seq(QuitEffect)
  <2>1. Farewell(Ledger) \subseteq QuitEffect
    BY DEF Farewell, QuitEffect
  <2> QED BY <1>3, <2>1
<1>5. Head(todo) \notin FirstEffect /\ Head(todo) \notin Opener
  <2>1. Head(todo) \notin FirstEffect
    BY <1>1, FirstForms
  <2>2. \A e \in Opener : e.do \in {"request", "post"}
    BY KindsApart DEF Opener, OpenEffect
  <2> QED BY <1>1, <2>1, <2>2
<1>6. ~First(todo) /\ ~Openable(todo)
  BY <1>1, <1>5, FirstStep, OpenableStep
<1>7. ~Opening(now) /\ \A m \in Waiting : ~Opening(m)
  BY <1>6 DEF OpenInv, Expecting
<1>8. ~Opening(now') /\ Waiting' = Waiting
  BY <1>1, <1>7 DEF Opening, Blank, Waiting
<1> QED BY <1>1, <1>3, <1>4, <1>7, <1>8 DEF QuitInv

LEMMA QuitStays ==
    ASSUME TypeInv, QuitInv, Quit, [Next]_vars, crashes' = 0
    PROVE  QuitInv' /\ tries' = tries
<1> USE DEF runVars
<1>1. /\ ~kernel.active /\ todo \in Seq(QuitEffect)
      /\ ~Opening(now) /\ \A m \in Waiting : ~Opening(m)
  BY DEF QuitInv
<1>2. todo # <<>> => Head(todo) \in QuitEffect /\ Tail(todo) \in Seq(QuitEffect)
  BY <1>1
<1>3. ~SaveState /\ ~PublishRequest /\ ~Reload /\ ~Crash
  <2>1. ~Crash
    BY DEF Crash, TypeInv
  <2>2. todo # <<>> => Head(todo).do \notin {"save", "request", "again"}
    BY <1>2, QuitKinds
  <2> QED BY <2>1, <2>2 DEF SaveState, PublishRequest, Reload, Effect
<1>4. \A m \in Waiting' : ~Opening(m)
  <2> SUFFICES ASSUME NEW m \in Waiting', Sent(m) PROVE ~Opening(m)
    BY <1>1, EnvelopesStep
  <2>1. \A c \in armed : c.cb.kind \in {"timeout", "backoff"}
    BY DEF TypeInv, Due
  <2>2. todo # <<>> /\ Head(todo).do = "post" => Head(todo).m.type = "runCompleted"
    BY <1>2, QuitKinds
  <2> QED BY <2>1, <2>2 DEF Sent, Opening
<1>5. CASE UNCHANGED vars
  BY <1>5 DEF vars, QuitInv, Quit, Waiting
<1>6. CASE Deliver
  <2> DEFINE m == Head(mailbox)
  <2>1. /\ mailbox # <<>> /\ m.type # "request" /\ todo' = Handler(m)
        /\ now' \in {Blank, m} /\ UNCHANGED <<kernel, tries>>
    BY <1>6 DEF Deliver
  <2>2. m \in Envelope /\ ~Opening(m)
    <3>1. Range(mailbox) = {m} \cup Range(Tail(mailbox)) /\ m \in Envelope
      BY <2>1, RangeTaken DEF TypeInv
    <3> QED BY <1>1, <3>1 DEF Waiting
  <2> HIDE DEF m
  <2>3. ~Opening(now')
    BY <2>1, <2>2 DEF Opening, Blank
  <2>4. todo' \in Seq(QuitEffect)
    BY <1>1, <2>1, <2>2, QuitHandles
  <2> QED BY <1>1, <1>4, <2>1, <2>3, <2>4 DEF QuitInv
<1>7. CASE Perform
  <2>1. /\ todo # <<>> /\ todo' = Tail(todo) /\ now' \in {now, Blank} /\ tries' = tries
        /\ kernel' \in {kernel, Idle}
    BY <1>3, <1>7 DEF Perform, PublishSelf, TellParent, ScheduleCallback, CancelCallbacks,
       PersistStatus, DisableModules, Effect, Step
  <2>2. ~kernel'.active /\ ~Opening(now')
    BY <1>1, <2>1 DEF Idle, Opening, Blank
  <2> QED BY <1>2, <1>4, <2>1, <2>2 DEF QuitInv
<1>8. CASE PublishFails
  <2>1. /\ todo' = <<>> /\ now' = Blank /\ tries' = tries
        /\ kernel' = kernel \/ kernel' = [kernel EXCEPT !.timeouts[Head(todo).step] = NoLease]
    BY <1>8 DEF PublishFails
  <2>2. kernel'.active = kernel.active /\ ~Opening(now')
    <3>1. kernel \in KernelType
      BY DEF TypeInv, KernelState
    <3> QED BY <2>1, <3>1 DEF KernelType, Opening, Blank
  <2> QED BY <1>1, <1>4, <2>1, <2>2 DEF QuitInv
<1>9. CASE \/ AcceptRequest \/ RequestStop
           \/ \E w \in working : Answer(w)
           \/ \E c \in armed : Fire(c)
           \/ \E m \in retrying : Redeliver(m)
  <2>1. UNCHANGED <<todo, kernel, tries, now>>
    BY <1>9 DEF AcceptRequest, RequestStop, Answer, Fire, Redeliver
  <2> QED BY <1>1, <1>4, <2>1 DEF QuitInv
<1> QED BY <1>3, <1>5, <1>6, <1>7, <1>8, <1>9 DEF Next

\* What the parent is told of is told by one action.
LEMMA ToldOnlyTold ==
    ASSUME TypeInv, [Next]_vars, crashes' = 0
    PROVE  told' = told \/ TellParent
<1> USE DEF runVars
<1>1. Perform => told' = told \/ TellParent
  BY DEF Perform, SaveState, PublishSelf, PublishRequest, ScheduleCallback, CancelCallbacks,
     Reload, PersistStatus, DisableModules
<1>2. Deliver \/ AcceptRequest \/ RequestStop \/ PublishFails \/ Crash \/ UNCHANGED vars
          => told' = told
  BY DEF Deliver, AcceptRequest, RequestStop, PublishFails, Crash, vars
<1>3. /\ \A w \in working : Answer(w) => told' = told
      /\ \A c \in armed : Fire(c) => told' = told
      /\ \A m \in retrying : Redeliver(m) => told' = told
  BY DEF Answer, Fire, Redeliver
<1> QED BY <1>1, <1>2, <1>3 DEF Next

LEMMA ToldGrows ==
    ASSUME TypeInv, TellParent
    PROVE  /\ tries' = tries
           /\ \A i \in DOMAIN told' :
                  \/ i \in DOMAIN told /\ told'[i] = told[i]
                  \/ told'[i] = [step |-> Head(todo).m.step, result |-> Head(todo).m.result]
<1> DEFINE e == [step |-> Head(todo).m.step, result |-> Head(todo).m.result]
<1>1. told' = Append(told, e) /\ tries' = tries
  BY DEF TellParent
<1>2. Len(told) \in Nat /\ DOMAIN told = 1 .. Len(told)
  BY DEF TypeInv
<1> HIDE DEF e
<1>3. DOMAIN told' = 1 .. Len(told) + 1
  BY <1>1, <1>2
<1>4. \A i \in 1 .. Len(told) + 1 : told'[i] = IF i <= Len(told) THEN told[i] ELSE e
  BY <1>1, <1>2
<1> QED BY <1>1, <1>2, <1>3, <1>4 DEF e

LEMMA QuitStep ==
    ASSUME TypeInv, SpentInv, OpenInv, QuitInv, [Next]_vars, crashes' = 0
    PROVE  QuitInv'
<1>1. CASE Quit
  BY <1>1, QuitStays
<1>2. CASE ~Quit
  <2>1. CASE told' = told
    BY <1>2, <2>1 DEF QuitInv, Quit
  <2>2. CASE TellParent
    <3>1. CASE Head(todo).m.result = "error"
      BY <2>2, <3>1, ErrorQuits
    <3>2. CASE Head(todo).m.result # "error"
      <4>1. \A i \in DOMAIN told' : told'[i].result # "error"
        BY <1>2, <2>2, <3>2, ToldGrows DEF Quit
      <4> QED BY <4>1 DEF QuitInv, Quit
    <3> QED BY <3>1, <3>2
  <2> QED BY <2>1, <2>2, ToldOnlyTold
<1> QED BY <1>1, <1>2

LEMMA ToldStep ==
    ASSUME TypeInv, SpentInv, QuitInv, ToldInv, [Next]_vars, crashes' = 0
    PROVE  ToldInv'
<1>1. \A i \in DOMAIN told : Honest(told[i], tries')
  <2>1. CASE Quit
    BY <2>1, QuitStays DEF ToldInv
  <2>2. CASE ~Quit
    BY <2>2 DEF Honest, Quit
  <2> QED BY <2>1, <2>2
<1>2. CASE told' = told
  BY <1>1, <1>2 DEF ToldInv
<1>3. CASE TellParent
  <2>1. todo # <<>> /\ Head(todo).do = "tell"
    BY <1>3 DEF TellParent, Effect
  <2>2. Level(todo, kernel, Ledger)
    BY <2>1, LedgerTyped, LevelingStep DEF SpentInv, SpentTodo
  <2>3. Honest(Head(todo).m, Ledger.made)
    BY <2>1, <2>2, LedgerTyped, LevelStep
  <2>4. Honest([step |-> Head(todo).m.step, result |-> Head(todo).m.result], tries)
    BY <2>3 DEF Honest, Ledger
  <2> QED BY <1>1, <1>3, <2>4, ToldGrows DEF ToldInv
<1> QED BY <1>2, <1>3, ToldOnlyTold

-----------------------------------------------------------------------------
(* A run fails over an error when the attempts are spent                   *)

\* No handler is cut short, and a publication fails only where each dispatch that
\* is replayed was counted before.
Lenient == crashes = 0 /\ (failures = 0 \/ Replayable)

FailureInv == SpentInv /\ BranchInv /\ OpenInv /\ QuitInv /\ ToldInv

LEMMA LenientBefore ==
    ASSUME TypeInv, [Next]_vars, Lenient'
    PROVE  Lenient
<1> USE DEF runVars
<1>1. crashes \in Nat /\ failures \in Nat
  BY BoundsTyped DEF TypeInv
<1>2. crashes' \in {crashes, crashes + 1} /\ failures' \in {failures, failures + 1}
  <2>1. Perform => UNCHANGED <<crashes, failures>>
    BY DEF Perform, SaveState, PublishSelf, PublishRequest, TellParent, ScheduleCallback,
       CancelCallbacks, Reload, PersistStatus, DisableModules
  <2>2. /\ Deliver \/ AcceptRequest \/ RequestStop \/ UNCHANGED vars =>
               UNCHANGED <<crashes, failures>>
        /\ PublishFails => crashes' = crashes /\ failures' = failures + 1
        /\ Crash => crashes' = crashes + 1 /\ failures' = failures
    BY DEF Deliver, AcceptRequest, RequestStop, PublishFails, Crash, vars
  <2>3. /\ \A w \in working : Answer(w) => UNCHANGED <<crashes, failures>>
        /\ \A c \in armed : Fire(c) => UNCHANGED <<crashes, failures>>
        /\ \A m \in retrying : Redeliver(m) => UNCHANGED <<crashes, failures>>
    BY DEF Answer, Fire, Redeliver
  <2> QED BY <2>1, <2>2, <2>3 DEF Next
<1> QED BY <1>1, <1>2 DEF Lenient

LEMMA FailureStep ==
    ASSUME TypeInv, Smooth => CallbackInv, Lenient => FailureInv, [Next]_vars
    PROVE  Lenient' => FailureInv'
<1> SUFFICES ASSUME Lenient' PROVE FailureInv'
  OBVIOUS
<1>1. Lenient /\ crashes' = 0
  BY LenientBefore DEF Lenient
<1>2. SpentInv /\ BranchInv /\ OpenInv /\ QuitInv /\ ToldInv
  BY <1>1 DEF FailureInv
<1>3. Replayable \/ CallbackInv
  BY <1>1 DEF Lenient, Smooth
<1>4. SpentInv'
  BY <1>1, <1>2, <1>3, SpentStep
<1>5. BranchInv' /\ OpenInv'
  BY <1>1, <1>2, AnswersBranch, OpenStep
<1>6. QuitInv' /\ ToldInv'
  BY <1>1, <1>2, QuitStep, ToldStep
<1> QED BY <1>4, <1>5, <1>6 DEF FailureInv

LEMMA InitFailure ==
    ASSUME StartedOnce
    PROVE  Init => FailureInv
<1> SUFFICES ASSUME Init PROVE FailureInv
  OBVIOUS
<1> DEFINE chat(i) == [Blank EXCEPT !.type = "chat", !.id = i]
<1>1. /\ kernel = Idle /\ todo = <<>> /\ now = Blank /\ retrying = {} /\ working = {}
      /\ armed = {} /\ told = <<>> /\ mailbox = [i \in 1 .. Starts |-> chat(i)]
  BY Zenon DEF Init
<1>2. \A m \in Range(mailbox) : m.type = "chat"
  <2>1. \A i : chat(i).type = "chat"
    BY DEF Blank
  <2>2. Range(mailbox) = {mailbox[i] : i \in DOMAIN mailbox} /\ DOMAIN mailbox = 1 .. Starts
    BY <1>1 DEF Range
  <2> HIDE DEF chat
  <2> QED BY <1>1, <2>1, <2>2
<1>3. Lone(mailbox)
  <2>1. DOMAIN mailbox = 1 .. Starts
    BY <1>1
  <2>2. Starts = 0 \/ Starts = 1
    BY BoundsTyped DEF StartedOnce
  <2>3. DOMAIN mailbox \subseteq {1}
    BY <2>1, <2>2
  <2> QED BY <2>3 DEF Lone
<1> HIDE DEF chat
<1>4. \A m \in Envelopes : m = Blank \/ m.type = "chat"
  BY <1>1, <1>2 DEF Envelopes
<1>5. \A m \in Envelopes : m.type \in {"none", "chat"}
  BY <1>4 DEF Blank
<1>6. Flying = {}
  BY <1>5 DEF Flying, Answers
<1>7. SpentInv
  <2>1. Spent(kernel, Ledger)
    BY <1>1 DEF Spent, Idle
  <2> QED BY <1>1, <2>1, SpentRests DEF SpentInv
<1>8. BranchInv
  BY <1>5 DEF BranchInv, Branches
<1>9. ~Opening(now) /\ First(todo) /\ todo \notin Announcing
  BY <1>1, FirstPieces, AnnouncingForms DEF Opening, Blank
<1>10. Begun
  <2>1. AtEntry(kernel)
    BY <1>1 DEF AtEntry, Idle
  <2> QED BY <1>1, <1>5, <1>6, <2>1 DEF Begun
<1>11. OpenInv
  BY <1>1, <1>3, <1>9, <1>10 DEF OpenInv, One, Announced
<1>12. QuitInv /\ ToldInv
  <2>1. DOMAIN told = {}
    BY <1>1
  <2> QED BY <2>1 DEF QuitInv, Quit, ToldInv
<1> QED BY <1>7, <1>8, <1>11, <1>12 DEF FailureInv

\* A run that was started once fails over a step's error only when its retry policy
\* is used up and the step has no on_error, in any workflow as long as no handler
\* was cut short and no publication failed; and however many failed in a workflow
\* without loops whose retries all wait for a backoff.  An immediate retry whose
\* request cannot be published was counted and is not made: it costs an attempt
\* (TryRetryAsync, StartRetryBackoffAsync, TryOnErrorAsync, CleanupRunAsync before
\* PublishWorkflowCompletedAsync).
THEOREM AttemptsExhausted ==
    ASSUME StartedOnce
    PROVE  Spec => [](crashes = 0 /\ (failures = 0 \/ Replayable) => FailsOnlyExhausted)
<1>1. Init => (Smooth => CallbackInv) /\ (Lenient => FailureInv) /\ (crashes = 0 => BudgetInv)
  BY InitCallbacks, InitFailure, InitBudget
<1>2. TypeInv /\ (Smooth => CallbackInv) /\ [Next]_vars => (Smooth => CallbackInv)'
  BY CallbackStep DEF Smooth
<1>3. TypeInv /\ (crashes = 0 => BudgetInv) /\ [Next]_vars => (crashes = 0 => BudgetInv)'
  BY BudgetStep
<1>4. TypeInv /\ (Smooth => CallbackInv) /\ (Lenient => FailureInv) /\ [Next]_vars
      => (Lenient => FailureInv)'
  BY FailureStep DEF Lenient
<1>5. TypeInv /\ (Lenient => FailureInv) /\ (crashes = 0 => BudgetInv)
      => (crashes = 0 /\ (failures = 0 \/ Replayable) => FailsOnlyExhausted)
  <2> SUFFICES ASSUME TypeInv, Lenient, FailureInv, BudgetInv,
                      NEW i \in DOMAIN told, told[i].result = "error"
               PROVE  /\ tries[told[i].step] = MaxAttempts[told[i].step]
                      /\ OnError[told[i].step] = "fail"
    BY DEF Lenient, FailsOnlyExhausted
  <2> DEFINE s == told[i].step
  <2>1. s \in Steps /\ MaxAttempts[s] <= tries[s] /\ OnError[s] = "fail"
    BY DEF FailureInv, ToldInv, Honest
  <2>2. tries[s] <= MaxAttempts[s]
    BY <2>1 DEF BudgetInv
  <2>3. tries[s] \in Nat /\ MaxAttempts[s] \in Nat
    <3>1. tries \in [Steps -> Nat] /\ MaxAttempts \in [Steps -> 1 .. 10]
      BY ConstantsAssumption DEF TypeInv
    <3> HIDE DEF s
    <3> QED BY <2>1, <3>1
  <2> QED BY <2>1, <2>2, <2>3
<1> QED BY <1>1, <1>2, <1>3, <1>4, <1>5, TypesHold, PTL DEF Spec

\* FailsOnlyExhausted where no handler is cut short, and publications fail only in a
\* workflow that can replay them (TryRetryAsync, TryOnErrorAsync).
THEOREM FailuresExhaust ==
    ASSUME StartedOnce, MaxCrashes = 0, NothingFails \/ Replayable
    PROVE  Spec => []FailsOnlyExhausted
<1>1. TypeInv => crashes = 0 /\ (failures = 0 \/ Replayable)
  BY DEF TypeInv, NothingFails
<1>2. TypeInv /\ (crashes = 0 /\ (failures = 0 \/ Replayable) => FailsOnlyExhausted)
      => FailsOnlyExhausted
  BY <1>1
<1> QED BY <1>2, AttemptsExhausted, TypesHold, PTL

================================================================================
