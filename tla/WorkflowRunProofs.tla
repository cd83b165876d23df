--------------------------- MODULE WorkflowRunProofs ---------------------------
(***************************************************************************)
(* Type correctness of WorkflowRun, the silence of a stopped run and the   *)
(* one outcome of a run that is started once, for every workflow, retry    *)
(* policy and number of requests, stops, failures and crashes.             *)
(*                                                                         *)
(* A handler is a sequence of effects, so the types say what may be left   *)
(* of one: work of the kernel, a run that ends (work, the cleared state,   *)
(* the cancelled callbacks, the outcome), or one of the agent's few        *)
(* sequences.  Each handler is shown to begin with one of these, and       *)
(* taking the first effect off leads from one to another.  Which sequence  *)
(* an agent's handler leaves is also why a stopped run does no work.       *)
(*                                                                         *)
(* For the outcome, envelopes are looked at as a line, the one at work     *)
(* before those that wait: a crash, which puts it back in front, does not  *)
(* change the line.                                                        *)
(* Coherent says of the line, the parent and the kernel how far the run    *)
(* can be: one envelope at most opens it, and only before any outcome;     *)
(* once there is an outcome, on its way or recorded, the kernel is idle or *)
(* in a state nothing acts on; and outcomes on their way agree.            *)
(*                                                                         *)
(* AtWork says for each handler which sequence of effects may be left of   *)
(* it and what the line is by then, so that it may be cut short anywhere   *)
(* and begin again.  Orderly is what one effect is shown to keep.          *)
(***************************************************************************)
EXTENDS WorkflowRun, SequenceTheorems, TLAPS

USE DEF control

-----------------------------------------------------------------------------
(* What the variables hold                                                 *)

\* Callbacks are scheduled for a step, as timeout or as backoff.
Due == [kind : {"timeout", "backoff"}, step : Steps, origin : Nat]

\* A retry count stays below the attempts allowed; a dispatch is pending for the
\* current step; a step's own timeout callback may be saved without a lease.
KernelState ==
    {k \in KernelType : /\ \A s \in Steps : k.retries[s] < MaxAttempts[s]
                        /\ k.pending => k.step \in Steps
                        /\ k.cb \in Due \cup {NoCallback}}

\* Every envelope that concerns a step names one, a completion names what comes
\* next when it succeeded, and a finished run says how it ended.
Envelope ==
    {m \in EnvelopeType :
        /\ m.type # "none"
        /\ m.type \in {"request", "completed", "timeout", "backoff"} => m.step \in Steps
        /\ m.type = "completed" => m.result \in {"ok", "error", "timeout"}
        /\ m.type = "completed" /\ m.result = "ok" => m.next \in Steps \cup {Done, Invalid}
        /\ m.type = "runCompleted" => m.result \in OutcomeKinds}

SaveEffect == [do : {"save"}, k : KernelState, enters : SUBSET Steps]
RequestEffect == [do : {"request"}, step : Steps, attempt : Nat, scheduled : BOOLEAN]
ArmEffect == [do : {"arm"}, cb : Due, attempt : Nat]
CancelEffect == [do : {"cancel"}, leases : SUBSET LeaseType]
AgainEffect == [do : {"again"}]
CompletionEffect == [do : {"post"}, m : {m \in Envelope : m.type = "completed"}]

\* What the kernel does in the course of a run, and how it announces the end.
WorkEffect == SaveEffect \cup RequestEffect \cup ArmEffect \cup CancelEffect
              \cup AgainEffect \cup CompletionEffect
EndEffect == [do : {"post", "tell"}, m : {m \in Envelope : m.type = "runCompleted"}]
KernelEffect == WorkEffect \cup EndEffect

\* A handler that ends the run: some work, the cleared state, the outcome.
Closing(c) == \E result \in OutcomeKinds, s \in Steps \cup {NoStep} : c = Outcome(result, s)
CancelAll(leases) == <<[do |-> "cancel", leases |-> leases]>>
Cancelling(c) == \E leases \in SUBSET LeaseType : \E d : Closing(d) /\ c = CancelAll(leases) \o d
Finishing(t) == \E p \in Seq(WorkEffect) : \E c : Cancelling(c) /\ t = p \o (Save(Idle) \o c)
Telling(t) == \E c : Closing(c) /\ t = Tail(c)

\* What a handler of the kernel may begin with, and what may be left of it.
Course(t) == t \in Seq(WorkEffect) \/ Finishing(t)
KernelTodo(t) == Course(t) \/ Cancelling(t) \/ Closing(t) \/ Telling(t)

StartMessage == [Blank EXCEPT !.type = "start"]

\* What the agent's handlers have left to do: Persist never stands elsewhere.
AgentTodos ==
    {Persist("running") \o Post(StartMessage), Post(StartMessage), Disable}
    \cup {Persist(st) \o Disable : st \in Terminal}

HandlerTypes == {"chat", "start", "completed", "timeout", "backoff", "runCompleted", "stop"}

TypeInv ==
    /\ status \in Terminal \cup {"bound", "running"}
    /\ modules \in BOOLEAN
    /\ kernel \in KernelState
    /\ mailbox \in Seq(Envelope)
    /\ now \in Envelope \cup {Blank}
    /\ todo # <<>> => now \in Envelope /\ now.type # "request"
    /\ KernelTodo(todo) \/ todo \in AgentTodos
    /\ granted \in Nat /\ ids \in Nat
    /\ armed \subseteq [cb : Due, gen : Nat, attempt : Nat]
    /\ working \subseteq {m \in Envelope : m.type = "request"}
    /\ retrying \subseteq Envelope
    /\ told \in Seq([step : Steps \cup {NoStep}, result : OutcomeKinds])
    /\ tries \in [Steps -> Nat]
    /\ stops \in 0 .. MaxStops /\ failures \in 0 .. MaxFailures /\ crashes \in 0 .. MaxCrashes

-----------------------------------------------------------------------------
(* The pieces handlers are made of                                         *)

LEMMA BlankTyped ==
    /\ Blank \in EnvelopeType
    /\ NoCallback \in CallbackType /\ NoLease \in LeaseType
    /\ Due \subseteq CallbackType
BY DEF Blank, EnvelopeType, NoLease, NoCallback, LeaseType, CallbackType, OutcomeKinds, Due

LEMMA IdleTyped == Idle \in KernelState
<1>1. Idle \in KernelType
  BY BlankTyped DEF Idle, KernelType, NoBackoff
<1>2. \A s \in Steps : Idle.retries[s] < MaxAttempts[s]
  BY ConstantsAssumption DEF Idle
<1> QED BY <1>1, <1>2 DEF KernelState, Idle

\* A concatenation of sequences is one.
LEMMA Joined ==
    ASSUME NEW S, NEW x \in Seq(S), NEW y \in Seq(S)
    PROVE  x \o y \in Seq(S)
OBVIOUS

LEMMA TwoJoined ==
    ASSUME NEW a, NEW b
    PROVE  <<a>> \o <<b>> = <<a, b>>
<1>1. <<a>> \in Seq({a, b}) /\ <<b>> \in Seq({a, b}) /\ <<a, b>> \in Seq({a, b})
  OBVIOUS
<1> DEFINE c == <<a>> \o <<b>>
<1>2. /\ c \in Seq({a, b}) /\ Len(c) = 2
      /\ c[1] = a /\ c[2] = b
  BY <1>1, ConcatProperties
<1> HIDE DEF c
<1>3. \A i \in 1 .. Len(c) : c[i] = <<a, b>>[i]
  BY <1>2
<1> QED BY <1>1, <1>2, <1>3, SeqEqual DEF c

LEMMA SaveTyped ==
    ASSUME NEW k \in KernelState
    PROVE  Save(k) \in Seq(WorkEffect)
<1>1. [do |-> "save", k |-> k, enters |-> {}] \in WorkEffect
  BY DEF WorkEffect, SaveEffect
<1> QED BY <1>1 DEF Save

LEMMA PostTyped ==
    ASSUME NEW m \in Envelope, m.type = "completed"
    PROVE  Post(m) \in Seq(WorkEffect)
<1>1. [do |-> "post", m |-> m] \in WorkEffect
  BY DEF WorkEffect, CompletionEffect
<1> QED BY <1>1 DEF Post

LEMMA ArmTyped ==
    ASSUME NEW cb \in Due, NEW attempt \in Nat
    PROVE  Arm(cb, attempt) \in Seq(WorkEffect)
<1>1. [do |-> "arm", cb |-> cb, attempt |-> attempt] \in WorkEffect
  BY DEF WorkEffect, ArmEffect
<1> QED BY <1>1 DEF Arm

LEMMA CancelTyped ==
    ASSUME NEW l \in LeaseType
    PROVE  Cancel(l) \in Seq(WorkEffect)
<1>1. [do |-> "cancel", leases |-> {l}] \in WorkEffect
  BY DEF WorkEffect, CancelEffect
<1>2. <<>> \in Seq(WorkEffect)
  OBVIOUS
<1> QED BY <1>1, <1>2 DEF Cancel

LEMMA RequestTyped ==
    ASSUME NEW s \in Steps, NEW attempt \in Nat, NEW scheduled \in BOOLEAN
    PROVE  Request(s, attempt, scheduled) \in Seq(WorkEffect)
<1>1. [do |-> "request", step |-> s, attempt |-> attempt, scheduled |-> scheduled]
          \in WorkEffect
  BY DEF WorkEffect, RequestEffect
<1> QED BY <1>1 DEF Request

LEMMA AgainTyped == Again \in Seq(WorkEffect)
<1>1. [do |-> "again"] \in WorkEffect
  BY DEF WorkEffect, AgainEffect
<1> QED BY <1>1 DEF Again

\* The two halves of a final outcome.
LEMMA OutcomeTyped ==
    ASSUME NEW result \in OutcomeKinds, NEW s \in Steps \cup {NoStep}
    PROVE  \E m \in Envelope :
               /\ m.type = "runCompleted" /\ m.result = result /\ m.step = s
               /\ Outcome(result, s) = <<[do |-> "post", m |-> m], [do |-> "tell", m |-> m]>>
<1> DEFINE m == [Blank EXCEPT !.type = "runCompleted", !.result = result, !.step = s]
<1>1. m \in EnvelopeType /\ m.type = "runCompleted" /\ m.result = result /\ m.step = s
  BY BlankTyped DEF EnvelopeType, Blank
<1>2. m \in Envelope
  BY <1>1 DEF Envelope
<1>3. Outcome(result, s) = Post(m) \o <<[do |-> "tell", m |-> m]>>
  BY DEF Outcome
<1> HIDE DEF m
<1>4. Outcome(result, s) = <<[do |-> "post", m |-> m], [do |-> "tell", m |-> m]>>
  BY <1>3, TwoJoined DEF Post
<1> QED BY <1>1, <1>2, <1>4

LEMMA CleanupTyped ==
    ASSUME NEW k \in KernelState
    PROVE  Cleanup(k) \in Seq(WorkEffect)
<1> DEFINE leases == {k.timeouts[s] : s \in Steps} \cup {k.backoffs[s].lease : s \in Steps}
<1>1. leases \ {NoLease} \in SUBSET LeaseType
  BY DEF KernelState, KernelType
<1>2. <<[do |-> "cancel", leases |-> leases \ {NoLease}]>> \in Seq(WorkEffect)
  BY <1>1 DEF WorkEffect, CancelEffect
<1>3. Save(Idle) \in Seq(WorkEffect)
  BY IdleTyped, SaveTyped
<1>4. Cleanup(k) = Save(Idle) \o <<[do |-> "cancel", leases |-> leases \ {NoLease}]>>
  BY DEF Cleanup
<1> QED BY <1>2, <1>3, <1>4, Joined

BackoffType == [cb : CallbackType, lease : LeaseType, dispatching : BOOLEAN]

\* What the fields of a kernel state hold for a step.
LEMMA KernelParts ==
    ASSUME NEW k \in KernelState, NEW s \in Steps
    PROVE  /\ k.active \in BOOLEAN /\ k.pending \in BOOLEAN
           /\ k.step \in Steps \cup {NoStep}
           /\ k.pending => k.step \in Steps
           /\ k.cb \in Due \cup {NoCallback}
           /\ k.timeouts[s] \in LeaseType
           /\ k.backoffs[s] \in BackoffType /\ k.backoffs[s].lease \in LeaseType
           /\ k.retries[s] \in Nat /\ k.retries[s] < MaxAttempts[s]
           /\ MaxAttempts[s] \in Nat /\ 0 < MaxAttempts[s]
           /\ k.exec[s] \in Nat
<1>1. MaxAttempts[s] \in 1 .. 10
  BY ConstantsAssumption
<1>2. k \in KernelType
  BY DEF KernelState
<1>3. k.backoffs[s] \in BackoffType
  BY <1>2 DEF KernelType, BackoffType
<1>4. k.backoffs[s].lease \in LeaseType
  BY <1>3 DEF BackoffType
<1>5. /\ k.active \in BOOLEAN /\ k.pending \in BOOLEAN /\ k.step \in Steps \cup {NoStep}
      /\ k.timeouts[s] \in LeaseType /\ k.retries[s] \in Nat /\ k.exec[s] \in Nat
  BY <1>2 DEF KernelType
<1>6. /\ k.retries[s] < MaxAttempts[s] /\ k.cb \in Due \cup {NoCallback}
      /\ k.pending => k.step \in Steps
  BY DEF KernelState
<1> QED BY <1>1, <1>3, <1>4, <1>5, <1>6

\* The updates with which the kernel's handlers save its state.
Stepped(k, s, cb, n, l) ==
    [k EXCEPT !.step = s, !.pending = FALSE, !.cb = cb, !.exec[s] = n, !.timeouts[s] = l]

LEMMA StepSet ==
    ASSUME NEW k \in KernelState, NEW s \in Steps, NEW l \in LeaseType, NEW n \in Nat,
           NEW cb \in Due \cup {NoCallback}
    PROVE  Stepped(k, s, cb, n, l) \in KernelState
<1>1. cb \in CallbackType
  BY BlankTyped
<1> QED BY <1>1 DEF Stepped, KernelState, KernelType

LEMMA TimeoutSet ==
    ASSUME NEW k \in KernelState, NEW s \in Steps, NEW l \in LeaseType
    PROVE  [k EXCEPT !.timeouts[s] = l] \in KernelState
BY DEF KernelState, KernelType

LEMMA PendingSet ==
    ASSUME NEW k \in KernelState, k.step \in Steps
    PROVE  [k EXCEPT !.pending = TRUE] \in KernelState
BY DEF KernelState, KernelType

LEMMA PendingCleared ==
    ASSUME NEW k \in KernelState
    PROVE  [k EXCEPT !.pending = FALSE] \in KernelState
BY DEF KernelState, KernelType

Untimed(k, s) == [k EXCEPT !.timeouts[s] = NoLease, !.cb = NoCallback]

LEMMA TimeoutCleared ==
    ASSUME NEW k \in KernelState, NEW s \in Steps
    PROVE  Untimed(k, s) \in KernelState
BY BlankTyped DEF Untimed, KernelState, KernelType

AttemptOver(k, s) == [k EXCEPT !.exec[s] = 0, !.cb = NoCallback, !.timeouts[s] = NoLease]

LEMMA AttemptCleared ==
    ASSUME NEW k \in KernelState, NEW s \in Steps
    PROVE  AttemptOver(k, s) \in KernelState
BY BlankTyped DEF AttemptOver, KernelState, KernelType

LEMMA BackoffSet ==
    ASSUME NEW k \in KernelState, NEW s \in Steps, NEW b \in BackoffType
    PROVE  [k EXCEPT !.backoffs[s] = b] \in KernelState
BY DEF KernelState, KernelType, BackoffType

LEMMA RetriesSet ==
    ASSUME NEW k \in KernelState, NEW s \in Steps, NEW r \in Nat, r < MaxAttempts[s]
    PROVE  [k EXCEPT !.retries[s] = r] \in KernelState
<1>1. r \in 0 .. 9
  BY ConstantsAssumption
<1> QED BY <1>1 DEF KernelState, KernelType

Redispatching(k, s, cb) ==
    [k EXCEPT !.backoffs[s].dispatching = TRUE, !.pending = TRUE, !.cb = cb]

LEMMA DispatchingSet ==
    ASSUME NEW k \in KernelState, NEW s \in Steps, k.step = s, NEW cb \in Due \cup {NoCallback}
    PROVE  Redispatching(k, s, cb) \in KernelState
<1>1. cb \in CallbackType
  BY BlankTyped
<1>2. [k.backoffs[s] EXCEPT !.dispatching = TRUE] \in BackoffType
  BY KernelParts DEF BackoffType
<1>3. ASSUME NEW b \in BackoffType
      PROVE  [k EXCEPT !.backoffs[s] = b, !.pending = TRUE, !.cb = cb] \in KernelState
  BY <1>1 DEF KernelState, KernelType, BackoffType
<1> QED BY <1>2, <1>3, Zenon DEF Redispatching

LEMMA LeasesTyped ==
    ASSUME NEW cb \in Due \cup {NoCallback}, NEW b \in BOOLEAN, NEW n \in Nat
    PROVE  /\ cb \in CallbackType
           /\ [cb |-> cb, gen |-> n] \in LeaseType
           /\ [cb |-> cb, lease |-> NoLease, dispatching |-> b] \in BackoffType
           /\ [cb |-> cb, lease |-> [cb |-> cb, gen |-> n], dispatching |-> b] \in BackoffType
           /\ NoBackoff \in BackoffType
<1>1. cb \in CallbackType
  BY BlankTyped
<1>2. [cb |-> cb, gen |-> n] \in LeaseType
  BY <1>1 DEF LeaseType
<1> QED BY <1>1, <1>2, BlankTyped DEF BackoffType, NoBackoff

\* DispatchStepAsync saves, schedules and requests what its types allow.
LEMMA DispatchTyped ==
    ASSUME NEW s \in Steps, NEW k \in KernelState, NEW m \in Envelope, NEW visit \in BOOLEAN,
           ids \in Nat
    PROVE  /\ Dispatched(s, k, m) \in KernelState
           /\ Dispatched(s, k, m).step = s
           /\ [Dispatched(s, k, m) EXCEPT !.pending = TRUE] \in KernelState
           /\ Dispatch(s, k, m, visit) \in Seq(WorkEffect)
<1> DEFINE cb == IF s \in Timed THEN Callback("timeout", s, m.id) ELSE NoCallback
           l == IF s \in Timed THEN [cb |-> cb, gen |-> 0] ELSE k.timeouts[s]
           done == Dispatched(s, k, m)
           waiting == [done EXCEPT !.pending = TRUE]
           first == [waiting EXCEPT !.timeouts[s] = k.timeouts[s]]
           enters == IF visit THEN {s} ELSE {}
           saved == <<[do |-> "save", k |-> first, enters |-> enters]>>
           timer == IF s \in Timed THEN Arm(done.cb, ids + 1) \o Save(waiting) ELSE <<>>
<1>0. ids + 1 \in Nat
  OBVIOUS
<1>1. m.id \in Nat /\ k.timeouts[s] \in LeaseType
  BY DEF Envelope, EnvelopeType, KernelState, KernelType
<1>2. cb \in Due \cup {NoCallback} /\ (s \in Timed => cb \in Due)
  BY <1>1 DEF Callback, Due
<1>3. l \in LeaseType
  BY <1>1, <1>2, LeasesTyped
<1>4. done = [k EXCEPT !.step = s, !.pending = FALSE, !.cb = cb, !.exec[s] = ids + 1,
                       !.timeouts[s] = l]
  BY DEF Dispatched
<1> HIDE DEF cb, l
<1>5. done \in KernelState
  <2>1. Stepped(k, s, cb, ids + 1, l) \in KernelState
    BY <1>0, <1>2, <1>3, StepSet
  <2> QED BY <2>1, <1>4 DEF Stepped
<1>6. done.step = s /\ done.cb = cb
  BY <1>4 DEF KernelState, KernelType
<1> HIDE DEF done
<1>7. waiting \in KernelState
  BY <1>5, <1>6, PendingSet
<1> HIDE DEF waiting
<1>8. first \in KernelState
  BY <1>1, <1>7, TimeoutSet
<1> HIDE DEF first
<1>9. saved \in Seq(WorkEffect)
  <2>1. [do |-> "save", k |-> first, enters |-> enters] \in WorkEffect
    BY <1>8 DEF WorkEffect, SaveEffect
  <2> QED BY <2>1
<1>10. timer \in Seq(WorkEffect)
  <2>1. s \in Timed => Arm(done.cb, ids + 1) \in Seq(WorkEffect)
    BY <1>0, <1>2, <1>6, ArmTyped
  <2>2. Save(waiting) \in Seq(WorkEffect)
    BY <1>7, SaveTyped
  <2>3. <<>> \in Seq(WorkEffect)
    OBVIOUS
  <2> QED BY <2>1, <2>2, <2>3, Joined
<1>11. Request(s, ids + 1, s \in Timed) \in Seq(WorkEffect)
  <2>1. CASE s \in Timed
    <3>1. Request(s, ids + 1, TRUE) \in Seq(WorkEffect)
      BY <1>0, RequestTyped
    <3>2. (s \in Timed) = TRUE
      BY <2>1
    <3> QED BY <3>1, <3>2
  <2>2. CASE s \notin Timed
    <3>1. Request(s, ids + 1, FALSE) \in Seq(WorkEffect)
      BY <1>0, RequestTyped
    <3>2. (s \in Timed) = FALSE
      BY <2>2
    <3> QED BY <3>1, <3>2
  <2> QED BY <2>1, <2>2
<1>12. Save(done) \in Seq(WorkEffect)
  BY <1>5, SaveTyped
<1>13. Dispatch(s, k, m, visit)
           = saved \o timer \o Request(s, ids + 1, s \in Timed) \o Save(done)
  BY DEF Dispatch, saved, timer, first, waiting, done
<1> HIDE DEF saved, timer
<1>14. Dispatch(s, k, m, visit) \in Seq(WorkEffect)
  <2>1. saved \o timer \in Seq(WorkEffect)
    BY <1>9, <1>10, Joined
  <2>2. saved \o timer \o Request(s, ids + 1, s \in Timed) \in Seq(WorkEffect)
    BY <2>1, <1>11, Joined
  <2> QED BY <2>2, <1>12, <1>13, Joined
<1> QED BY <1>5, <1>6, <1>7, <1>14 DEF done, waiting

LEMMA ResumeTyped ==
    ASSUME NEW k \in KernelState, k.pending
    PROVE  Resume(k) \in Seq(WorkEffect)
<1> DEFINE s == k.step
           arms == k.timeouts[s] = NoLease /\ k.cb # NoCallback
           waiting == IF arms THEN [k EXCEPT !.timeouts[s] = [cb |-> k.cb, gen |-> 0]] ELSE k
           timer == IF arms THEN Arm(k.cb, k.exec[s]) \o Save(waiting) ELSE <<>>
           ready == [waiting EXCEPT !.pending = FALSE]
<1>1. s \in Steps /\ k.exec[s] \in Nat /\ arms \in BOOLEAN
  BY DEF KernelState, KernelType
<1>2. k.cb \in Due \cup {NoCallback} /\ (arms => k.cb \in Due)
  BY DEF KernelState
<1>3. [cb |-> k.cb, gen |-> 0] \in LeaseType
  BY <1>2, LeasesTyped
<1>4. waiting \in KernelState
  BY <1>1, <1>3, TimeoutSet
<1>5. Resume(k) = timer \o Request(s, k.exec[s], arms) \o Save(ready)
  BY DEF Resume
<1> HIDE DEF arms, waiting
<1>6. ready \in KernelState
  BY <1>4, PendingCleared
<1>7. timer \in Seq(WorkEffect)
  <2>1. arms => Arm(k.cb, k.exec[s]) \in Seq(WorkEffect)
    BY <1>1, <1>2, ArmTyped
  <2>2. Save(waiting) \in Seq(WorkEffect)
    BY <1>4, SaveTyped
  <2>3. <<>> \in Seq(WorkEffect)
    OBVIOUS
  <2> QED BY <2>1, <2>2, <2>3, Joined
<1>8. Request(s, k.exec[s], arms) \in Seq(WorkEffect) /\ Save(ready) \in Seq(WorkEffect)
  BY <1>1, <1>6, RequestTyped, SaveTyped
<1> HIDE DEF timer
<1>9. timer \o Request(s, k.exec[s], arms) \in Seq(WorkEffect)
  BY <1>7, <1>8, Joined
<1> QED BY <1>5, <1>8, <1>9, Joined

-----------------------------------------------------------------------------
(* What is left of a handler after its next effect                         *)

LEMMA ThreeJoined ==
    ASSUME NEW a, NEW b, NEW c
    PROVE  <<a>> \o <<b, c>> = <<a, b, c>>
<1>1. <<a>> \in Seq({a, b, c}) /\ <<b, c>> \in Seq({a, b, c}) /\ <<a, b, c>> \in Seq({a, b, c})
  OBVIOUS
<1> DEFINE d == <<a>> \o <<b, c>>
<1>2. /\ d \in Seq({a, b, c}) /\ Len(d) = 3
      /\ d[1] = a /\ d[2] = b /\ d[3] = c
  BY <1>1, ConcatProperties
<1> HIDE DEF d
<1>3. \A i \in 1 .. Len(d) : d[i] = <<a, b, c>>[i]
  BY <1>2
<1> QED BY <1>1, <1>2, <1>3, SeqEqual DEF d

\* Taking the first element off a concatenation.
LEMMA JoinedTail ==
    ASSUME NEW S, NEW x \in Seq(S), NEW y \in Seq(S), x # <<>>
    PROVE  x \o y # <<>> /\ Head(x \o y) = Head(x) /\ Tail(x \o y) = Tail(x) \o y
<1> DEFINE z == x \o y
<1>1. z \in Seq(S) /\ Len(z) = Len(x) + Len(y) /\ Len(x) \in Nat /\ Len(x) >= 1 /\ Len(y) \in Nat
  BY ConcatProperties
<1>2. \A i \in 1 .. Len(x) + Len(y) : z[i] = IF i <= Len(x) THEN x[i] ELSE y[i - Len(x)]
  BY ConcatProperties
<1>3. z # <<>> /\ Head(z) = Head(x)
  BY <1>1, <1>2
<1>4. /\ Tail(z) \in Seq(S) /\ Len(Tail(z)) = Len(z) - 1
      /\ \A i \in 1 .. Len(Tail(z)) : Tail(z)[i] = z[i + 1]
  BY <1>1, <1>3, HeadTailProperties
<1>5. /\ Tail(x) \in Seq(S) /\ Len(Tail(x)) = Len(x) - 1
      /\ \A i \in 1 .. Len(Tail(x)) : Tail(x)[i] = x[i + 1]
  BY HeadTailProperties
<1> DEFINE w == Tail(x) \o y
<1>6. /\ w \in Seq(S) /\ Len(w) = Len(Tail(x)) + Len(y)
      /\ \A i \in 1 .. Len(Tail(x)) + Len(y) :
             w[i] = IF i <= Len(Tail(x)) THEN Tail(x)[i] ELSE y[i - Len(Tail(x))]
  BY <1>5, ConcatProperties
<1> HIDE DEF z, w
<1>7. \A i \in 1 .. Len(Tail(z)) : Tail(z)[i] = w[i]
  <2> SUFFICES ASSUME NEW i \in 1 .. Len(Tail(z))
               PROVE  Tail(z)[i] = w[i]
    OBVIOUS
  <2>1. Tail(z)[i] = z[i + 1] /\ i \in Nat /\ i + 1 \in 1 .. Len(x) + Len(y)
    BY <1>1, <1>4
  <2>2. CASE i + 1 <= Len(x)
    <3>1. z[i + 1] = x[i + 1] /\ i \in 1 .. Len(Tail(x))
      BY <1>1, <1>2, <1>5, <2>1, <2>2
    <3> QED BY <1>1, <1>5, <1>6, <2>1, <3>1
  <2>3. CASE ~(i + 1 <= Len(x))
    <3>1. z[i + 1] = y[i + 1 - Len(x)] /\ ~(i <= Len(Tail(x))) /\ i - Len(Tail(x)) = i + 1 - Len(x)
      BY <1>1, <1>2, <1>5, <2>1, <2>3
    <3>2. i \in 1 .. Len(Tail(x)) + Len(y)
      BY <1>1, <1>5, <2>1
    <3> QED BY <1>6, <2>1, <3>1, <3>2
  <2> QED BY <2>2, <2>3
<1>8. Tail(z) = w
  BY <1>1, <1>4, <1>5, <1>6, <1>7, SeqEqual
<1> QED BY <1>3, <1>8 DEF z, w

\* The last two effects of a run that ends: its outcome, to itself and its parent.
LEMMA ClosingForm ==
    ASSUME NEW c, Closing(c)
    PROVE  \E m \in Envelope :
               /\ m.type = "runCompleted" /\ m.result \in OutcomeKinds
               /\ c = <<[do |-> "post", m |-> m], [do |-> "tell", m |-> m]>>
<1>1. PICK result \in OutcomeKinds, s \in Steps \cup {NoStep} : c = Outcome(result, s)
  BY DEF Closing
<1> QED BY <1>1, OutcomeTyped

LEMMA CancellingForm ==
    ASSUME NEW c, Cancelling(c)
    PROVE  \E leases \in SUBSET LeaseType, m \in Envelope :
               /\ m.type = "runCompleted" /\ m.result \in OutcomeKinds
               /\ c = <<[do |-> "cancel", leases |-> leases],
                        [do |-> "post", m |-> m], [do |-> "tell", m |-> m]>>
<1>0. PICK leases \in SUBSET LeaseType : \E d : Closing(d) /\ c = CancelAll(leases) \o d
  BY DEF Cancelling
<1>1. PICK d : Closing(d) /\ c = CancelAll(leases) \o d
  BY <1>0
<1>2. PICK m \in Envelope :
          /\ m.type = "runCompleted" /\ m.result \in OutcomeKinds
          /\ d = <<[do |-> "post", m |-> m], [do |-> "tell", m |-> m]>>
  BY <1>1, ClosingForm
<1> DEFINE e1 == [do |-> "cancel", leases |-> leases]
           e2 == [do |-> "post", m |-> m]
           e3 == [do |-> "tell", m |-> m]
<1>3. c = <<e1>> \o <<e2, e3>>
  BY <1>1, <1>2 DEF CancelAll
<1> HIDE DEF e1, e2, e3
<1>4. c = <<e1, e2, e3>>
  BY <1>3, ThreeJoined
<1> QED BY <1>2, <1>4 DEF e1, e2, e3

LEMMA TellingForm ==
    ASSUME NEW c, Telling(c)
    PROVE  \E m \in Envelope :
               /\ m.type = "runCompleted" /\ m.result \in OutcomeKinds
               /\ c = <<[do |-> "tell", m |-> m]>>
<1>1. PICK d : Closing(d) /\ c = Tail(d)
  BY DEF Telling
<1>2. PICK m \in Envelope :
          /\ m.type = "runCompleted" /\ m.result \in OutcomeKinds
          /\ d = <<[do |-> "post", m |-> m], [do |-> "tell", m |-> m]>>
  BY <1>1, ClosingForm
<1> QED BY <1>1, <1>2

\* The step from the cleared state to its outcome.
LEMMA FinishingStep ==
    ASSUME NEW t, Finishing(t)
    PROVE  /\ t # <<>>
           /\ \/ Head(t) \in WorkEffect /\ Finishing(Tail(t))
              \/ Head(t) = [do |-> "save", k |-> Idle, enters |-> {}] /\ Cancelling(Tail(t))
<1>0. PICK p \in Seq(WorkEffect) : \E c : Cancelling(c) /\ t = p \o (Save(Idle) \o c)
  BY DEF Finishing
<1>1. PICK c : Cancelling(c) /\ t = p \o (Save(Idle) \o c)
  BY <1>0
<1>2. PICK leases \in SUBSET LeaseType, m \in Envelope :
          /\ m.type = "runCompleted"
          /\ c = <<[do |-> "cancel", leases |-> leases],
                   [do |-> "post", m |-> m], [do |-> "tell", m |-> m]>>
  BY <1>1, CancellingForm
<1> DEFINE saved == [do |-> "save", k |-> Idle, enters |-> {}]
           S == WorkEffect \cup EndEffect \cup {saved}
<1>3. c \in Seq(S)
  <2>1. [do |-> "cancel", leases |-> leases] \in S
    BY DEF WorkEffect, CancelEffect
  <2>2. [do |-> "post", m |-> m] \in S /\ [do |-> "tell", m |-> m] \in S
    BY <1>2 DEF EndEffect
  <2> QED BY <1>2, <2>1, <2>2
<1>4. p \in Seq(S) /\ Save(Idle) \in Seq(S) /\ Save(Idle) # <<>> /\ Save(Idle) = <<saved>>
  BY DEF Save
<1>5. Save(Idle) \o c \in Seq(S) /\ Save(Idle) \o c # <<>>
  BY <1>3, <1>4, ConcatProperties, JoinedTail
<1>6. CASE p = <<>>
  <2>1. t = Save(Idle) \o c
    BY <1>1, <1>5, <1>6, ConcatEmptySeq
  <2>2. Head(t) = Head(Save(Idle)) /\ Tail(t) = Tail(Save(Idle)) \o c
    BY <2>1, <1>3, <1>4, JoinedTail
  <2>3. Head(Save(Idle)) = saved /\ Tail(Save(Idle)) = <<>>
    BY <1>4
  <2>4. Tail(t) = c
    BY <2>2, <2>3, <1>3, ConcatEmptySeq
  <2> QED BY <1>1, <1>5, <2>1, <2>2, <2>3, <2>4
<1>7. CASE p # <<>>
  <2>1. t # <<>> /\ Head(t) = Head(p) /\ Tail(t) = Tail(p) \o (Save(Idle) \o c)
    BY <1>1, <1>4, <1>5, <1>7, JoinedTail
  <2>2. Head(p) \in WorkEffect /\ Tail(p) \in Seq(WorkEffect)
    BY <1>7
  <2>3. Finishing(Tail(t))
    BY <1>1, <2>1, <2>2 DEF Finishing
  <2> QED BY <2>1, <2>2, <2>3
<1> QED BY <1>6, <1>7

\* A prefix of work before work, or before the end of a run.
LEMMA CoursePrefixed ==
    ASSUME NEW x \in Seq(WorkEffect), NEW y, Course(y)
    PROVE  Course(x \o y)
<1>1. CASE y \in Seq(WorkEffect)
  BY <1>1, Joined DEF Course
<1>2. CASE Finishing(y)
  <2>0. PICK p \in Seq(WorkEffect) : \E c : Cancelling(c) /\ y = p \o (Save(Idle) \o c)
    BY <1>2 DEF Finishing
  <2>1. PICK c : Cancelling(c) /\ y = p \o (Save(Idle) \o c)
    BY <2>0
  <2>2. PICK leases \in SUBSET LeaseType, m \in Envelope :
            /\ m.type = "runCompleted"
            /\ c = <<[do |-> "cancel", leases |-> leases],
                     [do |-> "post", m |-> m], [do |-> "tell", m |-> m]>>
    BY <2>1, CancellingForm
  <2> DEFINE saved == [do |-> "save", k |-> Idle, enters |-> {}]
             S == WorkEffect \cup EndEffect \cup {saved}
  <2>3. c \in Seq(S)
    <3>1. [do |-> "cancel", leases |-> leases] \in S
      BY DEF WorkEffect, CancelEffect
    <3>2. [do |-> "post", m |-> m] \in S /\ [do |-> "tell", m |-> m] \in S
      BY <2>2 DEF EndEffect
    <3> QED BY <2>2, <3>1, <3>2
  <2>4. x \in Seq(S) /\ p \in Seq(S) /\ Save(Idle) \in Seq(S)
    BY DEF Save
  <2>5. Save(Idle) \o c \in Seq(S)
    BY <2>3, <2>4, Joined
  <2> DEFINE z == Save(Idle) \o c
  <2>6. x \o y = (x \o p) \o z
    <3>1. y = p \o z
      BY <2>1
    <3>2. z \in Seq(S)
      BY <2>5
    <3> HIDE DEF z, S
    <3>3. (x \o p) \o z = x \o (p \o z)
      BY <2>4, <3>2, ConcatAssociative
    <3> QED BY <3>1, <3>3
  <2>7. x \o p \in Seq(WorkEffect)
    BY Joined
  <2> QED BY <2>1, <2>6, <2>7 DEF Finishing, Course
<1> QED BY <1>1, <1>2 DEF Course

LEMMA EndTyped ==
    ASSUME NEW k \in KernelState, NEW result \in OutcomeKinds, NEW s \in Steps \cup {NoStep}
    PROVE  Course(Cleanup(k) \o Outcome(result, s))
<1> DEFINE leases == ({k.timeouts[r] : r \in Steps} \cup {k.backoffs[r].lease : r \in Steps})
                     \ {NoLease}
           cancel == CancelAll(leases)
           o == Outcome(result, s)
           saved == [do |-> "save", k |-> Idle, enters |-> {}]
           S == WorkEffect \cup EndEffect \cup {saved}
<1>1. leases \in SUBSET LeaseType
  BY DEF KernelState, KernelType
<1>2. Cancelling(cancel \o o)
  <2>1. Closing(o)
    BY DEF Closing
  <2> HIDE DEF leases
  <2> QED BY <1>1, <2>1 DEF Cancelling
<1>3. cancel \in Seq(S) /\ Save(Idle) \in Seq(S)
  <2>1. [do |-> "cancel", leases |-> leases] \in S
    BY <1>1 DEF WorkEffect, CancelEffect
  <2> QED BY <2>1 DEF Save, CancelAll
<1>4. o \in Seq(S)
  <2>1. PICK m \in Envelope :
            /\ m.type = "runCompleted"
            /\ o = <<[do |-> "post", m |-> m], [do |-> "tell", m |-> m]>>
    BY OutcomeTyped
  <2>2. [do |-> "post", m |-> m] \in S /\ [do |-> "tell", m |-> m] \in S
    BY <2>1 DEF EndEffect
  <2> QED BY <2>1, <2>2
<1>5. Cleanup(k) = Save(Idle) \o cancel
  BY DEF Cleanup, CancelAll
<1> HIDE DEF cancel, o
<1>6. Cleanup(k) \o o = Save(Idle) \o (cancel \o o)
  BY <1>3, <1>4, <1>5, ConcatAssociative
<1>7. cancel \o o \in Seq(S) /\ Save(Idle) \o (cancel \o o) \in Seq(S)
  BY <1>3, <1>4, Joined
<1>8. Save(Idle) \o (cancel \o o) = <<>> \o (Save(Idle) \o (cancel \o o))
  BY <1>7, ConcatEmptySeq
<1>9. <<>> \in Seq(WorkEffect)
  OBVIOUS
<1> QED BY <1>2, <1>6, <1>8, <1>9 DEF Finishing, Course, o, cancel

-----------------------------------------------------------------------------
(* What the handlers begin with                                            *)

LEMMA NoWork == <<>> \in Seq(WorkEffect)
OBVIOUS

\* Work and then more of it.
LEMMA MoreWork ==
    ASSUME NEW x \in Seq(WorkEffect), NEW y \in Seq(WorkEffect)
    PROVE  x \o y \in Seq(WorkEffect)
BY Joined

LEMMA ResumeAgainTyped ==
    ASSUME NEW k \in KernelState, k.pending
    PROVE  Resume(k) \o Again \in Seq(WorkEffect)
BY ResumeTyped, AgainTyped, MoreWork

LEMMA StartTyped ==
    ASSUME NEW m \in Envelope, kernel \in KernelState, ids \in Nat
    PROVE  HandleStart(m) \in Seq(WorkEffect) \/ HandleStart(m) = Outcome("active", NoStep)
<1> DEFINE k == [Idle EXCEPT !.active = TRUE]
<1>1. k \in KernelState
  BY IdleTyped DEF KernelState, KernelType
<1> HIDE DEF k
<1>2. Save(k) \in Seq(WorkEffect) /\ Dispatch(Entry, k, m, TRUE) \in Seq(WorkEffect)
  BY <1>1, SaveTyped, DispatchTyped, ConstantsAssumption
<1>3. Save(k) \o Dispatch(Entry, k, m, TRUE) \in Seq(WorkEffect)
  BY <1>2, MoreWork
<1>4. kernel.pending => Resume(kernel) \in Seq(WorkEffect)
  BY ResumeTyped
<1> QED BY <1>3, <1>4, NoWork DEF HandleStart, k

LEMMA TimeoutTyped ==
    ASSUME NEW m \in Envelope, m.type = "timeout", kernel \in KernelState, modules \in BOOLEAN
    PROVE  HandleTimeout(m) \in Seq(WorkEffect)
<1> DEFINE c == [Blank EXCEPT !.type = "completed", !.step = m.step, !.result = "timeout",
                              !.attempt = m.attempt]
           k == Untimed(kernel, m.step)
<1>1. m.step \in Steps /\ m.attempt \in Nat
  BY DEF Envelope, EnvelopeType
<1>2. c \in EnvelopeType /\ c.type = "completed" /\ c.step = m.step /\ c.result = "timeout"
  BY <1>1, BlankTyped DEF EnvelopeType, Blank, OutcomeKinds
<1>3. c \in Envelope
  BY <1>1, <1>2 DEF Envelope
<1>4. k \in KernelState
  BY <1>1, TimeoutCleared
<1> HIDE DEF c, k
<1>5. Post(c) \o Save(k) \in Seq(WorkEffect)
  BY <1>2, <1>3, <1>4, PostTyped, SaveTyped, MoreWork
<1>6. Resumes(m) => Resume(kernel) \o Again \in Seq(WorkEffect)
  BY ResumeAgainTyped DEF Resumes
<1> QED BY <1>5, <1>6, NoWork DEF HandleTimeout, Untimed, c, k

LEMMA ProceedTyped ==
    ASSUME NEW k \in KernelState, NEW m \in Envelope, m.type = "completed", ids \in Nat,
           NEW next \in Steps \cup {Done, Invalid}
    PROVE  Course(Proceed(next, k, m))
<1>1. m.step \in Steps
  BY DEF Envelope
<1>2. Course(Cleanup(k) \o Outcome("ok", m.step)) /\ Course(Cleanup(k) \o Outcome("invalid", m.step))
  BY <1>1, EndTyped DEF OutcomeKinds
<1>3. next \in Steps => Dispatch(next, k, m, TRUE) \in Seq(WorkEffect)
  BY DispatchTyped
<1>4. CASE next = Done
  BY <1>2, <1>4 DEF Proceed
<1>5. CASE next # Done /\ next = Invalid
  BY <1>2, <1>5 DEF Proceed
<1>6. CASE next # Done /\ next # Invalid
  BY <1>3, <1>6 DEF Proceed, Course
<1> QED BY <1>4, <1>5, <1>6

LEMMA RetryTyped ==
    ASSUME NEW s \in Steps, NEW k \in KernelState, NEW m \in Envelope, ids \in Nat,
           RetriesLeft(s, k)
    PROVE  TryRetry(s, k, m) \in Seq(WorkEffect)
<1>1. k.retries[s] \in Nat /\ k.retries[s] + 1 < MaxAttempts[s] /\ MaxAttempts[s] \in Nat
      /\ k.exec[s] \in Nat /\ m.id \in Nat
  <2>1. k \in KernelType
    BY DEF KernelState
  <2>2. k.retries[s] \in Nat /\ k.exec[s] \in Nat
    BY <2>1 DEF KernelType
  <2>3. m \in EnvelopeType
    BY DEF Envelope
  <2>4. m.id \in Nat
    BY <2>3 DEF EnvelopeType
  <2>5. MaxAttempts[s] \in Nat
    BY ConstantsAssumption DEF ConstantsAssumption
  <2> QED BY <2>2, <2>4, <2>5 DEF RetriesLeft
<1>2. k.retries[s] + 1 \in Nat
  BY <1>1
<1>3. CASE s \in Delayed
  <2> DEFINE cb == Callback("backoff", s, m.id)
             unleased == [cb |-> cb, lease |-> NoLease, dispatching |-> FALSE]
             b == [unleased EXCEPT !.lease = [cb |-> cb, gen |-> 0]]
             waiting == [k EXCEPT !.backoffs[s] = unleased]
             leased == [k EXCEPT !.backoffs[s] = b]
             counted == [leased EXCEPT !.retries[s] = @ + 1]
  <2>1. cb \in Due
    BY <1>1 DEF Callback, Due
  <2>2. unleased \in BackoffType
    BY <2>1, LeasesTyped
  <2>3. [cb |-> cb, gen |-> 0] \in LeaseType
    BY <2>1, LeasesTyped
  <2> HIDE DEF cb, unleased
  <2>4. b \in BackoffType
    BY <2>2, <2>3 DEF BackoffType
  <2> HIDE DEF b
  <2>5. waiting \in KernelState /\ leased \in KernelState
    BY <2>2, <2>4, BackoffSet
  <2>6. leased.retries = k.retries
    BY DEF KernelState, KernelType
  <2> HIDE DEF leased
  <2>7. counted \in KernelState
    BY <1>1, <1>2, <2>5, <2>6, RetriesSet
  <2> HIDE DEF waiting, counted
  <2>8. Save(waiting) \o Arm(cb, k.exec[s]) \in Seq(WorkEffect)
    BY <1>1, <2>1, <2>5, SaveTyped, ArmTyped, MoreWork
  <2>9. Save(waiting) \o Arm(cb, k.exec[s]) \o Save(leased) \in Seq(WorkEffect)
    BY <2>5, <2>8, SaveTyped, MoreWork
  <2>10. Save(waiting) \o Arm(cb, k.exec[s]) \o Save(leased) \o Save(counted) \in Seq(WorkEffect)
    BY <2>7, <2>9, SaveTyped, MoreWork
  <2> QED BY <1>3, <2>10 DEF TryRetry, StartRetryBackoff, waiting, leased, counted, cb, b, unleased
<1>4. CASE s \notin Delayed
  <2> DEFINE counted == [k EXCEPT !.retries[s] = @ + 1]
  <2>1. counted \in KernelState
    BY <1>1, <1>2, RetriesSet
  <2> HIDE DEF counted
  <2>2. Save(counted) \o Dispatch(s, counted, m, FALSE) \in Seq(WorkEffect)
    BY <2>1, SaveTyped, DispatchTyped, MoreWork
  <2> QED BY <1>4, <2>2 DEF TryRetry, counted
<1> QED BY <1>3, <1>4

LEMMA OnErrorTyped ==
    ASSUME NEW s \in Steps, NEW k \in KernelState, NEW m \in Envelope, m.type = "completed",
           ids \in Nat
    PROVE  Course(TryOnError(s, k, m))
<1> DEFINE forgiven == [k EXCEPT !.retries[s] = 0]
<1>1. 0 < MaxAttempts[s] /\ Default[s] \in Steps \cup {Done, Invalid}
      /\ OnError[s] \in Steps \cup {"fail", "skip"}
  BY ConstantsAssumption
<1>2. forgiven \in KernelState
  BY <1>1, RetriesSet
<1> HIDE DEF forgiven
<1>3. Course(Cleanup(k) \o Outcome("error", s))
  BY EndTyped DEF OutcomeKinds
<1>4. Course(Save(forgiven) \o Proceed(Default[s], forgiven, m))
  BY <1>1, <1>2, SaveTyped, ProceedTyped, CoursePrefixed
<1>5. OnError[s] \in Steps => Save(forgiven) \o Dispatch(OnError[s], forgiven, m, TRUE) \in Seq(WorkEffect)
  BY <1>2, SaveTyped, DispatchTyped, MoreWork
<1>6. CASE OnError[s] = "fail"
  BY <1>3, <1>6 DEF TryOnError
<1>7. CASE OnError[s] # "fail" /\ OnError[s] = "skip"
  BY <1>4, <1>7 DEF TryOnError, forgiven
<1>8. CASE OnError[s] # "fail" /\ OnError[s] # "skip"
  BY <1>1, <1>5, <1>8 DEF TryOnError, forgiven, Course
<1> QED BY <1>6, <1>7, <1>8

LEMMA StepFailedTyped ==
    ASSUME NEW s \in Steps, NEW k \in KernelState, NEW m \in Envelope, m.type = "completed",
           ids \in Nat
    PROVE  Course(StepFailed(s, k, m))
<1>1. Course(Cleanup(k) \o Outcome("timeout", s))
  BY EndTyped DEF OutcomeKinds
<1>2. RetriesLeft(s, k) => Course(TryRetry(s, k, m))
  BY RetryTyped DEF Course
<1>3. Course(TryOnError(s, k, m))
  BY OnErrorTyped
<1> QED BY <1>1, <1>2, <1>3 DEF StepFailed

LEMMA CompletedTyped ==
    ASSUME NEW m \in Envelope, m.type = "completed", kernel \in KernelState, ids \in Nat
    PROVE  Course(HandleCompleted(m))
<1> DEFINE s == m.step
           k == AttemptOver(kernel, s)
           backoff == kernel.backoffs[s]
           unwaiting == [k EXCEPT !.backoffs[s] = NoBackoff]
           succeeded == [unwaiting EXCEPT !.retries[s] = 0]
           cancelTimeout == Save(k) \o Cancel(kernel.timeouts[s])
           cancelBackoff == IF backoff = NoBackoff THEN <<>>
                            ELSE Save(unwaiting) \o Cancel(backoff.lease)
<1>1. s \in Steps /\ (m.result = "ok" => m.next \in Steps \cup {Done, Invalid})
  BY DEF Envelope
<1>2. kernel.timeouts[s] \in LeaseType /\ backoff.lease \in LeaseType /\ 0 < MaxAttempts[s]
  BY <1>1, KernelParts
<1>3. k \in KernelState
  BY <1>1, AttemptCleared
<1>4. NoBackoff \in BackoffType
  BY LeasesTyped
<1> HIDE DEF s, k, backoff
<1>5. unwaiting \in KernelState
  BY <1>1, <1>3, <1>4, BackoffSet
<1> HIDE DEF unwaiting
<1>6. succeeded \in KernelState
  BY <1>1, <1>2, <1>5, RetriesSet
<1> HIDE DEF succeeded
<1>7. cancelTimeout \in Seq(WorkEffect)
  BY <1>2, <1>3, SaveTyped, CancelTyped, MoreWork
<1>8. cancelBackoff \in Seq(WorkEffect)
  BY <1>2, <1>5, NoWork, SaveTyped, CancelTyped, MoreWork
<1>9. HandleCompleted(m) =
          IF Stale(m) THEN <<>>
          ELSE IF Resumes(m) THEN Resume(kernel) \o Again
          ELSE IF m.result = "ok"
          THEN cancelTimeout \o cancelBackoff \o Save(succeeded) \o Proceed(m.next, succeeded, m)
          ELSE IF backoff # NoBackoff THEN cancelTimeout
          ELSE cancelTimeout \o StepFailed(s, k, m)
  BY DEF HandleCompleted, AttemptOver, s, k, backoff, unwaiting, succeeded
<1> HIDE DEF cancelTimeout, cancelBackoff
<1>10. Resumes(m) => Course(Resume(kernel) \o Again)
  BY ResumeAgainTyped DEF Resumes, Course
<1>11. m.result = "ok" =>
           Course(cancelTimeout \o cancelBackoff \o Save(succeeded) \o Proceed(m.next, succeeded, m))
  <2>1. cancelTimeout \o cancelBackoff \in Seq(WorkEffect)
    BY <1>7, <1>8, MoreWork
  <2>2. cancelTimeout \o cancelBackoff \o Save(succeeded) \in Seq(WorkEffect)
    BY <1>6, <2>1, SaveTyped, MoreWork
  <2>3. m.result = "ok" => Course(Proceed(m.next, succeeded, m))
    BY <1>1, <1>6, ProceedTyped
  <2> QED BY <2>2, <2>3, CoursePrefixed
<1>12. Course(cancelTimeout \o StepFailed(s, k, m))
  BY <1>1, <1>3, <1>7, StepFailedTyped, CoursePrefixed
<1>13. Course(<<>>) /\ Course(cancelTimeout)
  BY <1>7, NoWork DEF Course
<1> QED BY <1>9, <1>10, <1>11, <1>12, <1>13

LEMMA BackoffTyped ==
    ASSUME NEW m \in Envelope, m.type = "backoff", kernel \in KernelState, ids \in Nat
    PROVE  HandleBackoff(m) \in Seq(WorkEffect)
<1> DEFINE s == m.step
           cleared == [kernel EXCEPT !.backoffs[m.step] = NoBackoff]
<1>1. s \in Steps /\ m.id \in Nat /\ NoBackoff \in BackoffType
  BY LeasesTyped DEF Envelope, EnvelopeType
<1>2. cleared \in KernelState
  BY <1>1, BackoffSet
<1> HIDE DEF cleared
<1>3. Save(cleared) \in Seq(WorkEffect)
  BY <1>2, SaveTyped
<1>4. Resumes(m) => Resume(kernel) \o Again \in Seq(WorkEffect)
  BY ResumeAgainTyped DEF Resumes
<1>5. kernel.pending => Resume(kernel) \o Again \in Seq(WorkEffect)
  BY ResumeAgainTyped
<1>6. ASSUME kernel.step = s
      PROVE  Redispatch(s, m) \in Seq(WorkEffect)
  <2> DEFINE cb == IF s \in Timed THEN Callback("timeout", s, m.id) ELSE NoCallback
             k == Redispatching(kernel, s, cb)
             done == [Dispatched(s, k, m) EXCEPT !.backoffs[s] = NoBackoff]
  <2>1. cb \in Due \cup {NoCallback}
    BY <1>1 DEF Callback, Due
  <2> HIDE DEF cb
  <2>2. k \in KernelState
    BY <1>1, <1>6, <2>1, DispatchingSet
  <2> HIDE DEF k
  <2>3. Dispatched(s, k, m) \in KernelState
    BY <1>1, <2>2, DispatchTyped
  <2>4. done \in KernelState
    BY <1>1, <2>3, BackoffSet
  <2> HIDE DEF done
  <2>5. Save(k) \o Dispatch(s, k, m, FALSE) \in Seq(WorkEffect)
    BY <1>1, <2>2, SaveTyped, DispatchTyped, MoreWork
  <2>6. Save(k) \o Dispatch(s, k, m, FALSE) \o Save(done) \in Seq(WorkEffect)
    BY <2>4, <2>5, SaveTyped, MoreWork
  <2> QED BY <2>6 DEF Redispatch, Redispatching, k, cb, done
<1> QED BY <1>3, <1>4, <1>5, <1>6, NoWork DEF HandleBackoff, cleared, s

\* The agent's handlers, and the kernel's own when a stop finds the run over.
LEMMA AgentTyped ==
    ASSUME NEW m \in Envelope, kernel \in KernelState
    PROVE  /\ HandleChatRequest(m) \in AgentTodos
           /\ HandleWorkflowCompleted(m) \in AgentTodos
           /\ \/ HandleStopped(m) = Persist("stopped") \o Disable
              \/ HandleStopped(m) \in Seq(WorkEffect)
<1>1. HandleChatRequest(m) \in AgentTodos
  BY DEF HandleChatRequest, AgentTodos, StartMessage
<1>2. HandleWorkflowCompleted(m) \in AgentTodos
  BY DEF HandleWorkflowCompleted, AgentTodos, Terminal
<1>3. Cleanup(kernel) \in Seq(WorkEffect)
  BY CleanupTyped
<1> QED BY <1>1, <1>2, <1>3, NoWork DEF HandleStopped, AgentTodos, Terminal

LEMMA HandlerTyped ==
    ASSUME NEW m \in Envelope, m.type # "request", kernel \in KernelState, ids \in Nat,
           modules \in BOOLEAN
    PROVE  KernelTodo(Handler(m)) \/ Handler(m) \in AgentTodos
<1>1. m.type \in HandlerTypes
  BY DEF Envelope, EnvelopeType, HandlerTypes
<1>2. CASE m.type = "chat"
  BY <1>2, AgentTyped DEF Handler
<1>3. CASE m.type = "start"
  <2>1. Closing(Outcome("active", NoStep))
    BY DEF Closing, OutcomeKinds
  <2> QED BY <1>3, <2>1, StartTyped DEF Handler, KernelTodo, Course
<1>4. CASE m.type = "timeout"
  BY <1>4, TimeoutTyped DEF Handler, KernelTodo, Course
<1>5. CASE m.type = "backoff"
  BY <1>5, BackoffTyped DEF Handler, KernelTodo, Course
<1>6. CASE m.type = "completed"
  BY <1>6, CompletedTyped DEF Handler, KernelTodo
<1>7. CASE m.type = "runCompleted"
  BY <1>7, AgentTyped DEF Handler
<1>8. CASE m.type = "stop"
  <2>1. Persist("stopped") \o Disable \in AgentTodos
    BY DEF AgentTodos, Terminal
  <2> QED BY <1>8, <2>1, AgentTyped DEF Handler, KernelTodo, Course
<1> QED BY <1>1, <1>2, <1>3, <1>4, <1>5, <1>6, <1>7, <1>8 DEF HandlerTypes

PersistEffect == [do : {"persist"}, status : {"running"} \cup Terminal]
DisableEffect == [do : {"disable"}]
OpenEffect == [do : {"post"}, m : {StartMessage}]

LEMMA TwoTail ==
    ASSUME NEW a, NEW b
    PROVE  <<a, b>> # <<>> /\ Head(<<a, b>>) = a /\ Tail(<<a, b>>) = <<b>>
<1>1. <<a>> \in Seq({a, b}) /\ <<b>> \in Seq({a, b}) /\ <<a>> # <<>>
      /\ Head(<<a>>) = a /\ Tail(<<a>>) = <<>>
  OBVIOUS
<1>2. <<a>> \o <<b>> # <<>> /\ Head(<<a>> \o <<b>>) = a /\ Tail(<<a>> \o <<b>>) = <<>> \o <<b>>
  BY <1>1, JoinedTail
<1>3. <<>> \o <<b>> = <<b>>
  BY <1>1, ConcatEmptySeq
<1> QED BY <1>2, <1>3, TwoJoined

LEMMA ThreeTail ==
    ASSUME NEW a, NEW b, NEW c
    PROVE  <<a, b, c>> # <<>> /\ Head(<<a, b, c>>) = a /\ Tail(<<a, b, c>>) = <<b, c>>
<1>1. <<a>> \in Seq({a, b, c}) /\ <<b, c>> \in Seq({a, b, c}) /\ <<a>> # <<>>
      /\ Head(<<a>>) = a /\ Tail(<<a>>) = <<>>
  OBVIOUS
<1> DEFINE d == <<b, c>>
<1>2. d \in Seq({a, b, c}) /\ <<a>> \o d = <<a, b, c>>
  BY <1>1, ThreeJoined
<1> HIDE DEF d
<1>3. <<a>> \o d # <<>> /\ Head(<<a>> \o d) = a /\ Tail(<<a>> \o d) = <<>> \o d
  BY <1>1, <1>2, JoinedTail
<1>4. <<>> \o d = d
  BY <1>2, ConcatEmptySeq
<1> QED BY <1>2, <1>3, <1>4 DEF d

\* What the agent's handlers have left to do, effect by effect.
LEMMA AgentForms ==
    ASSUME NEW t \in AgentTodos
    PROVE  /\ t # <<>>
           /\ \/ /\ t = <<[do |-> "persist", status |-> "running"],
                          [do |-> "post", m |-> StartMessage]>>
                 /\ Tail(t) = Post(StartMessage)
              \/ t = <<[do |-> "post", m |-> StartMessage]>> /\ Tail(t) = <<>>
              \/ \E st \in Terminal :
                     /\ t = <<[do |-> "persist", status |-> st], [do |-> "disable"]>>
                     /\ Tail(t) = Disable
              \/ t = <<[do |-> "disable"]>> /\ Tail(t) = <<>>
<1>1. CASE t = Persist("running") \o Post(StartMessage)
  <2> DEFINE e == [do |-> "persist", status |-> "running"]
             f == [do |-> "post", m |-> StartMessage]
  <2>1. t = <<e>> \o <<f>>
    BY <1>1 DEF Persist, Post
  <2> HIDE DEF e, f
  <2>2. t = <<e, f>> /\ Tail(<<e, f>>) = <<f>>
    BY <2>1, TwoJoined, TwoTail
  <2> QED BY <2>2 DEF e, f, Post
<1>2. CASE t = Post(StartMessage)
  BY <1>2 DEF Post
<1>3. CASE t = Disable
  BY <1>3 DEF Disable
<1>4. ASSUME NEW st \in Terminal, t = Persist(st) \o Disable
      PROVE  t = <<[do |-> "persist", status |-> st], [do |-> "disable"]>> /\ Tail(t) = Disable
  <2> DEFINE e == [do |-> "persist", status |-> st]
             f == [do |-> "disable"]
  <2>1. t = <<e>> \o <<f>>
    BY <1>4 DEF Persist, Disable
  <2> HIDE DEF e, f
  <2>2. t = <<e, f>> /\ Tail(<<e, f>>) = <<f>>
    BY <2>1, TwoJoined, TwoTail
  <2> QED BY <2>2 DEF e, f, Disable
<1>5. \/ t = Persist("running") \o Post(StartMessage) \/ t = Post(StartMessage)
      \/ t = Disable \/ \E st \in Terminal : t = Persist(st) \o Disable
  BY DEF AgentTodos
<1>6. CASE \E st \in Terminal : t = Persist(st) \o Disable
  <2>1. PICK st \in Terminal : t = Persist(st) \o Disable
    BY <1>6
  <2>2. t = <<[do |-> "persist", status |-> st], [do |-> "disable"]>> /\ Tail(t) = Disable
    BY <1>4, <2>1
  <2>3. t # <<>>
    BY <2>2
  <2> QED BY <2>2, <2>3
<1> QED BY <1>1, <1>2, <1>3, <1>5, <1>6

LEMMA CancellingStep ==
    ASSUME NEW c, Cancelling(c)
    PROVE  c # <<>> /\ Head(c) \in CancelEffect /\ Closing(Tail(c))
<1>0. PICK leases \in SUBSET LeaseType : \E d : Closing(d) /\ c = CancelAll(leases) \o d
  BY DEF Cancelling
<1>1. PICK d : Closing(d) /\ c = CancelAll(leases) \o d
  BY <1>0
<1>2. PICK m \in Envelope :
          d = <<[do |-> "post", m |-> m], [do |-> "tell", m |-> m]>>
  BY <1>1, ClosingForm
<1> DEFINE e == [do |-> "cancel", leases |-> leases]
           f == [do |-> "post", m |-> m]
           g == [do |-> "tell", m |-> m]
<1>3. e \in CancelEffect
  BY DEF CancelEffect
<1>4. c = <<e>> \o <<f, g>> /\ d = <<f, g>>
  BY <1>1, <1>2 DEF CancelAll
<1> HIDE DEF e, f, g
<1>5. c = <<e, f, g>>
  BY <1>4, ThreeJoined
<1>6. c # <<>> /\ Head(c) = e /\ Tail(c) = d
  <2>1. <<e, f, g>> # <<>> /\ Head(<<e, f, g>>) = e /\ Tail(<<e, f, g>>) = <<f, g>>
    BY ThreeTail
  <2> QED BY <1>4, <1>5, <2>1
<1> QED BY <1>1, <1>3, <1>6

LEMMA ClosingStep ==
    ASSUME NEW c, Closing(c)
    PROVE  /\ c # <<>> /\ Head(c) \in EndEffect /\ Head(c).do = "post"
           /\ Telling(Tail(c)) /\ Tail(c) # <<>>
<1>1. PICK m \in Envelope :
          /\ m.type = "runCompleted"
          /\ c = <<[do |-> "post", m |-> m], [do |-> "tell", m |-> m]>>
  BY ClosingForm
<1>2. Head(c) = [do |-> "post", m |-> m] /\ c # <<>> /\ Tail(c) = <<[do |-> "tell", m |-> m]>>
  BY <1>1
<1>3. [do |-> "post", m |-> m] \in EndEffect
  BY <1>1 DEF EndEffect
<1> QED BY <1>2, <1>3 DEF Telling

LEMMA TellingStep ==
    ASSUME NEW c, Telling(c)
    PROVE  c # <<>> /\ Head(c) \in EndEffect /\ Head(c).do = "tell" /\ Tail(c) = <<>>
<1>1. PICK m \in Envelope : m.type = "runCompleted" /\ c = <<[do |-> "tell", m |-> m]>>
  BY TellingForm
<1>2. [do |-> "tell", m |-> m] \in EndEffect
  BY <1>1 DEF EndEffect
<1> QED BY <1>1, <1>2

\* Whatever a handler has left, its next effect and what remains after it.
LEMMA KernelStep ==
    ASSUME NEW t, t # <<>>, KernelTodo(t)
    PROVE  KernelTodo(Tail(t)) /\ Head(t) \in KernelEffect
<1>1. CASE t \in Seq(WorkEffect)
  <2>1. Head(t) \in WorkEffect /\ Tail(t) \in Seq(WorkEffect)
    BY <1>1
  <2> QED BY <2>1 DEF KernelTodo, Course, KernelEffect
<1>2. CASE Finishing(t)
  <2>1. [do |-> "save", k |-> Idle, enters |-> {}] \in WorkEffect
    BY IdleTyped DEF WorkEffect, SaveEffect
  <2> QED BY <1>2, <2>1, FinishingStep DEF KernelTodo, Course, KernelEffect
<1>3. CASE Cancelling(t)
  BY <1>3, CancellingStep DEF KernelTodo, KernelEffect, WorkEffect
<1>4. CASE Closing(t)
  BY <1>4, ClosingStep DEF KernelTodo, KernelEffect
<1>5. CASE Telling(t)
  BY <1>5, NoWork, TellingStep DEF KernelTodo, Course, KernelEffect
<1> QED BY <1>1, <1>2, <1>3, <1>4, <1>5 DEF KernelTodo, Course

LEMMA AgentStep ==
    ASSUME NEW t \in AgentTodos
    PROVE  /\ t # <<>>
           /\ Tail(t) \in AgentTodos \cup {<<>>}
           /\ Head(t) \in PersistEffect \cup DisableEffect \cup OpenEffect
           /\ Head(t) \in PersistEffect /\ Head(t).status \in Terminal => Tail(t) = Disable
           /\ Head(t) \in PersistEffect /\ Head(t).status = "running"
                  => Tail(t) = Post(StartMessage)
           /\ Head(t) \in DisableEffect => t = Disable
<1>1. [do |-> "persist", status |-> "running"] \in PersistEffect
      /\ [do |-> "disable"] \in DisableEffect
      /\ [do |-> "post", m |-> StartMessage] \in OpenEffect
  BY DEF PersistEffect, DisableEffect, OpenEffect
<1>2. \A st \in Terminal : [do |-> "persist", status |-> st] \in PersistEffect
  BY DEF PersistEffect
<1>3. Post(StartMessage) \in AgentTodos /\ Disable \in AgentTodos
  BY DEF AgentTodos
<1>4. \A e \in PersistEffect : e \notin DisableEffect /\ e \notin OpenEffect
  BY DEF PersistEffect, DisableEffect, OpenEffect
<1>5. \A e \in OpenEffect : e \notin DisableEffect
  BY DEF DisableEffect, OpenEffect
<1>6. CASE t = <<[do |-> "persist", status |-> "running"], [do |-> "post", m |-> StartMessage]>>
           /\ Tail(t) = Post(StartMessage)
  <2>1. Head(t) = [do |-> "persist", status |-> "running"]
    BY <1>6
  <2>2. Head(t).status = "running"
    BY <2>1
  <2> QED BY <1>1, <1>3, <1>4, <1>6, <2>1, <2>2 DEF Terminal
<1>7. CASE t = <<[do |-> "post", m |-> StartMessage]>> /\ Tail(t) = <<>>
  <2>1. Head(t) = [do |-> "post", m |-> StartMessage]
    BY <1>7
  <2> QED BY <1>1, <1>4, <1>5, <1>7, <2>1
<1>8. CASE \E st \in Terminal :
               /\ t = <<[do |-> "persist", status |-> st], [do |-> "disable"]>>
               /\ Tail(t) = Disable
  <2>1. PICK st \in Terminal :
               /\ t = <<[do |-> "persist", status |-> st], [do |-> "disable"]>>
               /\ Tail(t) = Disable
    BY <1>8
  <2>2. Head(t) = [do |-> "persist", status |-> st]
    BY <2>1
  <2>3. Head(t).status = st /\ st # "running"
    BY <2>2 DEF Terminal
  <2> QED BY <1>2, <1>3, <1>4, <2>1, <2>2, <2>3
<1>9. CASE t = <<[do |-> "disable"]>> /\ Tail(t) = <<>>
  <2>1. Head(t) = [do |-> "disable"]
    BY <1>9
  <2> QED BY <1>1, <1>4, <1>9, <2>1 DEF Disable
<1> QED BY <1>6, <1>7, <1>8, <1>9, AgentForms

LEMMA NextEffect ==
    ASSUME NEW t, t # <<>>, KernelTodo(t) \/ t \in AgentTodos
    PROVE  /\ KernelTodo(Tail(t)) \/ Tail(t) \in AgentTodos
           /\ Head(t) \in KernelEffect \cup PersistEffect \cup DisableEffect \cup OpenEffect
<1>1. KernelTodo(<<>>)
  BY NoWork DEF KernelTodo, Course
<1>2. CASE KernelTodo(t)
  BY <1>2, KernelStep
<1>3. CASE t \in AgentTodos
  BY <1>1, <1>3, AgentStep
<1> QED BY <1>2, <1>3

-----------------------------------------------------------------------------
(* Type correctness                                                        *)

LEMMA BoundsTyped ==
    Starts \in Nat /\ MaxStops \in Nat /\ MaxFailures \in Nat /\ MaxCrashes \in Nat
BY ConstantsAssumption

LEMMA InitTyped == Init => TypeInv
<1> SUFFICES ASSUME Init PROVE TypeInv
  OBVIOUS
<1> DEFINE chat(i) == [Blank EXCEPT !.type = "chat", !.id = i]
<1>1. \A i \in 1 .. Starts : chat(i) \in Envelope
  <2> SUFFICES ASSUME NEW i \in 1 .. Starts PROVE chat(i) \in Envelope
    OBVIOUS
  <2>1. i \in Nat
    BY BoundsTyped
  <2>2. chat(i) \in EnvelopeType /\ chat(i).type = "chat"
    BY <2>1, BlankTyped DEF EnvelopeType, Blank
  <2> QED BY <2>2 DEF Envelope
<1>2. mailbox \in Seq(Envelope)
  <2>1. mailbox = [i \in 1 .. Starts |-> chat(i)]
    BY DEF Init
  <2> HIDE DEF chat
  <2> QED BY <1>1, <2>1, BoundsTyped, IsASeq
<1>3. kernel \in KernelState /\ now = Blank /\ todo = <<>>
  BY IdleTyped DEF Init
<1>4. KernelTodo(todo)
  BY <1>3, NoWork DEF KernelTodo, Course
<1>5. /\ status \in Terminal \cup {"bound", "running"} /\ modules \in BOOLEAN
      /\ granted \in Nat /\ ids \in Nat
      /\ armed = {} /\ working = {} /\ retrying = {}
      /\ told \in Seq([step : Steps \cup {NoStep}, result : OutcomeKinds])
      /\ tries \in [Steps -> Nat]
      /\ stops \in 0 .. MaxStops /\ failures \in 0 .. MaxFailures /\ crashes \in 0 .. MaxCrashes
  <2>1. /\ status = "bound" /\ modules = TRUE
        /\ granted = 0 /\ armed = {} /\ working = {} /\ retrying = {}
        /\ told = <<>> /\ tries = [s \in Steps |-> 0]
        /\ ids = Starts /\ stops = 0 /\ failures = 0 /\ crashes = 0
    BY Zenon DEF Init
  <2> QED BY <2>1, BoundsTyped
<1> QED BY <1>2, <1>3, <1>4, <1>5 DEF TypeInv

\* Sending numbers the envelope and puts it last.
LEMMA SendTyped ==
    ASSUME TypeInv, NEW m \in Envelope, Send(m)
    PROVE  mailbox' \in Seq(Envelope) /\ ids' \in Nat
<1>1. ids + 1 \in Nat /\ mailbox \in Seq(Envelope)
  BY DEF TypeInv
<1>2. [m EXCEPT !.id = ids + 1] \in Envelope
  BY <1>1 DEF Envelope, EnvelopeType
<1>3. mailbox' = Append(mailbox, [m EXCEPT !.id = ids + 1]) /\ ids' = ids + 1
  BY DEF Send
<1> HIDE DEF Send
<1> QED BY <1>1, <1>2, <1>3

\* The effect at work, by its kind.
LEMMA EffectTyped ==
    ASSUME TypeInv, todo # <<>>
    PROVE  /\ Head(todo) \in KernelEffect \cup PersistEffect \cup DisableEffect \cup OpenEffect
           /\ Effect("save") => Head(todo) \in SaveEffect
           /\ Effect("request") => Head(todo) \in RequestEffect
           /\ Effect("arm") => Head(todo) \in ArmEffect
           /\ Effect("cancel") => Head(todo) \in CancelEffect
           /\ Effect("persist") => Head(todo) \in PersistEffect
           /\ Effect("tell") => /\ Head(todo).m \in Envelope
                                /\ Head(todo).m.type = "runCompleted"
           /\ Effect("post") => Head(todo).m \in Envelope
<1>1. Head(todo) \in KernelEffect \cup PersistEffect \cup DisableEffect \cup OpenEffect
  BY NextEffect DEF TypeInv
<1>2. StartMessage \in Envelope
  <2>1. StartMessage \in EnvelopeType /\ StartMessage.type = "start"
    BY BlankTyped DEF StartMessage, Blank, EnvelopeType
  <2> QED BY <2>1 DEF Envelope
<1> DEFINE e == Head(todo)
<1>3. e \in KernelEffect \cup PersistEffect \cup DisableEffect \cup OpenEffect
  BY <1>1
<1> HIDE DEF e
<1>4. e \in SaveEffect \cup RequestEffect \cup ArmEffect \cup CancelEffect \cup AgainEffect
           \cup CompletionEffect \cup EndEffect \cup PersistEffect \cup DisableEffect \cup OpenEffect
  BY <1>3 DEF KernelEffect, WorkEffect
<1>5. e.do = "save" => e \in SaveEffect
  BY <1>4 DEF RequestEffect, ArmEffect, CancelEffect, AgainEffect, CompletionEffect,
              EndEffect, PersistEffect, DisableEffect, OpenEffect
<1>6. e.do = "request" => e \in RequestEffect
  BY <1>4 DEF SaveEffect, ArmEffect, CancelEffect, AgainEffect, CompletionEffect,
              EndEffect, PersistEffect, DisableEffect, OpenEffect
<1>7. e.do = "arm" => e \in ArmEffect
  BY <1>4 DEF SaveEffect, RequestEffect, CancelEffect, AgainEffect, CompletionEffect,
              EndEffect, PersistEffect, DisableEffect, OpenEffect
<1>8. e.do = "cancel" => e \in CancelEffect
  BY <1>4 DEF SaveEffect, RequestEffect, ArmEffect, AgainEffect, CompletionEffect,
              EndEffect, PersistEffect, DisableEffect, OpenEffect
<1>9. e.do = "persist" => e \in PersistEffect
  BY <1>4 DEF SaveEffect, RequestEffect, ArmEffect, CancelEffect, AgainEffect,
              CompletionEffect, EndEffect, DisableEffect, OpenEffect
<1>10. e.do = "tell" => e \in EndEffect
  BY <1>4 DEF SaveEffect, RequestEffect, ArmEffect, CancelEffect, AgainEffect,
              CompletionEffect, PersistEffect, DisableEffect, OpenEffect
<1>11. e.do = "post" => e \in CompletionEffect \cup EndEffect \cup OpenEffect
  BY <1>4 DEF SaveEffect, RequestEffect, ArmEffect, CancelEffect, AgainEffect,
              PersistEffect, DisableEffect
<1>12. e.do = "tell" => e.m \in Envelope /\ e.m.type = "runCompleted"
  BY <1>10 DEF EndEffect
<1>13. e.do = "post" => e.m \in Envelope
  BY <1>2, <1>11 DEF CompletionEffect, EndEffect, OpenEffect
<1> QED BY <1>1, <1>5, <1>6, <1>7, <1>8, <1>9, <1>12, <1>13 DEF Effect, e

\* Going on to the next effect.
LEMMA StepTyped ==
    ASSUME TypeInv, todo # <<>>, Step
    PROVE  /\ KernelTodo(todo') \/ todo' \in AgentTodos
           /\ now' \in Envelope \cup {Blank}
           /\ todo' # <<>> => now' \in Envelope /\ now'.type # "request"
<1>1. KernelTodo(Tail(todo)) \/ Tail(todo) \in AgentTodos
  BY NextEffect DEF TypeInv
<1>2. todo' = Tail(todo) /\ now' = IF todo' = <<>> THEN Blank ELSE now
  BY DEF Step
<1>3. now \in Envelope /\ now.type # "request"
  BY DEF TypeInv
<1>4. KernelTodo(todo') \/ todo' \in AgentTodos
  BY <1>1, <1>2
<1> QED BY <1>2, <1>3, <1>4

\* What the granted generation makes of a saved state.
GrantedKernel(k) ==
    [k EXCEPT !.timeouts = [s \in Steps |-> Granted(k.timeouts[s])],
              !.backoffs = [s \in Steps |-> [k.backoffs[s] EXCEPT !.lease = Granted(@)]]]

LEMMA GrantedTyped ==
    ASSUME NEW k \in KernelState, granted \in Nat
    PROVE  GrantedKernel(k) \in KernelState
<1>1. \A l \in LeaseType : Granted(l) \in LeaseType
  BY DEF Granted, LeaseType
<1>2. k \in KernelType
  BY DEF KernelState
<1> DEFINE t == [s \in Steps |-> Granted(k.timeouts[s])]
           b == [s \in Steps |-> [k.backoffs[s] EXCEPT !.lease = Granted(@)]]
<1>3. t \in [Steps -> LeaseType]
  BY <1>1, KernelParts
<1>4. b \in [Steps -> BackoffType]
  <2> SUFFICES ASSUME NEW s \in Steps
               PROVE  [k.backoffs[s] EXCEPT !.lease = Granted(@)] \in BackoffType
    OBVIOUS
  <2>1. k.backoffs[s] \in BackoffType /\ k.backoffs[s].lease \in LeaseType
    BY KernelParts
  <2>2. Granted(k.backoffs[s].lease) \in LeaseType
    BY <1>1, <2>1
  <2> QED BY <2>1, <2>2 DEF BackoffType
<1>5. GrantedKernel(k) = [k EXCEPT !.timeouts = t, !.backoffs = b]
  BY DEF GrantedKernel
<1> HIDE DEF t, b
<1>6. [k EXCEPT !.timeouts = t, !.backoffs = b] \in KernelType
  BY <1>2, <1>3, <1>4 DEF KernelType, BackoffType
<1>7. [k EXCEPT !.timeouts = t, !.backoffs = b] \in KernelState
  BY <1>2, <1>6 DEF KernelState, KernelType
<1> QED BY <1>5, <1>7

\* The effects of a handler at work; the rest of the actions.
LEMMA PerformTyped ==
    ASSUME TypeInv, Perform
    PROVE  TypeInv'
<1> USE DEF runVars
<1>1. todo # <<>>
  BY DEF Perform, SaveState, PublishSelf, PublishRequest, TellParent, ScheduleCallback,
         CancelCallbacks, Reload, PersistStatus, DisableModules, Effect
<1>2. CASE SaveState
  <2>1. Head(todo) \in SaveEffect /\ Step
    BY <1>1, <1>2, EffectTyped DEF SaveState
  <2>2. kernel' = GrantedKernel(Head(todo).k)
    BY <1>2 DEF SaveState, GrantedKernel
  <2>3. Head(todo).k \in KernelState /\ granted \in Nat
    BY <2>1 DEF SaveEffect, TypeInv
  <2>4. kernel' \in KernelState
    BY <2>2, <2>3, GrantedTyped
  <2>5. tries' \in [Steps -> Nat]
    BY <1>2 DEF SaveState, TypeInv
  <2>6. UNCHANGED <<status, modules, mailbox, granted, armed, working, retrying, told, ids,
                    control>>
    BY <1>2 DEF SaveState
  <2> QED BY <1>1, <2>1, <2>4, <2>5, <2>6, StepTyped DEF TypeInv
<1>3. CASE PublishSelf
  <2>1. Head(todo).m \in Envelope /\ Step /\ Send(Head(todo).m)
    BY <1>1, <1>3, EffectTyped DEF PublishSelf
  <2>2. UNCHANGED <<runVars, granted, control>>
    BY <1>3 DEF PublishSelf
  <2> QED BY <1>1, <2>1, <2>2, StepTyped, SendTyped DEF TypeInv
<1>4. CASE PublishRequest
  <2> DEFINE e == Head(todo)
             m == [Blank EXCEPT !.type = "request", !.step = e.step, !.attempt = e.attempt]
  <2>1. e \in RequestEffect /\ Step
    BY <1>1, <1>4, EffectTyped DEF PublishRequest
  <2>2. Send(m) /\ tries' = [tries EXCEPT ![e.step] = @ + 1]
    BY <1>4 DEF PublishRequest
  <2>3. e.step \in Steps /\ e.attempt \in Nat
    BY <2>1 DEF RequestEffect
  <2> HIDE DEF e
  <2>4. m \in EnvelopeType /\ m.type = "request" /\ m.step = e.step
    BY <2>3, BlankTyped DEF EnvelopeType, Blank
  <2>5. m \in Envelope
    BY <2>3, <2>4 DEF Envelope
  <2>6. tries' \in [Steps -> Nat]
    BY <2>2, <2>3 DEF TypeInv
  <2>7. UNCHANGED <<status, modules, kernel, granted, armed, working, retrying, told, control>>
    BY <1>4 DEF PublishRequest
  <2> HIDE DEF m
  <2> QED BY <1>1, <2>1, <2>2, <2>5, <2>6, <2>7, StepTyped, SendTyped DEF TypeInv
<1>5. CASE TellParent
  <2> DEFINE r == [step |-> Head(todo).m.step, result |-> Head(todo).m.result]
  <2>1. Head(todo).m \in Envelope /\ Head(todo).m.type = "runCompleted" /\ Step
    BY <1>1, <1>5, EffectTyped DEF TellParent
  <2>2. r \in [step : Steps \cup {NoStep}, result : OutcomeKinds]
    BY <2>1 DEF Envelope, EnvelopeType
  <2>3. told' = Append(told, r)
    BY <1>5 DEF TellParent
  <2>4. UNCHANGED <<status, modules, kernel, mailbox, granted, armed, working, retrying,
                    tries, ids, control>>
    BY <1>5 DEF TellParent
  <2> HIDE DEF r
  <2>5. told' \in Seq([step : Steps \cup {NoStep}, result : OutcomeKinds])
    BY <2>2, <2>3 DEF TypeInv
  <2> QED BY <1>1, <2>1, <2>4, <2>5, StepTyped DEF TypeInv
<1>6. CASE ScheduleCallback
  <2> DEFINE e == Head(todo)
             old == {c \in armed : c.cb = e.cb}
             gen == IF old = {} THEN 1 ELSE (CHOOSE c \in old : TRUE).gen + 1
  <2>1. e \in ArmEffect /\ Step
    BY <1>1, <1>6, EffectTyped DEF ScheduleCallback
  <2>2. granted' = gen /\ armed' = (armed \ old) \cup {[cb |-> e.cb, gen |-> gen, attempt |-> e.attempt]}
    BY <1>6 DEF ScheduleCallback
  <2>3. e.cb \in Due /\ e.attempt \in Nat
    BY <2>1 DEF ArmEffect
  <2>4. gen \in Nat
    <3>1. CASE old # {}
      <4>1. (CHOOSE c \in old : TRUE) \in old
        BY <3>1
      <4>2. (CHOOSE c \in old : TRUE).gen \in Nat
        BY <4>1 DEF TypeInv
      <4> QED BY <3>1, <4>2
    <3>2. CASE old = {}
      BY <3>2
    <3> QED BY <3>1, <3>2
  <2> HIDE DEF gen, e
  <2>5. [cb |-> e.cb, gen |-> gen, attempt |-> e.attempt] \in [cb : Due, gen : Nat, attempt : Nat]
    BY <2>3, <2>4
  <2>6. armed' \subseteq [cb : Due, gen : Nat, attempt : Nat] /\ granted' \in Nat
    BY <2>2, <2>4, <2>5 DEF TypeInv
  <2>7. UNCHANGED <<status, modules, kernel, mailbox, working, retrying, told, tries, ids,
                    control>>
    BY <1>6 DEF ScheduleCallback
  <2> QED BY <1>1, <2>1, <2>6, <2>7, StepTyped DEF TypeInv
<1>7. CASE CancelCallbacks
  <2>1. Step /\ armed' \subseteq armed
    BY <1>7 DEF CancelCallbacks
  <2>2. UNCHANGED <<status, modules, kernel, mailbox, granted, working, retrying, told,
                    tries, ids, control>>
    BY <1>7 DEF CancelCallbacks
  <2> QED BY <1>1, <2>1, <2>2, StepTyped DEF TypeInv
<1>8. CASE Reload
  <2>1. now \in Envelope /\ now.type # "request"
    BY <1>1 DEF TypeInv
  <2>2. /\ todo' = Handler(now) /\ now' = IF todo' = <<>> THEN Blank ELSE now
        /\ ids' = ids + 1
        /\ UNCHANGED <<runVars, mailbox, granted, control>>
    BY <1>8 DEF Reload
  <2>3. KernelTodo(Handler(now)) \/ Handler(now) \in AgentTodos
    BY <2>1, HandlerTyped DEF TypeInv
  <2>4. KernelTodo(todo') \/ todo' \in AgentTodos
    BY <2>2, <2>3
  <2> QED BY <2>1, <2>2, <2>4 DEF TypeInv
<1>9. CASE PersistStatus
  <2>1. Head(todo) \in PersistEffect /\ Step
    BY <1>1, <1>9, EffectTyped DEF PersistStatus
  <2>2. status' = Head(todo).status /\ kernel' = IF status' = "stopped" THEN Idle ELSE kernel
    BY <1>9 DEF PersistStatus
  <2>3. status' \in Terminal \cup {"bound", "running"}
    BY <2>1, <2>2 DEF PersistEffect
  <2>4. kernel' \in KernelState
    BY <2>2, IdleTyped DEF TypeInv
  <2>5. UNCHANGED <<modules, mailbox, granted, armed, working, retrying, told, tries, ids,
                    control>>
    BY <1>9 DEF PersistStatus
  <2> QED BY <1>1, <2>1, <2>3, <2>4, <2>5, StepTyped DEF TypeInv
<1>10. CASE DisableModules
  <2>1. Step /\ modules' = FALSE
    BY <1>10 DEF DisableModules
  <2>2. UNCHANGED <<status, kernel, mailbox, granted, armed, working, retrying, told, tries,
                    ids, control>>
    BY <1>10 DEF DisableModules
  <2> QED BY <1>1, <2>1, <2>2, StepTyped DEF TypeInv
<1> QED BY <1>2, <1>3, <1>4, <1>5, <1>6, <1>7, <1>8, <1>9, <1>10 DEF Perform

\* The head of the mailbox and what is behind it.
LEMMA MailboxTyped ==
    ASSUME TypeInv, mailbox # <<>>
    PROVE  Head(mailbox) \in Envelope /\ Tail(mailbox) \in Seq(Envelope)
BY DEF TypeInv

LEMMA NextTyped ==
    ASSUME TypeInv, [Next]_vars
    PROVE  TypeInv'
<1> USE DEF runVars
<1>1. CASE Deliver
  <2>1. /\ mailbox # <<>> /\ Head(mailbox).type # "request"
        /\ todo' = Handler(Head(mailbox))
        /\ now' = IF todo' = <<>> THEN Blank ELSE Head(mailbox)
        /\ mailbox' = Tail(mailbox) /\ ids' = ids + 1
        /\ UNCHANGED <<runVars, granted, control>>
    BY <1>1 DEF Deliver
  <2>2. Head(mailbox) \in Envelope /\ Tail(mailbox) \in Seq(Envelope)
    BY <2>1, MailboxTyped
  <2>3. KernelTodo(Handler(Head(mailbox))) \/ Handler(Head(mailbox)) \in AgentTodos
    BY <2>1, <2>2, HandlerTyped DEF TypeInv
  <2>4. KernelTodo(todo') \/ todo' \in AgentTodos
    BY <2>1, <2>3
  <2> QED BY <2>1, <2>2, <2>4 DEF TypeInv
<1>2. CASE AcceptRequest
  <2>1. /\ mailbox # <<>> /\ Head(mailbox).type = "request"
        /\ working' \subseteq working \cup {Head(mailbox)}
        /\ mailbox' = Tail(mailbox)
        /\ UNCHANGED <<status, modules, kernel, todo, now, granted, armed, retrying, told,
                       tries, ids, control>>
    BY <1>2 DEF AcceptRequest
  <2>2. Head(mailbox) \in Envelope /\ Tail(mailbox) \in Seq(Envelope)
    BY <2>1, MailboxTyped
  <2>3. working' \subseteq {m \in Envelope : m.type = "request"}
    BY <2>1, <2>2 DEF TypeInv
  <2> QED BY <2>1, <2>2, <2>3 DEF TypeInv
<1>3. CASE Perform
  BY <1>3, PerformTyped
<1>4. ASSUME NEW w \in working, Answer(w)
      PROVE  TypeInv'
  <2>1. PICK r \in Results, n \in Targets[w.step] :
            Send([Blank EXCEPT !.type = "completed", !.step = w.step, !.result = r,
                               !.next = IF r = "ok" THEN n ELSE NoStep,
                               !.attempt = w.attempt])
    BY <1>4 DEF Answer
  <2>2. /\ working' \subseteq working
        /\ UNCHANGED <<status, modules, kernel, todo, now, granted, armed, retrying, told,
                       tries, control>>
    BY <1>4 DEF Answer
  <2>3. w \in Envelope /\ w.type = "request"
    BY DEF TypeInv
  <2>4. w.step \in Steps /\ w.attempt \in Nat
    BY <2>3 DEF Envelope, EnvelopeType
  <2>5. r \in {"ok", "error", "timeout"} /\ n \in Steps \cup {Done, Invalid}
    BY <2>4, ConstantsAssumption
  <2> DEFINE next == IF r = "ok" THEN n ELSE NoStep
             m == [Blank EXCEPT !.type = "completed", !.step = w.step, !.result = r,
                                !.next = next, !.attempt = w.attempt]
  <2>6. next \in Steps \cup {Done, Invalid, NoStep} /\ (r = "ok" => next \in Steps \cup {Done, Invalid})
    BY <2>5
  <2>7. Send(m)
    BY <2>1
  <2> HIDE DEF next
  <2>8. /\ m \in EnvelopeType /\ m.type = "completed" /\ m.step = w.step /\ m.result = r
        /\ m.next = next
    BY <2>4, <2>5, <2>6, BlankTyped DEF EnvelopeType, Blank, OutcomeKinds
  <2>9. m \in Envelope
    BY <2>4, <2>5, <2>6, <2>8 DEF Envelope
  <2> HIDE DEF m
  <2> QED BY <2>2, <2>7, <2>9, SendTyped DEF TypeInv
<1>5. ASSUME NEW c \in armed, Fire(c)
      PROVE  TypeInv'
  <2> DEFINE m == [Blank EXCEPT !.type = c.cb.kind, !.step = c.cb.step, !.attempt = c.attempt,
                                !.lease = [cb |-> c.cb, gen |-> c.gen]]
  <2>1. /\ Send(m) /\ armed' \subseteq armed
        /\ UNCHANGED <<status, modules, kernel, todo, now, granted, working, retrying, told,
                       tries, control>>
    BY <1>5 DEF Fire
  <2>2. c \in [cb : Due, gen : Nat, attempt : Nat]
    BY DEF TypeInv
  <2>3. c.cb \in Due /\ c.gen \in Nat /\ c.attempt \in Nat
    BY <2>2
  <2>4. c.cb.kind \in {"timeout", "backoff"} /\ c.cb.step \in Steps
    BY <2>3 DEF Due
  <2>5. [cb |-> c.cb, gen |-> c.gen] \in LeaseType
    BY <2>3, LeasesTyped
  <2>6. m \in EnvelopeType /\ m.type = c.cb.kind /\ m.step = c.cb.step
    BY <2>3, <2>4, <2>5, BlankTyped DEF EnvelopeType, Blank
  <2>7. m \in Envelope
    BY <2>4, <2>6 DEF Envelope
  <2> HIDE DEF m
  <2> QED BY <2>1, <2>7, SendTyped DEF TypeInv
<1>6. ASSUME NEW m \in retrying, Redeliver(m)
      PROVE  TypeInv'
  <2>1. m \in Envelope
    BY DEF TypeInv
  <2> QED BY <1>6, <2>1 DEF Redeliver, TypeInv
<1>7. CASE RequestStop
  <2> DEFINE m == [Blank EXCEPT !.type = "stop"]
  <2>1. /\ Send(m) /\ stops' \in 0 .. MaxStops
        /\ UNCHANGED <<runVars, todo, now, granted, failures, crashes>>
    BY <1>7, BoundsTyped DEF RequestStop, TypeInv
  <2>2. m \in EnvelopeType /\ m.type = "stop"
    BY BlankTyped DEF EnvelopeType, Blank
  <2>3. m \in Envelope
    BY <2>2 DEF Envelope
  <2> HIDE DEF m
  <2> QED BY <2>1, <2>3, SendTyped DEF TypeInv
<1>8. CASE PublishFails
  <2>1. todo # <<>> /\ failures' \in 0 .. MaxFailures
    BY <1>8, BoundsTyped DEF PublishFails, Effect, TypeInv
  <2>2. /\ retrying' = retrying \cup {now} /\ todo' = <<>> /\ now' = Blank
        /\ UNCHANGED <<status, modules, mailbox, granted, working, told, tries, ids, stops,
                       crashes>>
    BY <1>8 DEF PublishFails
  <2>3. armed' \subseteq armed /\ kernel' \in KernelState
    <3>1. CASE Effect("request") /\ Head(todo).scheduled
      <4>1. Head(todo).step \in Steps
        BY <2>1, <3>1, EffectTyped DEF RequestEffect
      <4>2. armed' \subseteq armed /\ kernel' = [kernel EXCEPT !.timeouts[Head(todo).step] = NoLease]
        BY <1>8, <3>1 DEF PublishFails
      <4> QED BY <4>1, <4>2, TimeoutSet, BlankTyped DEF TypeInv
    <3>2. CASE ~(Effect("request") /\ Head(todo).scheduled)
      BY <1>8, <3>2 DEF PublishFails, TypeInv
    <3> QED BY <3>1, <3>2
  <2>4. KernelTodo(todo') /\ now \in Envelope
    BY <2>1, <2>2, NoWork DEF KernelTodo, Course, TypeInv
  <2> QED BY <2>1, <2>2, <2>3, <2>4 DEF TypeInv
<1>9. CASE Crash
  <2>1. /\ todo # <<>> /\ crashes' \in 0 .. MaxCrashes /\ modules' \in BOOLEAN
        /\ todo' = <<>> /\ now' = Blank /\ mailbox' = <<now>> \o mailbox
        /\ UNCHANGED <<status, kernel, granted, armed, working, retrying, told, tries, ids, stops,
                       failures>>
    BY <1>9, BoundsTyped DEF Crash, TypeInv
  <2>2. KernelTodo(todo') /\ now \in Envelope
    BY <2>1, NoWork DEF KernelTodo, Course, TypeInv
  <2>3. mailbox' \in Seq(Envelope)
    BY <2>1, <2>2 DEF TypeInv
  <2> QED BY <2>1, <2>2, <2>3 DEF TypeInv
<1>10. CASE UNCHANGED vars
  BY <1>10 DEF vars, TypeInv
<1> QED BY <1>1, <1>2, <1>3, <1>4, <1>5, <1>6, <1>7, <1>8, <1>9, <1>10 DEF Next

LEMMA TypesHold == Spec => []TypeInv
<1> QED BY InitTyped, NextTyped, PTL DEF Spec

\* All effects of a handler are of the kinds the actions perform.
LEMMA TodoTyped ==
    ASSUME NEW t, KernelTodo(t) \/ t \in AgentTodos
    PROVE  t \in Seq(KernelEffect \cup PersistEffect \cup DisableEffect \cup OpenEffect)
<1> DEFINE S == KernelEffect \cup PersistEffect \cup DisableEffect \cup OpenEffect
<1>1. \A leases \in SUBSET LeaseType : [do |-> "cancel", leases |-> leases] \in S
  BY DEF KernelEffect, WorkEffect, CancelEffect
<1>2. \A m \in Envelope : m.type = "runCompleted" =>
          [do |-> "post", m |-> m] \in S /\ [do |-> "tell", m |-> m] \in S
  BY DEF KernelEffect, EndEffect
<1>3. \A st \in {"running"} \cup Terminal : [do |-> "persist", status |-> st] \in S
  BY DEF PersistEffect
<1>4. [do |-> "disable"] \in S /\ [do |-> "post", m |-> StartMessage] \in S
  BY DEF DisableEffect, OpenEffect
<1>5. Seq(WorkEffect) \subseteq Seq(S)
  BY DEF KernelEffect
<1> SUFFICES t \in Seq(S)
  OBVIOUS
<1> HIDE DEF S
<1>6. ASSUME NEW c, Cancelling(c) PROVE c \in Seq(S)
  <2>1. PICK leases \in SUBSET LeaseType, m \in Envelope :
            /\ m.type = "runCompleted" /\ m.result \in OutcomeKinds
            /\ c = <<[do |-> "cancel", leases |-> leases],
                     [do |-> "post", m |-> m], [do |-> "tell", m |-> m]>>
    BY <1>6, CancellingForm
  <2> QED BY <1>1, <1>2, <2>1
<1>7. CASE Finishing(t)
  <2>0. PICK p \in Seq(WorkEffect) : \E c : Cancelling(c) /\ t = p \o (Save(Idle) \o c)
    BY <1>7 DEF Finishing
  <2>1. PICK c : Cancelling(c) /\ t = p \o (Save(Idle) \o c)
    BY <2>0
  <2>2. p \in Seq(S) /\ Save(Idle) \in Seq(S) /\ c \in Seq(S)
    BY <1>5, <1>6, <2>1, IdleTyped, SaveTyped
  <2>3. p \o (Save(Idle) \o c) \in Seq(S)
    BY <2>2, Joined
  <2> QED BY <2>1, <2>3
<1>8. CASE Closing(t)
  <2>1. PICK m \in Envelope :
            /\ m.type = "runCompleted" /\ m.result \in OutcomeKinds
            /\ t = <<[do |-> "post", m |-> m], [do |-> "tell", m |-> m]>>
    BY <1>8, ClosingForm
  <2>2. <<[do |-> "post", m |-> m], [do |-> "tell", m |-> m]>> \in Seq(S)
    BY <1>2, <2>1
  <2> QED BY <2>1, <2>2
<1>9. CASE Telling(t)
  <2>1. PICK m \in Envelope :
            /\ m.type = "runCompleted" /\ m.result \in OutcomeKinds
            /\ t = <<[do |-> "tell", m |-> m]>>
    BY <1>9, TellingForm
  <2>2. [do |-> "tell", m |-> m] \in S
    BY <1>2, <2>1
  <2> QED BY <2>1, <2>2
<1>10. CASE t \in AgentTodos
  <2>1. /\ Persist("running") \o Post(StartMessage) \in Seq(S) /\ Post(StartMessage) \in Seq(S)
        /\ Disable \in Seq(S) /\ \A st \in Terminal : Persist(st) \in Seq(S)
    <3>1. Post(StartMessage) \in Seq(S) /\ Disable \in Seq(S)
      BY <1>4 DEF Post, Disable
    <3>2. \A st \in {"running"} \cup Terminal : Persist(st) \in Seq(S)
      <4> SUFFICES ASSUME NEW st \in {"running"} \cup Terminal PROVE Persist(st) \in Seq(S)
        OBVIOUS
      <4> DEFINE e == [do |-> "persist", status |-> st]
      <4>1. e \in S /\ Persist(st) = <<e>>
        BY <1>3 DEF Persist
      <4> HIDE DEF e
      <4> QED BY <4>1
    <3> QED BY <3>1, <3>2, Joined
  <2>2. \A st \in Terminal : Persist(st) \o Disable \in Seq(S)
    BY <2>1, Joined
  <2> QED BY <1>10, <2>1, <2>2 DEF AgentTodos
<1> QED BY <1>5, <1>6, <1>7, <1>8, <1>9, <1>10 DEF KernelTodo, Course

\* Every variable keeps its type, and a saved retry count stays below the
\* attempts its policy allows (TryRetryAsync).
THEOREM TypeCorrect == Spec => []TypeOK
<1>1. TypeInv => TypeOK
  <2> SUFFICES ASSUME TypeInv PROVE TypeOK
    OBVIOUS
  <2> DEFINE Kinds == {"save", "post", "request", "tell", "arm", "cancel", "again", "persist",
                       "disable"}
             S == KernelEffect \cup PersistEffect \cup DisableEffect \cup OpenEffect
  <2>1. \A e \in S : e.do \in Kinds
    BY DEF KernelEffect, WorkEffect, SaveEffect, RequestEffect, ArmEffect, CancelEffect,
           AgainEffect, CompletionEffect, EndEffect, PersistEffect, DisableEffect, OpenEffect
  <2>2. todo \in Seq(S)
    BY TodoTyped DEF TypeInv
  <2> HIDE DEF S
  <2>3. \A i \in DOMAIN todo : todo[i].do \in Kinds
    BY <2>1, <2>2
  <2>4. kernel \in KernelType /\ \A s \in Steps : kernel.retries[s] < MaxAttempts[s]
    BY DEF TypeInv, KernelState
  <2>5. Envelope \subseteq EnvelopeType /\ Blank \in EnvelopeType
    BY BlankTyped DEF Envelope
  <2>6. mailbox \in Seq(EnvelopeType) /\ now \in EnvelopeType
    BY <2>5 DEF TypeInv
  <2>7. armed \subseteq [cb : CallbackType, gen : Nat, attempt : Nat]
    BY BlankTyped DEF TypeInv
  <2>8. working \subseteq EnvelopeType /\ retrying \subseteq EnvelopeType
    BY <2>5 DEF TypeInv
  <2>9. /\ status \in Terminal \cup {"bound", "running"} /\ modules \in BOOLEAN
        /\ granted \in Nat /\ ids \in Nat
        /\ told \in Seq([step : Steps \cup {NoStep}, result : OutcomeKinds])
        /\ tries \in [Steps -> Nat]
        /\ stops \in 0 .. MaxStops /\ failures \in 0 .. MaxFailures
        /\ crashes \in 0 .. MaxCrashes
    BY DEF TypeInv
  <2> QED BY <2>3, <2>4, <2>6, <2>7, <2>8, <2>9 DEF TypeOK
<1> QED BY <1>1, TypesHold, PTL

-----------------------------------------------------------------------------
(* A stopped run                                                           *)

\* Once the stop is persisted the modules are disabled next, and from then on
\* only handlers of the run agent find anything to do.
Stopped ==
    status = "stopped" =>
        /\ modules => todo = Disable
        /\ todo \in AgentTodos \cup {<<>>}

\* Without its modules the run has handlers of the agent only.
LEMMA AgentOnly ==
    ASSUME NEW m \in Envelope, m.type # "request", ~modules, status \in Terminal
    PROVE  Handler(m) \in AgentTodos \cup {<<>>}
<1>1. m.type \in HandlerTypes
  BY DEF Envelope, EnvelopeType, HandlerTypes
<1>2. CASE m.type \in {"start", "timeout", "backoff", "completed"}
  BY <1>2 DEF Handler, HandleStart, HandleTimeout, HandleBackoff, HandleCompleted, Stale
<1>3. CASE m.type = "chat"
  BY <1>3 DEF Handler, HandleChatRequest, AgentTodos, StartMessage
<1>4. CASE m.type = "runCompleted"
  BY <1>4 DEF Handler, HandleWorkflowCompleted, AgentTodos, Terminal
<1>5. CASE m.type = "stop"
  BY <1>5 DEF Handler, HandleStopped
<1> QED BY <1>1, <1>2, <1>3, <1>4, <1>5 DEF HandlerTypes

\* What the effect at work says of the handler: only the agent's persist and
\* disable, and nothing an agent's handler does is a kernel's work.
LEMMA AgentAtWork ==
    ASSUME TypeInv, todo # <<>>
    PROVE  /\ Effect("persist") \/ Effect("disable") => todo \in AgentTodos
           /\ todo \in AgentTodos =>
                  /\ ~Effect("save") /\ ~Effect("request") /\ ~Effect("tell")
                  /\ ~Effect("arm") /\ ~Effect("cancel") /\ ~Effect("again")
           /\ Effect("persist") /\ Head(todo).status \in Terminal => Tail(todo) = Disable
           /\ Effect("persist") /\ Head(todo).status = "running" => Tail(todo) = Post(StartMessage)
           /\ Effect("disable") => todo = Disable
           /\ todo = Disable => Effect("disable") /\ Tail(todo) = <<>>
<1> DEFINE e == Head(todo)
<1>1. e \in KernelEffect => e.do \notin {"persist", "disable"}
  BY DEF KernelEffect, WorkEffect, SaveEffect, RequestEffect, ArmEffect, CancelEffect,
         AgainEffect, CompletionEffect, EndEffect
<1>2. KernelTodo(todo) => e \in KernelEffect
  BY KernelStep
<1>3. todo \in AgentTodos => e \in PersistEffect \cup DisableEffect \cup OpenEffect
  BY AgentStep
<1>4. e \in PersistEffect \cup DisableEffect \cup OpenEffect
          => e.do \in {"persist", "disable", "post"}
  BY DEF PersistEffect, DisableEffect, OpenEffect
<1>5. e \in PersistEffect \cup DisableEffect \cup OpenEffect =>
          /\ e.do = "persist" => e \in PersistEffect
          /\ e.do = "disable" => e \in DisableEffect
  BY DEF PersistEffect, DisableEffect, OpenEffect
<1>6. todo = Disable => e.do = "disable" /\ Tail(todo) = <<>>
  BY DEF Disable
<1>7. e.do = "persist" \/ e.do = "disable" => todo \in AgentTodos
  BY <1>1, <1>2 DEF TypeInv
<1>8. todo \in AgentTodos =>
          /\ e \in PersistEffect /\ e.status \in Terminal => Tail(todo) = Disable
          /\ e \in PersistEffect /\ e.status = "running" => Tail(todo) = Post(StartMessage)
          /\ e \in DisableEffect => todo = Disable
  BY AgentStep
<1> HIDE DEF e
<1>9. /\ Effect("persist") <=> e.do = "persist"
      /\ Effect("disable") <=> e.do = "disable"
      /\ Effect("save") <=> e.do = "save"
      /\ Effect("request") <=> e.do = "request"
      /\ Effect("tell") <=> e.do = "tell"
      /\ Effect("arm") <=> e.do = "arm"
      /\ Effect("cancel") <=> e.do = "cancel"
      /\ Effect("again") <=> e.do = "again"
  BY DEF Effect, e
<1>10. todo \in AgentTodos => e.do \in {"persist", "disable", "post"}
  BY <1>3, <1>4
<1> QED BY <1>3, <1>5, <1>6, <1>7, <1>8, <1>9, <1>10 DEF e

LEMMA StoppedStep ==
    ASSUME TypeInv, Stopped, [Next]_vars
    PROVE  Stopped' /\ (status = "stopped" => tries' = tries /\ working' \subseteq working)
<1> USE DEF runVars
<1>1. Disable \in AgentTodos /\ Disable # <<>>
  BY DEF AgentTodos, Disable
<1>2. CASE Deliver
  <2>1. /\ todo = <<>> /\ mailbox # <<>> /\ Head(mailbox).type # "request"
        /\ todo' = Handler(Head(mailbox))
        /\ UNCHANGED <<status, modules, tries, working>>
    BY <1>2 DEF Deliver
  <2>2. Head(mailbox) \in Envelope
    BY <2>1, MailboxTyped
  <2>3. status = "stopped" => ~modules /\ todo' \in AgentTodos \cup {<<>>}
    BY <1>1, <2>1, <2>2, AgentOnly DEF Stopped, Terminal
  <2> QED BY <2>1, <2>3 DEF Stopped
<1>3. CASE AcceptRequest
  <2>1. /\ todo = <<>> /\ todo' = todo /\ (~modules => working' = working)
        /\ UNCHANGED <<status, modules, tries>>
    BY <1>3 DEF AcceptRequest
  <2> QED BY <1>1, <2>1 DEF Stopped
<1>4. CASE Perform
  <2>1. todo # <<>>
    BY <1>4 DEF Perform, SaveState, PublishSelf, PublishRequest, TellParent, ScheduleCallback,
           CancelCallbacks, Reload, PersistStatus, DisableModules, Effect
  <2>2. CASE status = "stopped"
    <3>1. todo \in AgentTodos /\ (modules => todo = Disable)
      BY <2>1, <2>2 DEF Stopped
    <3>2. PublishSelf \/ PersistStatus \/ DisableModules
      BY <1>4, <2>1, <3>1, AgentAtWork
         DEF Perform, SaveState, PublishRequest, TellParent, ScheduleCallback,
             CancelCallbacks, Reload
    <3>3. todo' = Tail(todo) /\ tries' = tries /\ working' = working
      BY <3>2 DEF PublishSelf, PersistStatus, DisableModules, Step
    <3>4. Tail(todo) \in AgentTodos \cup {<<>>}
      BY <3>1, AgentStep
    <3>5. CASE modules
      <4>1. DisableModules
        BY <2>1, <3>1, <3>2, <3>5, AgentAtWork DEF PublishSelf, PersistStatus, Effect
      <4> QED BY <3>3, <3>4, <4>1 DEF DisableModules, Stopped
    <3>6. CASE ~modules
      <4>1. ~modules'
        BY <3>2, <3>6 DEF PublishSelf, PersistStatus, DisableModules
      <4> QED BY <3>3, <3>4, <4>1 DEF Stopped
    <3> QED BY <3>5, <3>6
  <2>3. CASE status # "stopped"
    <3>1. CASE PersistStatus /\ Head(todo).status = "stopped"
      <4>1. Tail(todo) = Disable /\ todo' = Tail(todo)
        BY <2>1, <3>1, AgentAtWork DEF PersistStatus, Step, Terminal
      <4> QED BY <1>1, <2>3, <4>1 DEF Stopped
    <3>2. CASE ~(PersistStatus /\ Head(todo).status = "stopped")
      <4>1. status' # "stopped"
        BY <1>4, <2>3, <3>2
           DEF Perform, SaveState, PublishSelf, PublishRequest, TellParent, ScheduleCallback,
               CancelCallbacks, Reload, PersistStatus, DisableModules
      <4> QED BY <2>3, <4>1 DEF Stopped
    <3> QED BY <3>1, <3>2
  <2> QED BY <2>2, <2>3
<1>5. ASSUME NEW w \in working, Answer(w)
      PROVE  Stopped' /\ (status = "stopped" => tries' = tries /\ working' \subseteq working)
  BY <1>5 DEF Answer, Stopped
<1>6. ASSUME NEW c \in armed, Fire(c)
      PROVE  Stopped' /\ (status = "stopped" => tries' = tries /\ working' \subseteq working)
  BY <1>6 DEF Fire, Stopped
<1>7. ASSUME NEW m \in retrying, Redeliver(m)
      PROVE  Stopped' /\ (status = "stopped" => tries' = tries /\ working' \subseteq working)
  BY <1>7 DEF Redeliver, Stopped
<1>8. CASE RequestStop
  BY <1>8 DEF RequestStop, Stopped
<1>9. CASE PublishFails
  <2>1. /\ todo # <<>> /\ ~Effect("disable")
        /\ todo' = <<>> /\ UNCHANGED <<status, modules, tries, working>>
    BY <1>9 DEF PublishFails, Effect
  <2>2. todo # Disable
    BY <2>1, AgentAtWork
  <2> QED BY <1>1, <2>1, <2>2 DEF Stopped
<1>10. CASE Crash
  <2>1. modules' = (status \notin Terminal) /\ todo' = <<>> /\ UNCHANGED <<status, tries, working>>
    BY <1>10 DEF Crash
  <2>2. status = "stopped" => ~modules'
    BY <2>1 DEF Terminal
  <2> QED BY <2>1, <2>2 DEF Stopped
<1>11. CASE UNCHANGED vars
  BY <1>11 DEF vars, Stopped
<1> QED BY <1>2, <1>3, <1>4, <1>5, <1>6, <1>7, <1>8, <1>9, <1>10, <1>11 DEF Next

\* Nothing is requested of an executor once the run is stopped, whatever its
\* mailbox, its executors and its callbacks still hold (HandleWorkflowStopped,
\* DisableExecutionModules, ApplyWorkflowStopped).
THEOREM StoppedRunIsIdle == Spec => NoWorkAfterStop
<1>1. Init => Stopped
  BY Zenon DEF Init, Stopped
<1>2. TypeInv /\ Stopped /\ [Next]_vars =>
          Stopped' /\ (status = "stopped" => tries' = tries /\ working' \subseteq working)
  BY StoppedStep
<1> QED BY <1>1, <1>2, TypesHold, PTL DEF Spec, NoWorkAfterStop

-----------------------------------------------------------------------------
(* The line of envelopes                                                   *)

\* The envelope at work, before those that wait.
Line == IF todo = <<>> THEN mailbox ELSE <<now>> \o mailbox

Opening(m) == m.type \in {"chat", "start"}
Ending(m) == m.type = "runCompleted"

\* At most one envelope of the line opens the run.
Lone(L) == \A i, j \in DOMAIN L : Opening(L[i]) /\ Opening(L[j]) => i = j
NoOpening(L) == \A m \in Range(L) : ~Opening(m)
NoEnding(L) == \A m \in Range(L) : ~Ending(m)

LEMMA RangeAppended ==
    ASSUME NEW S, NEW L \in Seq(S), NEW e \in S
    PROVE  Append(L, e) \in Seq(S) /\ Append(L, e) # <<>> /\ Range(Append(L, e)) = Range(L) \cup {e}
<1>1. Append(L, e) = L \o <<e>> /\ <<e>> \in Seq(S) /\ Append(L, e) \in Seq(S) /\ Append(L, e) # <<>>
  BY AppendIsConcat
<1>2. Range(L \o <<e>>) = Range(L) \cup Range(<<e>>)
  BY <1>1, RangeConcatenation
<1>3. Range(<<e>>) = {e}
  <2>1. DOMAIN <<e>> = {1} /\ <<e>>[1] = e
    OBVIOUS
  <2> QED BY <2>1 DEF Range
<1> QED BY <1>1, <1>2, <1>3

LEMMA RangePrefixed ==
    ASSUME NEW S, NEW L \in Seq(S), NEW e \in S
    PROVE  /\ <<e>> \o L \in Seq(S) /\ <<e>> \o L # <<>>
           /\ Head(<<e>> \o L) = e /\ Tail(<<e>> \o L) = L
           /\ Range(<<e>> \o L) = {e} \cup Range(L)
<1>1. <<e>> \in Seq(S) /\ <<e>> # <<>> /\ Head(<<e>>) = e /\ Tail(<<e>>) = <<>>
  OBVIOUS
<1>2. /\ <<e>> \o L \in Seq(S) /\ <<e>> \o L # <<>>
      /\ Head(<<e>> \o L) = e /\ Tail(<<e>> \o L) = <<>> \o L
  BY <1>1, JoinedTail, Joined
<1>3. <<>> \o L = L
  BY ConcatEmptySeq
<1>4. Range(<<e>> \o L) = Range(<<e>>) \cup Range(L)
  BY <1>1, RangeConcatenation
<1>5. Range(<<e>>) = {e}
  <2>1. DOMAIN <<e>> = {1} /\ <<e>>[1] = e
    OBVIOUS
  <2> QED BY <2>1 DEF Range
<1> QED BY <1>2, <1>3, <1>4, <1>5

LEMMA RangeTaken ==
    ASSUME NEW S, NEW L \in Seq(S), L # <<>>
    PROVE  /\ Head(L) \in S /\ Tail(L) \in Seq(S)
           /\ Range(L) = {Head(L)} \cup Range(Tail(L))
           /\ L = <<Head(L)>> \o Tail(L)
<1>1. Head(L) \in S /\ Tail(L) \in Seq(S)
  OBVIOUS
<1>2. L = <<Head(L)>> \o Tail(L)
  <2>1. /\ Len(L) \in Nat \ {0} /\ Head(L) = L[1]
        /\ Len(Tail(L)) = Len(L) - 1
        /\ \A i \in 1 .. Len(Tail(L)) : Tail(L)[i] = L[i + 1]
    BY HeadTailProperties, EmptySeq, LenProperties
  <2> DEFINE h == <<Head(L)>>
             R == h \o Tail(L)
  <2>2. h \in Seq(S) /\ Len(h) = 1 /\ h[1] = Head(L)
    BY <1>1
  <2> HIDE DEF h
  <2>3. R \in Seq(S) /\ Len(R) = Len(L)
        /\ \A i \in 1 .. Len(L) : R[i] = IF i <= 1 THEN h[i] ELSE Tail(L)[i - 1]
    <3>1. /\ R \in Seq(S) /\ Len(R) = Len(h) + Len(Tail(L))
          /\ \A i \in 1 .. Len(h) + Len(Tail(L)) :
                 R[i] = IF i <= Len(h) THEN h[i] ELSE Tail(L)[i - Len(h)]
      BY <1>1, <2>2, ConcatProperties
    <3>2. Len(h) + Len(Tail(L)) = Len(L)
      BY <2>1, <2>2
    <3> QED BY <2>2, <3>1, <3>2
  <2> HIDE DEF R
  <2>4. \A i \in 1 .. Len(L) : R[i] = L[i]
    <3> SUFFICES ASSUME NEW i \in 1 .. Len(L) PROVE R[i] = L[i]
      OBVIOUS
    <3>1. CASE i = 1
      BY <2>1, <2>2, <2>3, <3>1
    <3>2. CASE i # 1
      <4>1. i - 1 \in 1 .. Len(Tail(L)) /\ ~(i <= 1) /\ i - 1 + 1 = i
        BY <2>1, <3>2
      <4>2. R[i] = Tail(L)[i - 1]
        BY <2>3, <4>1
      <4> QED BY <2>1, <4>1, <4>2
    <3> QED BY <3>1, <3>2
  <2>5. L = R
    BY <2>3, <2>4, SeqEqual
  <2> QED BY <2>5 DEF R, h
<1>3. Range(<<Head(L)>> \o Tail(L)) = {Head(L)} \cup Range(Tail(L))
  BY <1>1, RangePrefixed
<1> QED BY <1>1, <1>2, <1>3

LEMMA LoneAppended ==
    ASSUME NEW S, NEW L \in Seq(S), NEW e \in S, Lone(L), Opening(e) => NoOpening(L)
    PROVE  Lone(Append(L, e))
<1> DEFINE A == Append(L, e)
<1>1. /\ DOMAIN A = 1 .. Len(L) + 1 /\ DOMAIN L = 1 .. Len(L) /\ Len(L) \in Nat
      /\ \A i \in 1 .. Len(L) : A[i] = L[i]
      /\ A[Len(L) + 1] = e
  BY AppendProperties, LenProperties
<1> HIDE DEF A
<1>2. \A i \in DOMAIN L : L[i] \in Range(L)
  BY DEF Range
<1>3. \A i, j \in DOMAIN A : Opening(A[i]) /\ Opening(A[j]) => i = j
  <2> SUFFICES ASSUME NEW i \in DOMAIN A, NEW j \in DOMAIN A, Opening(A[i]), Opening(A[j])
               PROVE  i = j
    OBVIOUS
  <2>1. CASE i \in 1 .. Len(L) /\ j \in 1 .. Len(L)
    BY <1>1, <2>1 DEF Lone
  <2>2. CASE i = Len(L) + 1 /\ j \in 1 .. Len(L)
    BY <1>1, <1>2, <2>2 DEF NoOpening
  <2>3. CASE j = Len(L) + 1 /\ i \in 1 .. Len(L)
    BY <1>1, <1>2, <2>3 DEF NoOpening
  <2>4. CASE i = Len(L) + 1 /\ j = Len(L) + 1
    BY <2>4
  <2> QED BY <1>1, <2>1, <2>2, <2>3, <2>4
<1> QED BY <1>3 DEF Lone, A

LEMMA LoneTaken ==
    ASSUME NEW S, NEW L \in Seq(S), L # <<>>, Lone(L)
    PROVE  Lone(Tail(L)) /\ (Opening(Head(L)) => NoOpening(Tail(L)))
<1>1. /\ DOMAIN L = 1 .. Len(L) /\ Len(L) \in Nat \ {0} /\ Head(L) = L[1]
      /\ DOMAIN Tail(L) = 1 .. Len(L) - 1
      /\ \A i \in 1 .. Len(L) - 1 : Tail(L)[i] = L[i + 1]
  BY HeadTailProperties, EmptySeq, LenProperties
<1>2. \A i \in DOMAIN Tail(L) : i + 1 \in DOMAIN L /\ i + 1 # 1 /\ i \in Nat /\ Tail(L)[i] = L[i + 1]
  BY <1>1
<1>3. 1 \in DOMAIN L
  BY <1>1
<1>4. ASSUME NEW i \in DOMAIN Tail(L), NEW j \in DOMAIN Tail(L),
             Opening(Tail(L)[i]), Opening(Tail(L)[j])
      PROVE  i = j
  <2>1. i + 1 = j + 1
    BY <1>2, <1>4 DEF Lone
  <2> QED BY <1>2, <2>1
<1>5. ASSUME Opening(Head(L)), NEW i \in DOMAIN Tail(L), Opening(Tail(L)[i])
      PROVE  FALSE
  <2>1. Opening(L[1]) /\ Opening(L[i + 1])
    BY <1>1, <1>2, <1>5
  <2> QED BY <1>2, <1>3, <2>1 DEF Lone
<1> QED BY <1>4, <1>5 DEF Lone, NoOpening, Range

-----------------------------------------------------------------------------
(* One course of a run                                                     *)

Ended(st) == st \in {"completed", "failed"}
OutcomeStatus(m) == IF m.result = "ok" THEN "completed" ELSE "failed"

\* The kernel does nothing for a state that is cleared or knows no step, and a
\* start finds nothing else than that or a dispatch to resume.
Unstarted(k) == k.step = NoStep /\ ~k.pending /\ \A s \in Steps : k.backoffs[s] = NoBackoff
Dead(k) == k.active => Unstarted(k)
Early(k) == k.active => k.pending \/ Unstarted(k)

\* The run has an outcome, on its way or recorded.
Over(L, t, st) == t # <<>> \/ Ended(st) \/ ~NoEnding(L)
Bare(L, t, st) == ~Over(L, t, st) /\ NoOpening(L)

\* An envelope that opens the run is the only one, comes before any outcome, and
\* waits only while the kernel is idle.
OpeningInv(L, t, st, k) ==
    /\ Lone(L)
    /\ ~NoOpening(L) =>
           /\ t = <<>> /\ ~Ended(st) /\ Early(k)
           /\ \A m \in Range(L) : Ending(m) => m.result = "active" /\ k.active /\ Dead(k)
    /\ \A m \in Range(L) : m.type = "chat" => ~k.active /\ NoEnding(L)
    /\ L # <<>> /\ ~NoOpening(Tail(L)) => ~k.active /\ NoEnding(L)

\* Outcomes that wait agree with each other and with the recorded one.
Agreed(L, st) ==
    \A m \in Range(L) : Ending(m) =>
        /\ Ended(st) => st = OutcomeStatus(m)
        /\ \A n \in Range(L) : Ending(n) => OutcomeStatus(n) = OutcomeStatus(m)

Coherent(L, t, st, k) ==
    OpeningInv(L, t, st, k) /\ (Over(L, t, st) => Dead(k)) /\ Agreed(L, st)

\* Other envelopes join the line at any time.
LEMMA CoherentJoined ==
    ASSUME NEW L \in Seq(Envelope), NEW e \in Envelope, NEW t, NEW st, NEW k,
           Coherent(L, t, st, k), ~Opening(e), ~Ending(e)
    PROVE  Coherent(Append(L, e), t, st, k)
<1> DEFINE A == Append(L, e)
<1>1. A \in Seq(Envelope) /\ A # <<>> /\ Range(A) = Range(L) \cup {e}
  BY RangeAppended
<1>2. Lone(A)
  BY LoneAppended DEF Coherent, OpeningInv
<1>3. /\ L = <<>> => Tail(A) = <<>>
      /\ L # <<>> => Tail(A) = Append(Tail(L), e)
  BY HeadTailAppend
<1>4. NoOpening(Tail(A)) \/ (L # <<>> /\ ~NoOpening(Tail(L)))
  <2>1. CASE L = <<>>
    <3>1. Range(Tail(A)) = {}
      BY <1>3, <2>1 DEF Range
    <3> QED BY <3>1 DEF NoOpening
  <2>2. CASE L # <<>>
    <3>1. Tail(L) \in Seq(Envelope)
      BY <2>2, RangeTaken
    <3>2. \A R \in Seq(Envelope) : Range(Append(R, e)) = Range(R) \cup {e}
      BY RangeAppended
    <3>3. Tail(A) = Append(Tail(L), e)
      BY <1>3, <2>2
    <3> HIDE DEF A
    <3>4. Range(Tail(A)) = Range(Tail(L)) \cup {e}
      BY <3>1, <3>2, <3>3
    <3> QED BY <2>2, <3>4 DEF NoOpening
  <2> QED BY <2>1, <2>2
<1> HIDE DEF A
<1>5. (NoEnding(A) <=> NoEnding(L)) /\ (NoOpening(A) <=> NoOpening(L))
  BY <1>1 DEF NoEnding, NoOpening
<1>6. e.type # "chat"
  BY DEF Opening
<1>7. OpeningInv(A, t, st, k)
  <2>1. /\ ~NoOpening(A) => t = <<>> /\ ~Ended(st) /\ Early(k)
        /\ ~NoOpening(A) =>
               \A m \in Range(A) : Ending(m) => m.result = "active" /\ k.active /\ Dead(k)
    BY <1>1, <1>5 DEF Coherent, OpeningInv
  <2>2. \A m \in Range(A) : m.type = "chat" => ~k.active /\ NoEnding(A)
    BY <1>1, <1>5, <1>6 DEF Coherent, OpeningInv
  <2>3. A # <<>> /\ ~NoOpening(Tail(A)) => ~k.active /\ NoEnding(A)
    BY <1>4, <1>5 DEF Coherent, OpeningInv
  <2> QED BY <1>2, <2>1, <2>2, <2>3 DEF OpeningInv
<1>8. Over(A, t, st) => Dead(k)
  BY <1>5 DEF Coherent, Over
<1>9. Agreed(A, st)
  BY <1>1 DEF Coherent, Agreed
<1> QED BY <1>7, <1>8, <1>9 DEF Coherent, A

\* The first leaves the line when its handler is done.
LEMMA CoherentLeft ==
    ASSUME NEW L \in Seq(Envelope), L # <<>>, NEW t, NEW st, NEW k, Coherent(L, t, st, k)
    PROVE  Coherent(Tail(L), t, st, k)
<1> DEFINE R == Tail(L)
<1>1. R \in Seq(Envelope) /\ Range(L) = {Head(L)} \cup Range(R)
  BY RangeTaken
<1>2. Lone(R)
  BY LoneTaken DEF Coherent, OpeningInv
<1>3. R # <<>> => Range(Tail(R)) \subseteq Range(R)
  BY <1>1, RangeTaken
<1> HIDE DEF R
<1>4. /\ NoEnding(L) => NoEnding(R)
      /\ NoOpening(L) => NoOpening(R)
      /\ R # <<>> /\ NoOpening(R) => NoOpening(Tail(R))
  BY <1>1, <1>3 DEF NoEnding, NoOpening
<1>5. L # <<>> /\ ~NoOpening(R) => ~k.active /\ NoEnding(L)
  BY DEF Coherent, OpeningInv, R
<1>6. OpeningInv(R, t, st, k)
  <2>1. ~NoOpening(R) => t = <<>> /\ ~Ended(st) /\ Early(k) /\ NoEnding(R)
    BY <1>4, <1>5 DEF Coherent, OpeningInv
  <2>2. \A m \in Range(R) : m.type = "chat" => ~k.active /\ NoEnding(R)
    BY <1>1, <1>4 DEF Coherent, OpeningInv
  <2>3. R # <<>> /\ ~NoOpening(Tail(R)) => ~k.active /\ NoEnding(R)
    BY <1>4, <1>5
  <2> QED BY <1>2, <2>1, <2>2, <2>3 DEF OpeningInv, NoEnding
<1>7. Over(R, t, st) => Dead(k)
  BY <1>4 DEF Coherent, Over
<1>8. Agreed(R, st)
  BY <1>1 DEF Coherent, Agreed
<1> QED BY <1>6, <1>7, <1>8 DEF Coherent, R

\* Before any outcome and with nothing to open the run, every state is coherent.
LEMMA BareCoherent ==
    ASSUME NEW L \in Seq(Envelope), NEW t, NEW st, NEW k, Bare(L, t, st)
    PROVE  Coherent(L, t, st, k)
<1>1. L # <<>> => Range(Tail(L)) \subseteq Range(L)
  BY RangeTaken
<1>2. L # <<>> => NoOpening(Tail(L))
  BY <1>1 DEF Bare, NoOpening
<1>3. Lone(L)
  BY DEF Bare, NoOpening, Lone, Range
<1>4. \A m \in Range(L) : m.type # "chat"
  BY DEF Bare, NoOpening, Opening
<1> QED BY <1>2, <1>3, <1>4 DEF Coherent, OpeningInv, Agreed, Bare, Over, NoEnding

\* A chat request is answered with a start, at the end of the line.
LEMMA StartQueued ==
    ASSUME NEW L \in Seq(Envelope), NEW e \in Envelope, NEW t, NEW st, NEW k,
           Bare(L, t, st), ~k.active, e.type = "start"
    PROVE  Coherent(Append(L, e), t, st, k)
<1> DEFINE A == Append(L, e)
<1>1. Range(A) = Range(L) \cup {e}
  BY RangeAppended
<1>2. Lone(A)
  <2>1. Lone(L)
    BY DEF Bare, NoOpening, Lone, Range
  <2> QED BY <2>1, LoneAppended DEF Bare
<1> HIDE DEF A
<1>3. NoEnding(A)
  BY <1>1 DEF Bare, Over, NoEnding, Ending
<1>4. t = <<>> /\ ~Ended(st) /\ Early(k)
  BY DEF Bare, Over, Early
<1>5. OpeningInv(A, t, st, k)
  BY <1>2, <1>3, <1>4 DEF OpeningInv, NoEnding
<1>6. ~Over(A, t, st) /\ Agreed(A, st)
  BY <1>3, <1>4 DEF Over, Agreed, NoEnding
<1> QED BY <1>5, <1>6 DEF Coherent, A

LEMMA RunBegins ==
    ASSUME NEW L, NEW t, NEW st, NEW k, Coherent(L, t, st, k), ~NoOpening(L)
    PROVE  Coherent(L, t, "running", k)
<1>1. ~Ended(st) /\ ~Ended("running")
  BY DEF Coherent, OpeningInv, Ended
<1> QED BY <1>1 DEF Coherent, OpeningInv, Over, Agreed

\* The handler of a start saves states that a start may find again.
LEMMA StartSaves ==
    ASSUME NEW L \in Seq(Envelope), NEW t, NEW st, NEW k, NEW new, L # <<>>,
           Head(L).type = "start", Coherent(L, t, st, k), NoEnding(L), Early(new)
    PROVE  Coherent(L, t, st, new)
<1>1. NoOpening(Tail(L)) /\ Lone(L)
  BY LoneTaken DEF Coherent, OpeningInv, Opening
<1>2. Range(L) = {Head(L)} \cup Range(Tail(L))
  BY RangeTaken
<1>3. \A m \in Range(L) : m.type # "chat"
  BY <1>1, <1>2 DEF NoOpening, Opening
<1>4. ~NoOpening(L)
  BY <1>2 DEF NoOpening, Opening
<1>5. t = <<>> /\ ~Ended(st)
  BY <1>4 DEF Coherent, OpeningInv
<1> QED BY <1>1, <1>3, <1>5 DEF Coherent, OpeningInv, Over, Agreed, NoEnding

\* A start that finds the run active reports it failed.
LEMMA StartRejected ==
    ASSUME NEW L \in Seq(Envelope), NEW e \in Envelope, NEW t, NEW st, NEW k, L # <<>>,
           Head(L).type = "start", Coherent(L, t, st, k), k.active, Dead(k),
           Ending(e), e.result = "active"
    PROVE  Coherent(Append(L, e), t, st, k)
<1> DEFINE A == Append(L, e)
<1>1. Range(A) = Range(L) \cup {e} /\ A # <<>>
  BY RangeAppended
<1>2. NoOpening(Tail(L)) /\ Lone(L)
  BY LoneTaken DEF Coherent, OpeningInv, Opening
<1>3. Range(L) = {Head(L)} \cup Range(Tail(L)) /\ Tail(L) \in Seq(Envelope)
  BY RangeTaken
<1>4. ~NoOpening(L)
  BY <1>3 DEF NoOpening, Opening
<1>5. /\ t = <<>> /\ ~Ended(st) /\ Early(k)
      /\ \A m \in Range(L) : Ending(m) => m.result = "active"
  BY <1>4 DEF Coherent, OpeningInv
<1>6. ~Opening(e)
  BY DEF Opening, Ending
<1>7. Lone(A)
  BY <1>2, <1>6, LoneAppended
<1>8. NoOpening(Tail(A))
  <2>1. \A R \in Seq(Envelope) : Range(Append(R, e)) = Range(R) \cup {e}
    BY RangeAppended
  <2>2. Tail(A) = Append(Tail(L), e)
    BY <1>3, HeadTailAppend
  <2> HIDE DEF A
  <2> QED BY <1>2, <1>3, <1>6, <2>1, <2>2 DEF NoOpening
<1> HIDE DEF A
<1>9. \A m \in Range(A) : m.type # "chat"
  BY <1>1, <1>2, <1>3, <1>6 DEF NoOpening, Opening
<1>10. \A m \in Range(A) : Ending(m) => m.result = "active"
  BY <1>1, <1>5
<1>11. OpeningInv(A, t, st, k)
  BY <1>5, <1>7, <1>8, <1>9, <1>10 DEF OpeningInv
<1>12. Agreed(A, st)
  BY <1>5, <1>10 DEF Agreed, OutcomeStatus
<1> QED BY <1>11, <1>12 DEF Coherent, A

\* A run that was cleared publishes its outcome.
LEMMA OutcomeQueued ==
    ASSUME NEW L \in Seq(Envelope), NEW e \in Envelope, NEW t, NEW st, NEW k,
           Bare(L, t, st), Dead(k), Ending(e)
    PROVE  Coherent(Append(L, e), t, st, k)
<1> DEFINE A == Append(L, e)
<1>1. A \in Seq(Envelope) /\ A # <<>> /\ Range(A) = Range(L) \cup {e}
  BY RangeAppended
<1>2. NoOpening(A)
  BY <1>1 DEF Bare, NoOpening, Opening, Ending
<1>3. Range(Tail(A)) \subseteq Range(A)
  BY <1>1, RangeTaken
<1> HIDE DEF A
<1>4. NoOpening(Tail(A)) /\ Lone(A) /\ \A m \in Range(A) : m.type # "chat"
  BY <1>2, <1>3 DEF NoOpening, Lone, Opening, Range
<1>5. ~Ended(st) /\ NoEnding(L)
  BY DEF Bare, Over
<1>6. Agreed(A, st)
  BY <1>1, <1>5 DEF Agreed, NoEnding
<1> QED BY <1>2, <1>4, <1>6 DEF Coherent, OpeningInv, A

LEMMA ParentTold ==
    ASSUME NEW L, NEW t, NEW st, NEW k, NEW new, Coherent(L, t, st, k), NoOpening(L), Dead(k)
    PROVE  Coherent(L, new, st, k)
BY DEF Coherent, OpeningInv

\* The outcome is recorded.
LEMMA RunRecorded ==
    ASSUME NEW L \in Seq(Envelope), NEW t, NEW st, NEW k, L # <<>>, Ending(Head(L)),
           Coherent(L, t, st, k)
    PROVE  Coherent(L, t, OutcomeStatus(Head(L)), k)
<1>1. Range(L) = {Head(L)} \cup Range(Tail(L))
  BY RangeTaken
<1>2. ~NoEnding(L)
  BY <1>1 DEF NoEnding
<1>3. NoOpening(L)
  <2>1. NoOpening(Tail(L))
    BY <1>2 DEF Coherent, OpeningInv
  <2> QED BY <1>1, <2>1 DEF NoOpening, Opening, Ending
<1>4. Dead(k)
  BY <1>2 DEF Coherent, Over
<1>5. Agreed(L, OutcomeStatus(Head(L)))
  BY <1>1 DEF Coherent, Agreed
<1> QED BY <1>3, <1>4, <1>5 DEF Coherent, OpeningInv

\* A stop clears the kernel, whatever the status was.
LEMMA RunStopped ==
    ASSUME NEW L \in Seq(Envelope), NEW t, NEW st, NEW k, NEW new, L # <<>>, ~Opening(Head(L)),
           Coherent(L, t, st, k), ~new.active
    PROVE  Coherent(L, t, "stopped", new) /\ Coherent(L, t, st, new)
<1>1. Range(L) = {Head(L)} \cup Range(Tail(L))
  BY RangeTaken
<1>2. ~NoOpening(L) => ~NoOpening(Tail(L))
  BY <1>1 DEF NoOpening
<1>3. ~NoOpening(L) => NoEnding(L)
  BY <1>2 DEF Coherent, OpeningInv
<1>4. Early(new) /\ Dead(new) /\ ~Ended("stopped")
  BY DEF Early, Dead, Ended
<1>5. OpeningInv(L, t, "stopped", new) /\ OpeningInv(L, t, st, new)
  BY <1>3, <1>4 DEF Coherent, OpeningInv, NoEnding
<1> QED BY <1>4, <1>5 DEF Coherent, Agreed

-----------------------------------------------------------------------------
(* What the handlers of one course have left to do                         *)

\* A start saves states it may find again, until the last of them.
EarlyEffect == {e \in SaveEffect : Early(e.k)} \cup RequestEffect \cup ArmEffect
Starting(c) == \E p \in Seq(EarlyEffect), k \in KernelState : c = p \o Save(k)
Rejection == Outcome("active", NoStep)

StopWork(c) ==
    \E leases \in SUBSET LeaseType : c = Save(Idle) \o CancelAll(leases) \/ c = CancelAll(leases)

AtWork(L, t, st, k, c, m) ==
    /\ m.type = "chat" =>
           c \in {Persist("running") \o Post(StartMessage), Post(StartMessage)}
    /\ m.type = "start" =>
           \/ Starting(c) /\ NoEnding(L)
           \/ c \in {Rejection, Tail(Rejection)} /\ k.active /\ Dead(k)
    /\ m.type \in {"completed", "timeout", "backoff"} =>
           /\ NoOpening(L)
           /\ \/ Course(c) /\ ~Over(L, t, st)
              \/ (Cancelling(c) \/ Closing(c)) /\ ~Over(L, t, st) /\ Dead(k)
              \/ Telling(c) /\ t = <<>> /\ Dead(k)
    /\ m.type = "runCompleted" => c \in {Persist(OutcomeStatus(m)) \o Disable, Disable}
    /\ m.type = "stop" => c \in {Persist("stopped") \o Disable, Disable} \/ StopWork(c)

LEMMA StartingStep ==
    ASSUME NEW c, Starting(c)
    PROVE  /\ c # <<>>
           /\ \/ Head(c) \in EarlyEffect /\ Tail(c) # <<>> /\ Starting(Tail(c))
              \/ Head(c).do = "save" /\ Head(c).k \in KernelState /\ Tail(c) = <<>>
<1>1. PICK p \in Seq(EarlyEffect), k \in KernelState : c = p \o Save(k)
  BY DEF Starting
<1> DEFINE e == [do |-> "save", k |-> k, enters |-> {}]
           S == EarlyEffect \cup {e}
<1>2. Save(k) = <<e>>
  BY DEF Save
<1>3. e.do = "save" /\ e.k = k
  OBVIOUS
<1> HIDE DEF e
<1>4. p \in Seq(S) /\ <<e>> \in Seq(S)
  OBVIOUS
<1>5. CASE p = <<>>
  <2>1. c = <<e>>
    BY <1>1, <1>2, <1>4, <1>5, ConcatEmptySeq
  <2>2. Head(c) = e /\ Tail(c) = <<>> /\ c # <<>>
    BY <2>1
  <2> QED BY <1>3, <2>2
<1>6. CASE p # <<>>
  <2>1. c # <<>> /\ Head(c) = Head(p) /\ Tail(c) = Tail(p) \o Save(k)
    BY <1>1, <1>2, <1>4, <1>6, JoinedTail
  <2>2. Head(p) \in EarlyEffect /\ Tail(p) \in Seq(EarlyEffect)
    BY <1>6
  <2>3. Starting(Tail(c))
    BY <2>1, <2>2 DEF Starting
  <2>4. Tail(p) \o <<e>> # <<>>
    <3>1. Tail(p) \in Seq(S) /\ Len(Tail(p) \o <<e>>) = Len(Tail(p)) + 1 /\ Len(Tail(p)) \in Nat
      BY <1>4, <2>2, ConcatProperties
    <3> QED BY <3>1
  <2> QED BY <1>2, <2>1, <2>2, <2>3, <2>4
<1> QED BY <1>5, <1>6

LEMMA StartingPrefixed ==
    ASSUME NEW x \in Seq(EarlyEffect), NEW c, Starting(c)
    PROVE  Starting(x \o c)
<1>1. PICK p \in Seq(EarlyEffect), k \in KernelState : c = p \o Save(k)
  BY DEF Starting
<1> DEFINE S == EarlyEffect \cup SaveEffect
<1>2. Save(k) \in Seq(S)
  BY DEF Save, SaveEffect
<1>3. x \in Seq(S) /\ p \in Seq(S)
  OBVIOUS
<1>4. x \o (p \o Save(k)) = (x \o p) \o Save(k)
  BY <1>2, <1>3, ConcatAssociative
<1>5. x \o p \in Seq(EarlyEffect)
  BY Joined
<1> QED BY <1>1, <1>4, <1>5 DEF Starting

LEMMA EarlyPieces ==
    ASSUME NEW k \in KernelState, Early(k)
    PROVE  Save(k) \in Seq(EarlyEffect)
<1>1. [do |-> "save", k |-> k, enters |-> {}] \in EarlyEffect
  BY DEF EarlyEffect, SaveEffect
<1> QED BY <1>1 DEF Save

LEMMA EarlyArm ==
    ASSUME NEW cb \in Due, NEW attempt \in Nat
    PROVE  Arm(cb, attempt) \in Seq(EarlyEffect)
<1>1. [do |-> "arm", cb |-> cb, attempt |-> attempt] \in EarlyEffect
  BY DEF EarlyEffect, ArmEffect
<1> QED BY <1>1 DEF Arm

LEMMA EarlyRequest ==
    ASSUME NEW s \in Steps, NEW attempt \in Nat, NEW scheduled \in BOOLEAN
    PROVE  Request(s, attempt, scheduled) \in Seq(EarlyEffect)
<1>1. [do |-> "request", step |-> s, attempt |-> attempt, scheduled |-> scheduled] \in EarlyEffect
  BY DEF EarlyEffect, RequestEffect
<1> QED BY <1>1 DEF Request

LEMMA DispatchStarts ==
    ASSUME NEW s \in Steps, NEW k \in KernelState, NEW m \in Envelope, ids \in Nat
    PROVE  Starting(Dispatch(s, k, m, TRUE))
<1> DEFINE done == Dispatched(s, k, m)
           waiting == [done EXCEPT !.pending = TRUE]
           first == [waiting EXCEPT !.timeouts[s] = k.timeouts[s]]
           saved == <<[do |-> "save", k |-> first, enters |-> {s}]>>
           timer == IF s \in Timed THEN Arm(done.cb, ids + 1) \o Save(waiting) ELSE <<>>
           asked == Request(s, ids + 1, s \in Timed)
<1>0. ids + 1 \in Nat
  OBVIOUS
<1>1. done \in KernelState /\ waiting \in KernelState
  BY DispatchTyped
<1>2. s \in Timed => done.cb \in Due
  <2>1. m.id \in Nat
    BY DEF Envelope, EnvelopeType
  <2>2. k \in KernelType
    BY DEF KernelState
  <2>3. s \in Timed => done.cb = Callback("timeout", s, m.id)
    BY <2>2 DEF Dispatched, KernelType
  <2> QED BY <2>1, <2>3 DEF Callback, Due
<1>3. waiting.pending
  BY <1>1 DEF KernelState, KernelType
<1>4. k.timeouts[s] \in LeaseType
  BY KernelParts
<1>5. Dispatch(s, k, m, TRUE) = saved \o timer \o asked \o Save(done)
  BY DEF Dispatch
<1> HIDE DEF done, waiting
<1>6. first \in KernelState /\ first.pending
  <2>1. first \in KernelState
    BY <1>1, <1>4, TimeoutSet
  <2>2. first.pending = waiting.pending
    BY <1>1 DEF KernelState, KernelType
  <2> QED BY <1>3, <2>1, <2>2
<1> HIDE DEF first
<1>7. saved \in Seq(EarlyEffect)
  <2>1. [do |-> "save", k |-> first, enters |-> {s}] \in EarlyEffect
    BY <1>6 DEF EarlyEffect, SaveEffect, Early
  <2> QED BY <2>1
<1>8. timer \in Seq(EarlyEffect)
  <2>1. Save(waiting) \in Seq(EarlyEffect)
    BY <1>1, <1>3, EarlyPieces DEF Early
  <2>2. s \in Timed => Arm(done.cb, ids + 1) \in Seq(EarlyEffect)
    BY <1>0, <1>2, EarlyArm
  <2>3. <<>> \in Seq(EarlyEffect)
    OBVIOUS
  <2> QED BY <2>1, <2>2, <2>3, Joined
<1>9. asked \in Seq(EarlyEffect)
  <2>1. Request(s, ids + 1, TRUE) \in Seq(EarlyEffect) /\ Request(s, ids + 1, FALSE) \in Seq(EarlyEffect)
    BY <1>0, EarlyRequest
  <2>2. (s \in Timed) = TRUE \/ (s \in Timed) = FALSE
    OBVIOUS
  <2> QED BY <2>1, <2>2
<1> HIDE DEF saved, timer, asked
<1>10. saved \o timer \o asked \in Seq(EarlyEffect)
  <2>1. saved \o timer \in Seq(EarlyEffect)
    BY <1>7, <1>8, Joined
  <2> QED BY <1>9, <2>1, Joined
<1> QED BY <1>1, <1>5, <1>10 DEF Starting

LEMMA ResumeStarts ==
    ASSUME NEW k \in KernelState, k.pending
    PROVE  Starting(Resume(k))
<1> DEFINE s == k.step
           arms == k.timeouts[s] = NoLease /\ k.cb # NoCallback
           waiting == IF arms THEN [k EXCEPT !.timeouts[s] = [cb |-> k.cb, gen |-> 0]] ELSE k
           timer == IF arms THEN Arm(k.cb, k.exec[s]) \o Save(waiting) ELSE <<>>
           ready == [waiting EXCEPT !.pending = FALSE]
<1>1. s \in Steps /\ k.exec[s] \in Nat /\ arms \in BOOLEAN
  BY DEF KernelState, KernelType
<1>2. k.cb \in Due \cup {NoCallback} /\ (arms => k.cb \in Due)
  BY DEF KernelState
<1>3. [cb |-> k.cb, gen |-> 0] \in LeaseType
  BY <1>2, LeasesTyped
<1>4. waiting \in KernelState
  BY <1>1, <1>3, TimeoutSet
<1>5. waiting.pending = k.pending
  BY DEF KernelState, KernelType
<1>6. Resume(k) = timer \o Request(s, k.exec[s], arms) \o Save(ready)
  BY DEF Resume
<1> HIDE DEF arms, waiting
<1>7. ready \in KernelState
  BY <1>4, PendingCleared
<1> HIDE DEF ready
<1>8. timer \in Seq(EarlyEffect)
  <2>1. arms => Arm(k.cb, k.exec[s]) \in Seq(EarlyEffect)
    BY <1>1, <1>2, EarlyArm
  <2>2. Save(waiting) \in Seq(EarlyEffect)
    BY <1>4, <1>5, EarlyPieces DEF Early
  <2>3. <<>> \in Seq(EarlyEffect)
    OBVIOUS
  <2> QED BY <2>1, <2>2, <2>3, Joined
<1>9. Request(s, k.exec[s], arms) \in Seq(EarlyEffect)
  BY <1>1, EarlyRequest
<1> HIDE DEF timer
<1>10. timer \o Request(s, k.exec[s], arms) \in Seq(EarlyEffect)
  BY <1>8, <1>9, Joined
<1> QED BY <1>6, <1>7, <1>10 DEF Starting

\* Other envelopes that join the line change nothing for the handler at work.
LEMMA AtWorkJoined ==
    ASSUME NEW L \in Seq(Envelope), NEW e \in Envelope, NEW t, NEW st, NEW k, NEW c, NEW m,
           AtWork(L, t, st, k, c, m), ~Opening(e), ~Ending(e)
    PROVE  AtWork(Append(L, e), t, st, k, c, m)
<1> DEFINE A == Append(L, e)
<1>1. Range(A) = Range(L) \cup {e}
  BY RangeAppended
<1> HIDE DEF A
<1>2. (NoEnding(A) <=> NoEnding(L)) /\ (NoOpening(A) <=> NoOpening(L))
  BY <1>1 DEF NoEnding, NoOpening
<1> QED BY <1>2 DEF AtWork, Over, A

-----------------------------------------------------------------------------
(* The line while a handler is at work                                     *)

Sound ==
    /\ Coherent(Line, told, status, kernel)
    /\ todo # <<>> => AtWork(Line, told, status, kernel, todo, now)

LEMMA LineTyped ==
    ASSUME TypeInv
    PROVE  /\ Line \in Seq(Envelope)
           /\ todo = <<>> => Line = mailbox
           /\ todo # <<>> => /\ Line # <<>> /\ Head(Line) = now /\ Tail(Line) = mailbox
                             /\ now \in Envelope /\ now \in Range(Line)
<1>1. mailbox \in Seq(Envelope) /\ (todo # <<>> => now \in Envelope)
  BY DEF TypeInv
<1>2. CASE todo = <<>>
  BY <1>1, <1>2 DEF Line
<1>3. CASE todo # <<>>
  <2>1. Line = <<now>> \o mailbox
    BY <1>3 DEF Line
  <2>2. /\ Line \in Seq(Envelope) /\ Line # <<>> /\ Head(Line) = now /\ Tail(Line) = mailbox
        /\ Range(Line) = {now} \cup Range(mailbox)
    BY <1>1, <1>3, <2>1, RangePrefixed
  <2> QED BY <1>1, <1>3, <2>2
<1> QED BY <1>2, <1>3

\* An effect that sends nothing.
LEMMA LineKept ==
    ASSUME TypeInv, todo # <<>>, Step, mailbox' = mailbox
    PROVE  /\ todo' # <<>> => Line' = Line /\ now' = now
           /\ todo' = <<>> => Line' = Tail(Line)
<1>1. todo' # <<>> => now' = now
  BY DEF Step
<1>2. Tail(Line) = mailbox /\ Line = <<now>> \o mailbox
  BY LineTyped DEF Line
<1> QED BY <1>1, <1>2 DEF Line

\* An effect that sends something.
LEMMA LineJoined ==
    ASSUME TypeInv, todo # <<>>, Step, NEW m \in Envelope, Send(m)
    PROVE  \E e \in Envelope :
               /\ e = [m EXCEPT !.id = ids + 1]
               /\ e.type = m.type /\ e.result = m.result
               /\ todo' # <<>> => Line' = Append(Line, e) /\ now' = now
               /\ todo' = <<>> => Line' = Append(Tail(Line), e) /\ Line' = Tail(Append(Line, e))
<1> DEFINE e == [m EXCEPT !.id = ids + 1]
<1>1. ids + 1 \in Nat
  BY DEF TypeInv
<1>2. e \in Envelope /\ e.type = m.type /\ e.result = m.result
  BY <1>1 DEF Envelope, EnvelopeType
<1>3. mailbox' = Append(mailbox, e)
  BY DEF Send
<1> HIDE DEF e
<1>4. /\ Line \in Seq(Envelope) /\ Line # <<>> /\ Tail(Line) = mailbox /\ Line = <<now>> \o mailbox
      /\ now \in Envelope /\ mailbox \in Seq(Envelope)
  BY LineTyped DEF Line, TypeInv
<1>5. todo' # <<>> => now' = now
  BY DEF Step
<1>6. todo' # <<>> => Line' = <<now>> \o Append(mailbox, e)
  BY <1>3, <1>5 DEF Line
<1>7. todo' = <<>> => Line' = Append(mailbox, e)
  BY <1>3 DEF Line
<1>8. <<now>> \o Append(mailbox, e) = Append(Line, e)
  <2>1. Append(mailbox, e) = mailbox \o <<e>> /\ Append(Line, e) = Line \o <<e>>
    BY <1>2, <1>4, AppendIsConcat
  <2>2. <<now>> \in Seq(Envelope) /\ <<e>> \in Seq(Envelope)
    BY <1>2, <1>4
  <2>3. (<<now>> \o mailbox) \o <<e>> = <<now>> \o (mailbox \o <<e>>)
    BY <1>4, <2>2, ConcatAssociative
  <2> QED BY <1>4, <2>1, <2>3
<1>9. Tail(Append(Line, e)) = Append(mailbox, e)
  BY <1>4, HeadTailAppend
<1> QED BY <1>2, <1>4, <1>5, <1>6, <1>7, <1>8, <1>9 DEF e

\* A step of the handler that sends nothing.
LEMMA SoundKept ==
    ASSUME TypeInv, todo # <<>>, Step, mailbox' = mailbox,
           Coherent(Line, told', status', kernel'),
           todo' # <<>> => AtWork(Line, told', status', kernel', todo', now)
    PROVE  Sound'
<1>1. CASE todo' # <<>>
  BY <1>1, LineKept DEF Sound
<1>2. CASE todo' = <<>>
  <2>1. Line' = Tail(Line) /\ Line \in Seq(Envelope) /\ Line # <<>>
    BY <1>2, LineKept, LineTyped
  <2>2. Coherent(Tail(Line), told', status', kernel')
    BY <2>1, CoherentLeft
  <2> QED BY <1>2, <2>1, <2>2 DEF Sound
<1> QED BY <1>1, <1>2

\* A step of the handler that sends a request or a step's completion.
LEMMA SoundJoined ==
    ASSUME TypeInv, todo # <<>>, Step, NEW m \in Envelope, Send(m), ~Opening(m), ~Ending(m),
           told' = told, status' = status, kernel' = kernel,
           Coherent(Line, told, status, kernel),
           todo' # <<>> => AtWork(Line, told, status, kernel, todo', now)
    PROVE  Sound'
<1>1. PICK e \in Envelope :
          /\ e.type = m.type
          /\ todo' # <<>> => Line' = Append(Line, e) /\ now' = now
          /\ todo' = <<>> => Line' = Tail(Append(Line, e))
  BY LineJoined
<1>2. ~Opening(e) /\ ~Ending(e)
  BY <1>1 DEF Opening, Ending
<1> DEFINE L == Line
<1>3. L \in Seq(Envelope) /\ Append(L, e) \in Seq(Envelope) /\ Append(L, e) # <<>>
  BY LineTyped, RangeAppended
<1>4. Coherent(Append(L, e), told, status, kernel)
  BY <1>2, <1>3, CoherentJoined
<1>5. CASE todo' # <<>>
  <2>1. AtWork(Append(L, e), told, status, kernel, todo', now)
    BY <1>2, <1>3, <1>5, AtWorkJoined
  <2> QED BY <1>1, <1>4, <1>5, <2>1 DEF Sound
<1>6. CASE todo' = <<>>
  <2>1. Coherent(Tail(Append(L, e)), told, status, kernel)
    BY <1>3, <1>4, CoherentLeft
  <2> QED BY <1>1, <1>6, <2>1 DEF Sound
<1> QED BY <1>5, <1>6

\* An envelope that joins the line while the handler waits.
LEMMA SoundMeanwhile ==
    ASSUME TypeInv, Sound, NEW m \in Envelope, Send(m), ~Opening(m), ~Ending(m),
           UNCHANGED <<told, status, kernel, todo, now>>
    PROVE  Sound'
<1> DEFINE e == [m EXCEPT !.id = ids + 1]
           L == Line
<1>1. ids + 1 \in Nat
  BY DEF TypeInv
<1>2. e \in Envelope /\ e.type = m.type
  BY <1>1 DEF Envelope, EnvelopeType
<1>3. mailbox' = Append(mailbox, e)
  BY DEF Send
<1>4. ~Opening(e) /\ ~Ending(e)
  BY <1>2 DEF Opening, Ending
<1> HIDE DEF e
<1>5. L \in Seq(Envelope) /\ mailbox \in Seq(Envelope)
  BY LineTyped DEF TypeInv
<1>6. Line' = Append(L, e)
  <2>1. CASE todo = <<>>
    BY <1>3, <2>1 DEF Line
  <2>2. CASE todo # <<>>
    <3>1. now \in Envelope /\ L = <<now>> \o mailbox /\ Line' = <<now>> \o Append(mailbox, e)
      BY <1>3, <2>2 DEF Line, TypeInv
    <3>2. Append(mailbox, e) = mailbox \o <<e>> /\ Append(L, e) = L \o <<e>>
      BY <1>2, <1>5, AppendIsConcat
    <3>3. <<now>> \in Seq(Envelope) /\ <<e>> \in Seq(Envelope)
      BY <1>2, <3>1
    <3>4. (<<now>> \o mailbox) \o <<e>> = <<now>> \o (mailbox \o <<e>>)
      BY <1>5, <3>3, ConcatAssociative
    <3> QED BY <3>1, <3>2, <3>4
  <2> QED BY <2>1, <2>2
<1>7. Coherent(Append(L, e), told, status, kernel)
  BY <1>2, <1>4, <1>5, CoherentJoined DEF Sound
<1>8. todo # <<>> => AtWork(Append(L, e), told, status, kernel, todo, now)
  BY <1>2, <1>4, <1>5, AtWorkJoined DEF Sound
<1> HIDE DEF L
<1> QED BY <1>6, <1>7, <1>8 DEF Sound

-----------------------------------------------------------------------------
(* What an envelope finds                                                  *)

LEMMA KernelHandler ==
    ASSUME NEW m
    PROVE  /\ m.type = "completed" => Handler(m) = HandleCompleted(m)
           /\ m.type = "timeout" => Handler(m) = HandleTimeout(m)
           /\ m.type = "backoff" => Handler(m) = HandleBackoff(m)
<1>1. m.type = "completed" => Handler(m) = HandleCompleted(m)
  BY DEF Handler
<1>2. m.type = "timeout" => Handler(m) = HandleTimeout(m)
  BY DEF Handler
<1>3. m.type = "backoff" => Handler(m) = HandleBackoff(m)
  BY DEF Handler
<1> QED BY <1>1, <1>2, <1>3

\* A kernel that has finished, or not begun, takes no notice of its steps.
LEMMA DeadIsStale ==
    ASSUME TypeInv, NEW m \in Envelope, m.type \in {"completed", "timeout", "backoff"},
           Dead(kernel)
    PROVE  Stale(m) /\ Handler(m) = <<>>
<1>1. m.step \in Steps /\ NoStep \notin Steps
  BY ConstantsAssumption DEF Envelope
<1>2. kernel.active \in BOOLEAN /\ kernel.pending \in BOOLEAN /\ modules \in BOOLEAN
  BY DEF TypeInv, KernelState, KernelType
<1>3. Stale(m)
  BY <1>1, <1>2 DEF Dead, Unstarted, Stale
<1>4. HandleCompleted(m) = <<>> /\ HandleTimeout(m) = <<>> /\ HandleBackoff(m) = <<>>
  <2>1. HandleCompleted(m) = <<>>
    BY <1>3, Zenon DEF HandleCompleted
  <2>2. HandleTimeout(m) = <<>>
    BY <1>3 DEF HandleTimeout
  <2>3. HandleBackoff(m) = <<>>
    <3>1. kernel.active => /\ kernel.step # m.step /\ ~kernel.pending
                           /\ kernel.backoffs[m.step] = NoBackoff
      BY <1>1 DEF Dead, Unstarted
    <3> QED BY <3>1, Zenon DEF HandleBackoff, Resumes
  <2> QED BY <2>1, <2>2, <2>3
<1>5. Handler(m) \in {HandleCompleted(m), HandleTimeout(m), HandleBackoff(m)}
  BY KernelHandler
<1> QED BY <1>3, <1>4, <1>5

LEMMA KernelHandles ==
    ASSUME TypeInv, NEW m \in Envelope, m.type \in {"completed", "timeout", "backoff"},
           NEW L \in Seq(Envelope), L # <<>>, Head(L) = m,
           Coherent(L, told, status, kernel), Handler(m) # <<>>
    PROVE  NoOpening(L) /\ Course(Handler(m)) /\ ~Over(L, told, status)
<1>1. ~Dead(kernel)
  BY DeadIsStale
<1>2. ~Over(L, told, status)
  BY <1>1 DEF Coherent
<1>3. NoOpening(Tail(L))
  BY <1>1 DEF Coherent, OpeningInv, Dead
<1>4. Range(L) = {m} \cup Range(Tail(L))
  BY RangeTaken
<1>5. NoOpening(L)
  BY <1>3, <1>4 DEF NoOpening, Opening
<1>6. kernel \in KernelState /\ ids \in Nat /\ modules \in BOOLEAN
  BY DEF TypeInv
<1>7. CASE m.type = "completed"
  BY <1>2, <1>5, <1>6, <1>7, CompletedTyped, KernelHandler
<1>8. CASE m.type = "timeout"
  BY <1>2, <1>5, <1>6, <1>8, TimeoutTyped, KernelHandler DEF Course
<1>9. CASE m.type = "backoff"
  BY <1>2, <1>5, <1>6, <1>9, BackoffTyped, KernelHandler DEF Course
<1> QED BY <1>2, <1>5, <1>7, <1>8, <1>9

LEMMA StartHandles ==
    ASSUME TypeInv, NEW m \in Envelope, m.type = "start", NEW L \in Seq(Envelope), L # <<>>,
           Head(L) = m, Coherent(L, told, status, kernel), Handler(m) # <<>>
    PROVE  \/ Starting(Handler(m)) /\ NoEnding(L)
           \/ Handler(m) = Rejection /\ kernel.active /\ Dead(kernel)
<1>1. ~NoOpening(L)
  <2>1. Range(L) = {m} \cup Range(Tail(L))
    BY RangeTaken
  <2> QED BY <2>1 DEF NoOpening, Opening
<1>2. /\ Early(kernel)
      /\ \A e \in Range(L) : Ending(e) => kernel.active /\ Dead(kernel)
  BY <1>1 DEF Coherent, OpeningInv
<1>3. kernel \in KernelState /\ ids \in Nat
  BY DEF TypeInv
<1>4. modules /\ Handler(m) = HandleStart(m)
  BY DEF Handler, HandleStart
<1>5. CASE ~kernel.active
  <2> DEFINE k == [Idle EXCEPT !.active = TRUE]
  <2>1. k \in KernelState /\ Unstarted(k)
    BY IdleTyped DEF KernelState, KernelType, Idle, Unstarted
  <2>2. Handler(m) = Save(k) \o Dispatch(Entry, k, m, TRUE)
    BY <1>4, <1>5 DEF HandleStart
  <2> HIDE DEF k
  <2>3. Starting(Dispatch(Entry, k, m, TRUE))
    BY <1>3, <2>1, DispatchStarts, ConstantsAssumption
  <2>4. Save(k) \in Seq(EarlyEffect)
    BY <2>1, EarlyPieces DEF Early
  <2>5. Starting(Handler(m))
    BY <2>2, <2>3, <2>4, StartingPrefixed
  <2>6. NoEnding(L)
    BY <1>2, <1>5 DEF NoEnding
  <2> QED BY <2>5, <2>6
<1>6. CASE kernel.active /\ kernel.pending
  <2>1. Starting(Handler(m))
    BY <1>3, <1>4, <1>6, ResumeStarts DEF HandleStart
  <2>2. NoEnding(L)
    BY <1>2, <1>6 DEF NoEnding, Dead, Unstarted
  <2> QED BY <2>1, <2>2
<1>7. CASE kernel.active /\ ~kernel.pending
  <2>1. Handler(m) = Rejection
    BY <1>4, <1>7 DEF HandleStart, Rejection
  <2>2. Dead(kernel)
    BY <1>2, <1>7 DEF Early, Dead, Unstarted
  <2> QED BY <1>7, <2>1, <2>2
<1> QED BY <1>5, <1>6, <1>7

LEMMA CleanupForm ==
    ASSUME NEW k \in KernelState
    PROVE  StopWork(Cleanup(k))
<1> DEFINE leases == ({k.timeouts[s] : s \in Steps} \cup {k.backoffs[s].lease : s \in Steps})
                     \ {NoLease}
<1>1. leases \in SUBSET LeaseType
  BY DEF KernelState, KernelType
<1>2. Cleanup(k) = Save(Idle) \o CancelAll(leases)
  BY DEF Cleanup, CancelAll
<1> HIDE DEF leases
<1> QED BY <1>1, <1>2 DEF StopWork

\* The handler of the first envelope in the line.
LEMMA HandlerAtWork ==
    ASSUME TypeInv, NEW m \in Envelope, m.type # "request", NEW L \in Seq(Envelope), L # <<>>,
           Head(L) = m, Coherent(L, told, status, kernel), Handler(m) # <<>>
    PROVE  AtWork(L, told, status, kernel, Handler(m), m)
<1>1. m.type \in HandlerTypes
  BY DEF Envelope, EnvelopeType, HandlerTypes
<1>2. CASE m.type = "chat"
  BY <1>2 DEF Handler, HandleChatRequest, AtWork, StartMessage
<1>3. CASE m.type = "start"
  BY <1>3, StartHandles DEF AtWork
<1>4. CASE m.type \in {"completed", "timeout", "backoff"}
  BY <1>4, KernelHandles DEF AtWork
<1>5. CASE m.type = "runCompleted"
  BY <1>5 DEF Handler, HandleWorkflowCompleted, AtWork, OutcomeStatus
<1>6. CASE m.type = "stop"
  <2>1. kernel \in KernelState
    BY DEF TypeInv
  <2>2. Handler(m) = HandleStopped(m)
    BY <1>6 DEF Handler
  <2> QED BY <1>6, <2>1, <2>2, CleanupForm DEF HandleStopped, AtWork
<1> QED BY <1>1, <1>2, <1>3, <1>4, <1>5, <1>6 DEF HandlerTypes

LEMMA SoundDelivered ==
    ASSUME TypeInv, Sound, Deliver
    PROVE  Sound' /\ UNCHANGED <<told, status>>
<1> USE DEF runVars
<1> DEFINE m == Head(mailbox)
<1>1. /\ todo = <<>> /\ mailbox # <<>> /\ m.type # "request"
      /\ todo' = Handler(m)
      /\ now' = IF todo' = <<>> THEN Blank ELSE m
      /\ mailbox' = Tail(mailbox)
      /\ UNCHANGED <<status, kernel, told>>
  BY DEF Deliver
<1>2. Line = mailbox /\ mailbox \in Seq(Envelope) /\ m \in Envelope
  BY <1>1, LineTyped, MailboxTyped
<1>3. Coherent(mailbox, told, status, kernel)
  BY <1>2 DEF Sound
<1>4. mailbox = <<m>> \o Tail(mailbox)
  BY <1>1, <1>2, RangeTaken
<1>5. CASE todo' = <<>>
  <2>1. Line' = Tail(mailbox)
    BY <1>1, <1>5 DEF Line
  <2>2. Coherent(Tail(mailbox), told, status, kernel)
    BY <1>1, <1>2, <1>3, CoherentLeft
  <2> QED BY <1>1, <1>5, <2>1, <2>2 DEF Sound
<1>6. CASE todo' # <<>>
  <2>1. Line' = mailbox /\ now' = m
    BY <1>1, <1>4, <1>6 DEF Line
  <2>2. AtWork(mailbox, told, status, kernel, Handler(m), m)
    BY <1>1, <1>2, <1>3, <1>6, HandlerAtWork
  <2> QED BY <1>1, <1>3, <1>6, <2>1, <2>2 DEF Sound
<1> QED BY <1>1, <1>5, <1>6

LEMMA SoundReloaded ==
    ASSUME TypeInv, Sound, Reload
    PROVE  Sound' /\ UNCHANGED <<told, status>>
<1> USE DEF runVars
<1>1. /\ todo # <<>> /\ todo' = Handler(now)
      /\ now' = IF todo' = <<>> THEN Blank ELSE now
      /\ UNCHANGED <<status, kernel, told, mailbox>>
  BY DEF Reload, Effect
<1>2. /\ Line \in Seq(Envelope) /\ Line # <<>> /\ Head(Line) = now /\ Tail(Line) = mailbox
      /\ now \in Envelope /\ now.type # "request"
  BY <1>1, LineTyped DEF TypeInv
<1>3. Coherent(Line, told, status, kernel)
  BY DEF Sound
<1>4. CASE todo' = <<>>
  <2>1. Line' = Tail(Line)
    BY <1>1, <1>2, <1>4 DEF Line
  <2>2. Coherent(Tail(Line), told, status, kernel)
    BY <1>2, <1>3, CoherentLeft
  <2> QED BY <1>1, <1>4, <2>1, <2>2 DEF Sound
<1>5. CASE todo' # <<>>
  <2>1. Line' = Line /\ now' = now
    BY <1>1, <1>5 DEF Line
  <2>2. AtWork(Line, told, status, kernel, Handler(now), now)
    BY <1>1, <1>2, <1>3, <1>5, HandlerAtWork
  <2> QED BY <1>1, <1>3, <1>5, <2>1, <2>2 DEF Sound
<1> QED BY <1>1, <1>4, <1>5

-----------------------------------------------------------------------------
(* One effect of each handler                                              *)

\* The effect at work tells which action performs it.
LEMMA PerformKind ==
    ASSUME Perform
    PROVE  /\ todo # <<>>
           /\ Head(todo).do = "save" => SaveState
           /\ Head(todo).do = "post" => PublishSelf
           /\ Head(todo).do = "request" => PublishRequest
           /\ Head(todo).do = "tell" => TellParent
           /\ Head(todo).do = "arm" => ScheduleCallback
           /\ Head(todo).do = "cancel" => CancelCallbacks
           /\ Head(todo).do = "again" => Reload
           /\ Head(todo).do = "persist" => PersistStatus
           /\ Head(todo).do = "disable" => DisableModules
<1>1. /\ SaveState => todo # <<>> /\ Head(todo).do = "save"
      /\ PublishSelf => todo # <<>> /\ Head(todo).do = "post"
      /\ PublishRequest => todo # <<>> /\ Head(todo).do = "request"
      /\ TellParent => todo # <<>> /\ Head(todo).do = "tell"
      /\ ScheduleCallback => todo # <<>> /\ Head(todo).do = "arm"
      /\ CancelCallbacks => todo # <<>> /\ Head(todo).do = "cancel"
      /\ Reload => todo # <<>> /\ Head(todo).do = "again"
      /\ PersistStatus => todo # <<>> /\ Head(todo).do = "persist"
      /\ DisableModules => todo # <<>> /\ Head(todo).do = "disable"
  BY DEF SaveState, PublishSelf, PublishRequest, TellParent, ScheduleCallback, CancelCallbacks,
         Reload, PersistStatus, DisableModules, Effect
<1> QED BY <1>1 DEF Perform

LEMMA GrantedParts ==
    ASSUME NEW k \in KernelState
    PROVE  /\ GrantedKernel(k).active = k.active
           /\ Early(k) => Early(GrantedKernel(k))
<1>1. k \in KernelType
  BY DEF KernelState
<1> DEFINE t == [s \in Steps |-> Granted(k.timeouts[s])]
           b == [s \in Steps |-> [k.backoffs[s] EXCEPT !.lease = Granted(@)]]
<1>2. GrantedKernel(k) = [k EXCEPT !.timeouts = t, !.backoffs = b]
  BY DEF GrantedKernel
<1>3. ASSUME NEW s \in Steps, k.backoffs[s] = NoBackoff
      PROVE  b[s] = NoBackoff
  <2>1. b[s] = [NoBackoff EXCEPT !.lease = Granted(NoBackoff.lease)]
    BY <1>3
  <2>2. Granted(NoBackoff.lease) = NoBackoff.lease
    BY DEF Granted, NoBackoff
  <2> QED BY <2>1, <2>2 DEF NoBackoff
<1> HIDE DEF t, b
<1>4. /\ GrantedKernel(k).active = k.active /\ GrantedKernel(k).pending = k.pending
      /\ GrantedKernel(k).step = k.step /\ GrantedKernel(k).backoffs = b
  BY <1>1, <1>2 DEF KernelType
<1> HIDE DEF GrantedKernel
<1> QED BY <1>3, <1>4 DEF Early, Unstarted

\* What a step may do to the history of outcomes and to a recorded one.
Orderly ==
    /\ Sound'
    /\ told' # told => told = <<>> /\ Len(told') = 1
    /\ Ended(status) => status' = status \/ now.type = "stop"
    /\ status' = "stopped" => status = "stopped" \/ now.type = "stop"

\* What each action makes of the run's variables.
LEMMA PerformFacts ==
    ASSUME TypeInv, Perform
    PROVE  /\ Head(todo).do = "save" =>
                  /\ Head(todo) \in SaveEffect /\ kernel' = GrantedKernel(Head(todo).k)
                  /\ Step /\ UNCHANGED <<told, status, mailbox>>
           /\ Head(todo).do = "post" =>
                  /\ Head(todo).m \in Envelope /\ Send(Head(todo).m)
                  /\ Step /\ UNCHANGED <<told, status, kernel>>
           /\ Head(todo).do = "request" =>
                  /\ \E m \in Envelope : m.type = "request" /\ Send(m)
                  /\ Step /\ UNCHANGED <<told, status, kernel>>
           /\ Head(todo).do = "tell" =>
                  /\ told' = Append(told, [step |-> Head(todo).m.step,
                                           result |-> Head(todo).m.result])
                  /\ Step /\ UNCHANGED <<status, kernel, mailbox>>
           /\ Head(todo).do \in {"arm", "cancel", "disable"} =>
                  Step /\ UNCHANGED <<told, status, kernel, mailbox>>
           /\ Head(todo).do = "persist" =>
                  /\ status' = Head(todo).status
                  /\ kernel' = IF status' = "stopped" THEN Idle ELSE kernel
                  /\ Step /\ UNCHANGED <<told, mailbox>>
<1> USE DEF runVars
<1> DEFINE e == Head(todo)
<1>1. /\ todo # <<>>
      /\ Effect("save") <=> e.do = "save"
      /\ Effect("request") <=> e.do = "request"
      /\ Effect("post") <=> e.do = "post"
  BY PerformKind DEF Effect
<1>2. CASE e.do = "save"
  <2>1. SaveState
    BY <1>2, PerformKind
  <2>2. e \in SaveEffect
    BY <1>1, <1>2, EffectTyped
  <2> QED BY <1>2, <2>1, <2>2 DEF SaveState, GrantedKernel
<1>3. CASE e.do = "post"
  <2>1. PublishSelf
    BY <1>3, PerformKind
  <2>2. e.m \in Envelope
    BY <1>1, <1>3, EffectTyped
  <2> QED BY <1>3, <2>1, <2>2 DEF PublishSelf
<1>4. CASE e.do = "request"
  <2>1. PublishRequest
    BY <1>4, PerformKind
  <2>2. e \in RequestEffect
    BY <1>1, <1>4, EffectTyped
  <2> DEFINE m == [Blank EXCEPT !.type = "request", !.step = e.step, !.attempt = e.attempt]
  <2>3. Send(m) /\ Step /\ UNCHANGED <<told, status, kernel>>
    BY <2>1 DEF PublishRequest
  <2>4. e.step \in Steps /\ e.attempt \in Nat
    BY <2>2 DEF RequestEffect
  <2>5. m \in EnvelopeType /\ m.type = "request" /\ m.step = e.step
    BY <2>4, BlankTyped DEF EnvelopeType, Blank
  <2>6. m \in Envelope
    BY <2>4, <2>5 DEF Envelope
  <2> HIDE DEF m
  <2>7. \E n \in Envelope : n.type = "request" /\ Send(n)
    BY <2>3, <2>5, <2>6
  <2> QED BY <1>4, <2>3, <2>7
<1>5. CASE e.do = "tell"
  BY <1>5, PerformKind DEF TellParent
<1>6. CASE e.do \in {"arm", "cancel", "disable"}
  BY <1>6, PerformKind DEF ScheduleCallback, CancelCallbacks, DisableModules
<1>7. CASE e.do = "persist"
  BY <1>7, PerformKind DEF PersistStatus
<1> HIDE DEF e
<1>8. CASE e.do \notin {"save", "post", "request", "tell", "arm", "cancel", "disable", "persist"}
  BY <1>8 DEF e
<1> QED BY <1>2, <1>3, <1>4, <1>5, <1>6, <1>7, <1>8

LEMMA FirstOfTwo ==
    ASSUME NEW a, NEW b
    PROVE  Head(<<a>> \o <<b>>) = a /\ Tail(<<a>> \o <<b>>) = <<b>>
<1>1. <<a>> \o <<b>> = <<a, b>>
  BY TwoJoined
<1>2. Head(<<a, b>>) = a /\ Tail(<<a, b>>) = <<b>>
  BY TwoTail
<1> QED BY <1>1, <1>2, Zenon

LEMMA ChatStep ==
    ASSUME TypeInv, Sound, Perform, now.type = "chat"
    PROVE  Orderly
<1> DEFINE first == [do |-> "persist", status |-> "running"]
           second == [do |-> "post", m |-> StartMessage]
<1>1. todo # <<>> /\ (todo = <<first>> \o <<second>> \/ todo = <<second>>)
  BY PerformKind DEF Sound, AtWork, Persist, Post
<1>2. /\ first.do = "persist" /\ first.status = "running"
      /\ second.do = "post" /\ second.m = StartMessage
  OBVIOUS
<1>3. Post(StartMessage) = <<second>>
  BY DEF Post
<1> HIDE DEF first, second
<1>4. /\ Line \in Seq(Envelope) /\ Line # <<>> /\ Head(Line) = now /\ Tail(Line) = mailbox
      /\ mailbox \in Seq(Envelope) /\ now \in Range(Line)
  BY <1>1, LineTyped DEF TypeInv
<1>5. Coherent(Line, told, status, kernel) /\ ~NoOpening(Line)
  BY <1>4 DEF Sound, NoOpening, Opening
<1>6. told = <<>> /\ ~Ended(status)
  BY <1>5 DEF Coherent, OpeningInv
<1>7. CASE todo = <<first>> \o <<second>>
  <2>1. Head(todo) = first /\ Tail(todo) = <<second>>
    BY <1>7, FirstOfTwo
  <2>2. status' = "running" /\ kernel' = kernel /\ Step /\ told' = told /\ mailbox' = mailbox
    BY <1>2, <2>1, PerformFacts
  <2>3. todo' = Post(StartMessage)
    BY <1>3, <2>1, <2>2 DEF Step
  <2>4. Coherent(Line, told', status', kernel')
    BY <1>5, <2>2, RunBegins
  <2>5. AtWork(Line, told', status', kernel', todo', now)
    BY <2>3 DEF AtWork
  <2>6. Sound'
    BY <1>1, <2>2, <2>4, <2>5, SoundKept
  <2> QED BY <1>6, <2>2, <2>6 DEF Orderly
<1>8. CASE todo = <<second>>
  <2>1. Head(todo) = second /\ Tail(todo) = <<>>
    BY <1>8
  <2>2. Send(StartMessage) /\ StartMessage \in Envelope /\ Step /\ UNCHANGED <<told, status, kernel>>
    BY <1>2, <2>1, PerformFacts
  <2>3. todo' = <<>>
    BY <2>1, <2>2 DEF Step
  <2>4. PICK e \in Envelope : e.type = "start" /\ Line' = Append(mailbox, e)
    <3>1. StartMessage.type = "start"
      BY DEF StartMessage, Blank
    <3> QED BY <1>1, <1>4, <2>2, <2>3, <3>1, LineJoined
  <2>5. Bare(mailbox, told, status) /\ ~kernel.active
    <3>1. ~kernel.active /\ NoEnding(Line)
      BY <1>4, <1>5 DEF Coherent, OpeningInv
    <3>2. NoOpening(mailbox)
      BY <1>4, <1>5, LoneTaken DEF Coherent, OpeningInv, Opening
    <3>3. Range(Line) = {now} \cup Range(mailbox)
      BY <1>4, RangeTaken
    <3> QED BY <1>6, <3>1, <3>2, <3>3 DEF Bare, Over, NoEnding
  <2>6. Coherent(Append(mailbox, e), told, status, kernel)
    BY <1>4, <2>4, <2>5, StartQueued
  <2>7. Sound'
    BY <2>2, <2>3, <2>4, <2>6 DEF Sound
  <2> QED BY <1>6, <2>2, <2>7 DEF Orderly
<1> QED BY <1>1, <1>7, <1>8

LEMMA StartStep ==
    ASSUME TypeInv, Sound, Perform, now.type = "start"
    PROVE  Orderly
<1>1. /\ todo # <<>> /\ AtWork(Line, told, status, kernel, todo, now)
      /\ \/ Starting(todo) /\ NoEnding(Line)
         \/ todo \in {Rejection, Tail(Rejection)} /\ kernel.active /\ Dead(kernel)
  BY PerformKind DEF Sound, AtWork
<1>2. /\ Line \in Seq(Envelope) /\ Line # <<>> /\ Head(Line) = now /\ Tail(Line) = mailbox
      /\ mailbox \in Seq(Envelope) /\ now \in Range(Line)
  BY <1>1, LineTyped DEF TypeInv
<1>3. Coherent(Line, told, status, kernel) /\ ~NoOpening(Line)
  BY <1>2 DEF Sound, NoOpening, Opening
<1>4. told = <<>> /\ ~Ended(status)
  BY <1>3 DEF Coherent, OpeningInv
<1>5. NoOpening(Tail(Line))
  BY <1>2, <1>3, LoneTaken DEF Coherent, OpeningInv, Opening
<1>6. Range(Line) = {now} \cup Range(Tail(Line))
  BY <1>2, RangeTaken
<1>7. CASE Starting(todo) /\ NoEnding(Line)
  <2>1. CASE Head(todo) \in EarlyEffect /\ Tail(todo) # <<>> /\ Starting(Tail(todo))
    <3>1. CASE Head(todo).do = "save"
      <4>1. /\ Head(todo) \in SaveEffect /\ kernel' = GrantedKernel(Head(todo).k)
            /\ Step /\ UNCHANGED <<told, status, mailbox>>
        BY <3>1, PerformFacts
      <4>2. Head(todo).k \in KernelState
        BY <4>1 DEF SaveEffect
      <4>3. Early(Head(todo).k)
        BY <2>1, <3>1 DEF EarlyEffect, RequestEffect, ArmEffect
      <4>4. Early(kernel')
        BY <4>1, <4>2, <4>3, GrantedParts
      <4>5. Coherent(Line, told', status', kernel')
        BY <1>2, <1>3, <1>7, <4>1, <4>4, StartSaves
      <4>6. AtWork(Line, told', status', kernel', todo', now)
        BY <1>7, <2>1, <4>1 DEF AtWork, Step
      <4>7. Sound'
        BY <1>1, <4>1, <4>5, <4>6, SoundKept
      <4> QED BY <1>4, <4>1, <4>7 DEF Orderly
    <3>2. CASE Head(todo).do = "request"
      <4>1. PICK m \in Envelope : m.type = "request" /\ Send(m)
        BY <3>2, PerformFacts
      <4>2. Step /\ UNCHANGED <<told, status, kernel>>
        BY <3>2, PerformFacts
      <4>3. ~Opening(m) /\ ~Ending(m)
        BY <4>1 DEF Opening, Ending
      <4>4. AtWork(Line, told, status, kernel, todo', now)
        BY <1>7, <2>1, <4>2 DEF AtWork, Step
      <4>5. Sound'
        BY <1>1, <1>3, <4>1, <4>2, <4>3, <4>4, SoundJoined
      <4> QED BY <1>4, <4>2, <4>5 DEF Orderly
    <3>3. CASE Head(todo).do = "arm"
      <4>1. Step /\ UNCHANGED <<told, status, kernel, mailbox>>
        BY <3>3, PerformFacts
      <4>2. AtWork(Line, told, status, kernel, todo', now)
        BY <1>7, <2>1, <4>1 DEF AtWork, Step
      <4>3. Sound'
        BY <1>1, <1>3, <4>1, <4>2, SoundKept
      <4> QED BY <1>4, <4>1, <4>3 DEF Orderly
    <3>4. Head(todo).do \in {"save", "request", "arm"}
      BY <2>1 DEF EarlyEffect, SaveEffect, RequestEffect, ArmEffect
    <3> QED BY <3>1, <3>2, <3>3, <3>4
  <2>2. CASE Head(todo).do = "save" /\ Head(todo).k \in KernelState /\ Tail(todo) = <<>>
    <3>1. Step /\ UNCHANGED <<told, status, mailbox>>
      BY <2>2, PerformFacts
    <3>2. todo' = <<>>
      BY <2>2, <3>1 DEF Step
    <3>3. Line' = Tail(Line)
      BY <1>1, <3>1, <3>2, LineKept
    <3>4. Bare(Tail(Line), told, status)
      BY <1>4, <1>5, <1>6, <1>7 DEF Bare, Over, NoEnding
    <3>5. Coherent(Tail(Line), told, status, kernel')
      BY <1>2, <3>4, BareCoherent
    <3>6. Sound'
      BY <3>1, <3>2, <3>3, <3>5 DEF Sound
    <3> QED BY <1>4, <3>1, <3>6 DEF Orderly
  <2> QED BY <1>7, <2>1, <2>2, StartingStep
<1>8. CASE todo \in {Rejection, Tail(Rejection)} /\ kernel.active /\ Dead(kernel)
  <2>1. PICK m \in Envelope :
            /\ m.type = "runCompleted" /\ m.result = "active"
            /\ Rejection = <<[do |-> "post", m |-> m], [do |-> "tell", m |-> m]>>
    BY OutcomeTyped DEF Rejection, OutcomeKinds
  <2> DEFINE first == [do |-> "post", m |-> m]
             second == [do |-> "tell", m |-> m]
  <2>2. first.do = "post" /\ first.m = m /\ second.do = "tell" /\ second.m = m
    OBVIOUS
  <2>3. Rejection = <<first, second>>
    BY <2>1
  <2> HIDE DEF first, second
  <2>4. Head(Rejection) = first /\ Tail(Rejection) = <<second>>
    BY <2>3, TwoTail
  <2>5. CASE todo = Rejection
    <3>1. Send(m) /\ Step /\ UNCHANGED <<told, status, kernel>>
      BY <2>2, <2>4, <2>5, PerformFacts
    <3>2. todo' = Tail(Rejection) /\ todo' # <<>>
      BY <2>4, <2>5, <3>1 DEF Step
    <3>3. PICK e \in Envelope :
              e.type = m.type /\ e.result = m.result /\ Line' = Append(Line, e) /\ now' = now
      BY <1>1, <3>1, <3>2, LineJoined
    <3>4. Coherent(Append(Line, e), told, status, kernel)
      BY <1>2, <1>3, <1>8, <2>1, <3>3, StartRejected DEF Ending
    <3>5. AtWork(Append(Line, e), told, status, kernel, todo', now)
      BY <1>8, <3>2 DEF AtWork
    <3>6. Sound'
      BY <3>1, <3>3, <3>4, <3>5 DEF Sound
    <3> QED BY <1>4, <3>1, <3>6 DEF Orderly
  <2>6. CASE todo = Tail(Rejection)
    <3>1. Head(todo) = second /\ Tail(todo) = <<>>
      <4>1. todo = <<second>>
        BY <2>4, <2>6
      <4> QED BY <4>1
    <3>2. /\ told' = Append(told, [step |-> m.step, result |-> m.result])
          /\ Step /\ UNCHANGED <<status, kernel, mailbox>>
      BY <2>2, <3>1, PerformFacts
    <3>3. todo' = <<>>
      BY <3>1, <3>2 DEF Step
    <3>4. Line' = Tail(Line)
      BY <1>1, <3>2, <3>3, LineKept
    <3>5. Coherent(Tail(Line), told, status, kernel)
      BY <1>2, <1>3, CoherentLeft
    <3>6. Coherent(Tail(Line), told', status, kernel)
      BY <1>5, <1>8, <3>5, ParentTold
    <3>7. Sound'
      BY <3>2, <3>3, <3>4, <3>6 DEF Sound
    <3>8. Len(told') = 1
      BY <1>4, <3>2
    <3> QED BY <1>4, <3>2, <3>7, <3>8 DEF Orderly
  <2> QED BY <1>8, <2>5, <2>6
<1> QED BY <1>1, <1>7, <1>8

\* The agent's handlers of an outcome and of a stop.
LEMMA AgentEffect ==
    ASSUME NEW st
    PROVE  /\ Head(Persist(st) \o Disable) = [do |-> "persist", status |-> st]
           /\ Tail(Persist(st) \o Disable) = Disable
           /\ Head(Disable) = [do |-> "disable"] /\ Tail(Disable) = <<>>
<1> DEFINE a == [do |-> "persist", status |-> st]
           b == [do |-> "disable"]
<1>1. Persist(st) = <<a>> /\ Disable = <<b>>
  BY DEF Persist, Disable
<1>2. Head(<<b>>) = b /\ Tail(<<b>>) = <<>>
  OBVIOUS
<1> HIDE DEF a, b
<1>3. Head(<<a>> \o <<b>>) = a /\ Tail(<<a>> \o <<b>>) = <<b>>
  BY FirstOfTwo
<1> QED BY <1>1, <1>2, <1>3 DEF a, b

LEMMA DisableStep ==
    ASSUME TypeInv, Sound, Perform, todo = Disable
    PROVE  Orderly
<1>1. todo # <<>> /\ Head(todo).do = "disable" /\ Tail(todo) = <<>>
  BY PerformKind, AgentEffect
<1>2. Step /\ UNCHANGED <<told, status, kernel, mailbox>>
  BY <1>1, PerformFacts
<1>3. todo' = <<>>
  BY <1>1, <1>2 DEF Step
<1>4. Sound'
  BY <1>1, <1>2, <1>3, SoundKept DEF Sound
<1> QED BY <1>2, <1>4 DEF Orderly

LEMMA OutcomeStep ==
    ASSUME TypeInv, Sound, Perform, now.type = "runCompleted"
    PROVE  Orderly
<1>1. todo # <<>> /\ todo \in {Persist(OutcomeStatus(now)) \o Disable, Disable}
  BY PerformKind DEF Sound, AtWork
<1>2. CASE todo = Persist(OutcomeStatus(now)) \o Disable
  <2>1. /\ Head(todo) = [do |-> "persist", status |-> OutcomeStatus(now)]
        /\ Tail(todo) = Disable
    BY <1>2, AgentEffect
  <2>2. OutcomeStatus(now) # "stopped"
    BY DEF OutcomeStatus
  <2>3. status' = OutcomeStatus(now) /\ kernel' = kernel /\ Step /\ UNCHANGED <<told, mailbox>>
    BY <2>1, <2>2, PerformFacts
  <2>4. Line \in Seq(Envelope) /\ Line # <<>> /\ Head(Line) = now /\ now \in Range(Line)
    BY <1>1, LineTyped
  <2>5. Coherent(Line, told, status, kernel)
    BY DEF Sound
  <2>6. Coherent(Line, told', status', kernel')
    BY <2>3, <2>4, <2>5, RunRecorded DEF Ending
  <2>7. AtWork(Line, told', status', kernel', todo', now)
    BY <2>1, <2>3 DEF AtWork, Step
  <2>8. Sound'
    BY <1>1, <2>3, <2>6, <2>7, SoundKept
  <2>9. Ended(status) => status = OutcomeStatus(now)
    BY <2>4, <2>5 DEF Coherent, Agreed, Ending
  <2> QED BY <2>2, <2>3, <2>8, <2>9 DEF Orderly
<1>3. CASE todo = Disable
  BY <1>3, DisableStep
<1> QED BY <1>1, <1>2, <1>3

LEMMA StopForms ==
    ASSUME NEW c, StopWork(c)
    PROVE  \/ /\ Head(c) = [do |-> "save", k |-> Idle, enters |-> {}]
              /\ StopWork(Tail(c))
           \/ Head(c).do = "cancel" /\ Tail(c) = <<>>
<1>1. PICK leases \in SUBSET LeaseType :
          c = Save(Idle) \o CancelAll(leases) \/ c = CancelAll(leases)
  BY DEF StopWork
<1> DEFINE a == [do |-> "save", k |-> Idle, enters |-> {}]
           b == [do |-> "cancel", leases |-> leases]
<1>2. Save(Idle) = <<a>> /\ CancelAll(leases) = <<b>> /\ b.do = "cancel"
  BY DEF Save, CancelAll
<1> HIDE DEF a, b
<1>3. Head(<<a>> \o <<b>>) = a /\ Tail(<<a>> \o <<b>>) = <<b>>
  BY FirstOfTwo
<1>4. Head(<<b>>) = b /\ Tail(<<b>>) = <<>>
  OBVIOUS
<1>5. CASE c = Save(Idle) \o CancelAll(leases)
  <2>1. Head(c) = a /\ Tail(c) = CancelAll(leases)
    BY <1>2, <1>3, <1>5
  <2> QED BY <2>1 DEF StopWork, a
<1>6. CASE c = CancelAll(leases)
  BY <1>2, <1>4, <1>6
<1> QED BY <1>1, <1>5, <1>6

LEMMA StopStep ==
    ASSUME TypeInv, Sound, Perform, now.type = "stop"
    PROVE  Orderly
<1>1. todo # <<>> /\ (todo \in {Persist("stopped") \o Disable, Disable} \/ StopWork(todo))
  BY PerformKind DEF Sound, AtWork
<1>2. Line \in Seq(Envelope) /\ Line # <<>> /\ Head(Line) = now
  BY <1>1, LineTyped
<1>3. Coherent(Line, told, status, kernel) /\ ~Opening(Head(Line))
  BY <1>2 DEF Sound, Opening
<1>4. ~Idle.active /\ ~GrantedKernel(Idle).active
  BY IdleTyped, GrantedParts DEF Idle
<1>5. CASE todo = Persist("stopped") \o Disable
  <2>1. Head(todo) = [do |-> "persist", status |-> "stopped"] /\ Tail(todo) = Disable
    BY <1>5, AgentEffect
  <2>2. status' = "stopped" /\ kernel' = Idle /\ Step /\ UNCHANGED <<told, mailbox>>
    BY <2>1, PerformFacts
  <2>3. Coherent(Line, told', status', kernel')
    BY <1>2, <1>3, <1>4, <2>2, RunStopped
  <2>4. AtWork(Line, told', status', kernel', todo', now)
    BY <2>1, <2>2 DEF AtWork, Step
  <2>5. Sound'
    BY <1>1, <2>2, <2>3, <2>4, SoundKept
  <2> QED BY <2>2, <2>5 DEF Orderly
<1>6. CASE todo = Disable
  BY <1>6, DisableStep
<1>7. CASE StopWork(todo)
  <2>1. CASE Head(todo) = [do |-> "save", k |-> Idle, enters |-> {}] /\ StopWork(Tail(todo))
    <3>1. Head(todo).do = "save" /\ Head(todo).k = Idle
      BY <2>1
    <3>2. kernel' = GrantedKernel(Idle) /\ Step /\ UNCHANGED <<told, status, mailbox>>
      BY <3>1, PerformFacts
    <3>3. Coherent(Line, told', status', kernel')
      BY <1>2, <1>3, <1>4, <3>2, RunStopped
    <3>4. AtWork(Line, told', status', kernel', todo', now)
      BY <2>1, <3>2 DEF AtWork, Step
    <3>5. Sound'
      BY <1>1, <3>2, <3>3, <3>4, SoundKept
    <3> QED BY <3>2, <3>5 DEF Orderly
  <2>2. CASE Head(todo).do = "cancel" /\ Tail(todo) = <<>>
    <3>1. Step /\ UNCHANGED <<told, status, kernel, mailbox>>
      BY <2>2, PerformFacts
    <3>2. todo' = <<>>
      BY <2>2, <3>1 DEF Step
    <3>3. Sound'
      BY <1>1, <1>3, <3>1, <3>2, SoundKept
    <3> QED BY <3>1, <3>3 DEF Orderly
  <2> QED BY <1>7, <2>1, <2>2, StopForms
<1> QED BY <1>1, <1>5, <1>6, <1>7

\* The kernel's handler of a completion or a callback: its work first, then, if
\* the run ends, the cleared state before the outcome is published and told.
LEMMA CourseStep ==
    ASSUME TypeInv, Sound, Perform, now.type \in {"completed", "timeout", "backoff"}
    PROVE  Orderly
<1>1. /\ todo # <<>> /\ NoOpening(Line)
      /\ \/ Course(todo) /\ ~Over(Line, told, status)
         \/ (Cancelling(todo) \/ Closing(todo)) /\ ~Over(Line, told, status) /\ Dead(kernel)
         \/ Telling(todo) /\ told = <<>> /\ Dead(kernel)
  BY PerformKind DEF Sound, AtWork
<1>2. Line \in Seq(Envelope) /\ Line # <<>> /\ Head(Line) = now
  BY <1>1, LineTyped
<1>3. Coherent(Line, told, status, kernel)
  BY DEF Sound
<1>4. ASSUME Course(todo), ~Over(Line, told, status), Head(todo) \in WorkEffect,
             \/ Course(Tail(todo))
             \/ Cancelling(Tail(todo)) /\ Head(todo).do = "save" /\ Head(todo).k = Idle
      PROVE  Orderly
  <2>1. Bare(Line, told, status)
    BY <1>1, <1>4 DEF Bare
  <2>2. CASE Head(todo).do = "save"
    <3>1. kernel' = GrantedKernel(Head(todo).k) /\ Step /\ UNCHANGED <<told, status, mailbox>>
      BY <2>2, PerformFacts
    <3>2. Coherent(Line, told', status', kernel')
      BY <1>2, <2>1, <3>1, BareCoherent
    <3>3. Cancelling(Tail(todo)) /\ Head(todo).k = Idle => Dead(kernel')
      BY <3>1, IdleTyped, GrantedParts DEF Dead, Idle
    <3>4. AtWork(Line, told', status', kernel', todo', now)
      BY <1>1, <1>4, <3>1, <3>3 DEF AtWork, Step
    <3>5. Sound'
      BY <1>1, <3>1, <3>2, <3>4, SoundKept
    <3> QED BY <3>1, <3>5 DEF Orderly
  <2>3. ASSUME Course(Tail(todo)), Step, UNCHANGED <<told, status, kernel>>
        PROVE  AtWork(Line, told, status, kernel, todo', now)
    BY <1>1, <1>4, <2>3 DEF AtWork, Step
  <2>4. CASE Head(todo).do = "request"
    <3>1. PICK m \in Envelope : m.type = "request" /\ Send(m)
      BY <2>4, PerformFacts
    <3>2. Step /\ UNCHANGED <<told, status, kernel>>
      BY <2>4, PerformFacts
    <3>3. ~Opening(m) /\ ~Ending(m)
      BY <3>1 DEF Opening, Ending
    <3>4. Sound'
      BY <1>1, <1>3, <1>4, <2>3, <2>4, <3>1, <3>2, <3>3, SoundJoined
    <3> QED BY <3>2, <3>4 DEF Orderly
  <2>5. CASE Head(todo).do = "post"
    <3>1. Head(todo) \in CompletionEffect
      BY <1>4, <2>5 DEF WorkEffect, SaveEffect, RequestEffect, ArmEffect, CancelEffect, AgainEffect
    <3>2. Head(todo).m \in Envelope /\ Head(todo).m.type = "completed"
      BY <3>1 DEF CompletionEffect
    <3>3. Send(Head(todo).m) /\ Step /\ UNCHANGED <<told, status, kernel>>
      BY <2>5, PerformFacts
    <3>4. ~Opening(Head(todo).m) /\ ~Ending(Head(todo).m)
      BY <3>2 DEF Opening, Ending
    <3>5. AtWork(Line, told, status, kernel, todo', now)
      BY <1>4, <2>3, <2>5, <3>3
    <3>6. Sound'
      BY <1>1, <1>3, <3>2, <3>3, <3>4, <3>5, SoundJoined
    <3> QED BY <3>3, <3>6 DEF Orderly
  <2>6. CASE Head(todo).do \in {"arm", "cancel"}
    <3>1. Step /\ UNCHANGED <<told, status, kernel, mailbox>>
      BY <2>6, PerformFacts
    <3>2. AtWork(Line, told, status, kernel, todo', now)
      BY <1>4, <2>3, <2>6, <3>1
    <3>3. Sound'
      BY <1>1, <1>3, <3>1, <3>2, SoundKept
    <3> QED BY <3>1, <3>3 DEF Orderly
  <2>7. CASE Head(todo).do = "again"
    <3>1. Reload
      BY <2>7, PerformKind
    <3> QED BY <3>1, SoundReloaded DEF Orderly
  <2>8. Head(todo).do \in {"save", "request", "post", "arm", "cancel", "again"}
    BY <1>4 DEF WorkEffect, SaveEffect, RequestEffect, ArmEffect, CancelEffect, AgainEffect,
               CompletionEffect
  <2> QED BY <2>2, <2>4, <2>5, <2>6, <2>7, <2>8
<1>5. CASE Course(todo) /\ ~Over(Line, told, status)
  <2>1. CASE todo \in Seq(WorkEffect)
    <3>1. Head(todo) \in WorkEffect /\ Tail(todo) \in Seq(WorkEffect)
      BY <1>1, <2>1
    <3> QED BY <1>4, <1>5, <3>1 DEF Course
  <2>2. CASE Finishing(todo)
    <3>1. CASE Head(todo) \in WorkEffect /\ Finishing(Tail(todo))
      BY <1>4, <1>5, <3>1 DEF Course
    <3>2. CASE Head(todo) = [do |-> "save", k |-> Idle, enters |-> {}] /\ Cancelling(Tail(todo))
      <4>1. Head(todo) \in WorkEffect /\ Head(todo).do = "save" /\ Head(todo).k = Idle
        BY <3>2, IdleTyped DEF WorkEffect, SaveEffect
      <4> QED BY <1>4, <1>5, <3>2, <4>1
    <3> QED BY <2>2, <3>1, <3>2, FinishingStep
  <2> QED BY <1>5, <2>1, <2>2 DEF Course
<1>6. CASE Cancelling(todo) /\ ~Over(Line, told, status) /\ Dead(kernel)
  <2>1. Head(todo) \in CancelEffect /\ Closing(Tail(todo))
    BY <1>6, CancellingStep
  <2>2. Head(todo).do = "cancel"
    BY <2>1 DEF CancelEffect
  <2>3. Step /\ UNCHANGED <<told, status, kernel, mailbox>>
    BY <2>2, PerformFacts
  <2>4. AtWork(Line, told, status, kernel, todo', now)
    BY <1>1, <1>6, <2>1, <2>3 DEF AtWork, Step
  <2>5. Sound'
    BY <1>1, <1>3, <2>3, <2>4, SoundKept
  <2> QED BY <2>3, <2>5 DEF Orderly
<1>7. CASE Closing(todo) /\ ~Over(Line, told, status) /\ Dead(kernel)
  <2>1. Head(todo) \in EndEffect /\ Head(todo).do = "post" /\ Telling(Tail(todo)) /\ Tail(todo) # <<>>
    BY <1>7, ClosingStep
  <2>2. Head(todo).m \in Envelope /\ Head(todo).m.type = "runCompleted"
    BY <2>1 DEF EndEffect
  <2>3. Send(Head(todo).m) /\ Step /\ UNCHANGED <<told, status, kernel>>
    BY <2>1, PerformFacts
  <2>4. todo' = Tail(todo) /\ todo' # <<>>
    BY <2>1, <2>3 DEF Step
  <2>5. PICK e \in Envelope : e.type = "runCompleted" /\ Line' = Append(Line, e) /\ now' = now
    BY <1>1, <2>2, <2>3, <2>4, LineJoined
  <2>6. Bare(Line, told, status) /\ told = <<>>
    BY <1>1, <1>7 DEF Bare, Over
  <2>7. Coherent(Append(Line, e), told, status, kernel)
    BY <1>2, <1>7, <2>5, <2>6, OutcomeQueued DEF Ending
  <2>8. NoOpening(Append(Line, e))
    <3>1. Range(Append(Line, e)) = Range(Line) \cup {e}
      BY <1>2, <2>5, RangeAppended
    <3> QED BY <1>1, <2>5, <3>1 DEF NoOpening, Opening
  <2>9. AtWork(Append(Line, e), told, status, kernel, todo', now)
    BY <1>7, <2>1, <2>4, <2>6, <2>8 DEF AtWork
  <2>10. Sound'
    BY <2>3, <2>5, <2>7, <2>9 DEF Sound
  <2> QED BY <2>3, <2>10 DEF Orderly
<1>8. CASE Telling(todo) /\ told = <<>> /\ Dead(kernel)
  <2>1. Head(todo).do = "tell" /\ Tail(todo) = <<>>
    BY <1>8, TellingStep
  <2> DEFINE r == [step |-> Head(todo).m.step, result |-> Head(todo).m.result]
  <2>2. told' = Append(told, r) /\ Step /\ UNCHANGED <<status, kernel, mailbox>>
    BY <2>1, PerformFacts
  <2> HIDE DEF r
  <2>3. todo' = <<>>
    BY <2>1, <2>2 DEF Step
  <2>4. Coherent(Line, told', status', kernel')
    BY <1>1, <1>3, <1>8, <2>2, ParentTold
  <2>5. Sound'
    BY <1>1, <2>2, <2>3, <2>4, SoundKept
  <2>6. Len(told') = 1
    BY <1>8, <2>2
  <2> QED BY <1>8, <2>2, <2>5, <2>6 DEF Orderly
<1> QED BY <1>1, <1>5, <1>6, <1>7, <1>8

-----------------------------------------------------------------------------
(* A run that is started once                                              *)

\* Nobody was stopped who was not asked to.
Stopless ==
    stops = 0 =>
        /\ status # "stopped" /\ now.type # "stop"
        /\ \A m \in Range(mailbox) : m.type # "stop"

RunInv == Sound /\ Len(told) <= 1 /\ retrying = {} /\ Stopless

LEMMA EffectOrderly ==
    ASSUME TypeInv, Sound, Perform
    PROVE  Orderly
<1>1. todo # <<>> /\ now \in Envelope /\ now.type # "request"
  BY PerformKind DEF TypeInv
<1>2. now.type \in HandlerTypes
  BY <1>1 DEF Envelope, EnvelopeType, HandlerTypes
<1> QED BY <1>2, ChatStep, StartStep, CourseStep, OutcomeStep, StopStep DEF HandlerTypes

\* No handler sends a stop.
LEMMA StoplessKept ==
    ASSUME TypeInv, Sound, Stopless, Perform
    PROVE  Stopless'
<1> USE DEF runVars
<1>1. todo # <<>> /\ now \in Envelope /\ mailbox \in Seq(Envelope) /\ ids + 1 \in Nat
  BY PerformKind DEF TypeInv
<1>2. stops' = stops
  BY DEF Perform, SaveState, PublishSelf, PublishRequest, TellParent, ScheduleCallback,
         CancelCallbacks, Reload, PersistStatus, DisableModules
<1>3. now' \in {now, Blank}
  BY DEF Perform, SaveState, PublishSelf, PublishRequest, TellParent, ScheduleCallback,
         CancelCallbacks, Reload, PersistStatus, DisableModules, Step
<1>4. now.type # "stop" => now'.type # "stop"
  BY <1>3 DEF Blank
<1>5. status' = "stopped" => status = "stopped" \/ now.type = "stop"
  BY EffectOrderly DEF Orderly
<1>6. ASSUME NEW m \in Envelope, Send(m), m.type # "stop",
             \A e \in Range(mailbox) : e.type # "stop"
      PROVE  \A e \in Range(mailbox') : e.type # "stop"
  <2> DEFINE n == [m EXCEPT !.id = ids + 1]
  <2>1. n \in Envelope /\ n.type = m.type
    BY <1>1 DEF Envelope, EnvelopeType
  <2>2. mailbox' = Append(mailbox, n)
    BY <1>6 DEF Send
  <2> HIDE DEF n
  <2>3. Range(Append(mailbox, n)) = Range(mailbox) \cup {n}
    BY <1>1, <2>1, RangeAppended
  <2> QED BY <1>6, <2>1, <2>2, <2>3
<1>7. (\A e \in Range(mailbox) : e.type # "stop") => \A e \in Range(mailbox') : e.type # "stop"
  <2>1. CASE Head(todo).do = "post"
    <3>1. Head(todo).m \in Envelope /\ Send(Head(todo).m)
      BY <2>1, PerformFacts
    <3>2. Head(todo).m.type # "stop"
      <4>1. Head(todo) \in KernelEffect \cup PersistEffect \cup DisableEffect \cup OpenEffect
        BY <1>1, EffectTyped
      <4>2. Head(todo) \in CompletionEffect \cup EndEffect \cup OpenEffect
        BY <2>1, <4>1 DEF KernelEffect, WorkEffect, SaveEffect, RequestEffect, ArmEffect,
                         CancelEffect, AgainEffect, PersistEffect, DisableEffect
      <4> QED BY <4>2 DEF CompletionEffect, EndEffect, OpenEffect, StartMessage, Blank
    <3> QED BY <1>6, <3>1, <3>2
  <2>2. CASE Head(todo).do = "request"
    <3>1. PICK m \in Envelope : m.type = "request" /\ Send(m)
      BY <2>2, PerformFacts
    <3> QED BY <1>6, <3>1
  <2>3. CASE Head(todo).do \notin {"post", "request"}
    <3>1. mailbox' = mailbox
      BY <2>3 DEF Perform, SaveState, PublishSelf, PublishRequest, TellParent, ScheduleCallback,
                  CancelCallbacks, Reload, PersistStatus, DisableModules, Effect
    <3> QED BY <3>1
  <2> QED BY <2>1, <2>2, <2>3
<1> QED BY <1>2, <1>4, <1>5, <1>7 DEF Stopless

LEMMA InitSound ==
    ASSUME Starts <= 1
    PROVE  Init => RunInv
<1> SUFFICES ASSUME Init PROVE RunInv
  OBVIOUS
<1> DEFINE chat(i) == [Blank EXCEPT !.type = "chat", !.id = i]
<1>1. /\ status = "bound" /\ kernel = Idle /\ todo = <<>> /\ now = Blank /\ retrying = {}
      /\ told = <<>> /\ stops = 0 /\ mailbox = [i \in 1 .. Starts |-> chat(i)]
  BY Zenon DEF Init
<1>2. TypeInv
  BY InitTyped
<1>3. mailbox \in Seq(Envelope) /\ Line = mailbox
  BY <1>1, <1>2, LineTyped
<1>4. \A m \in Range(mailbox) : m.type = "chat"
  <2>1. \A i : chat(i).type = "chat"
    BY DEF Blank
  <2>2. Range(mailbox) = {mailbox[i] : i \in DOMAIN mailbox} /\ DOMAIN mailbox = 1 .. Starts
    BY <1>1 DEF Range
  <2> HIDE DEF chat
  <2> QED BY <1>1, <2>1, <2>2
<1>5. Starts = 0 \/ Starts = 1
  BY BoundsTyped
<1>6. DOMAIN mailbox \subseteq {1} /\ Len(mailbox) <= 1
  <2>1. DOMAIN mailbox = 1 .. Starts
    BY <1>1
  <2>2. Len(mailbox) = Starts
    BY <1>3, <1>5, <2>1, LenProperties
  <2> QED BY <1>5, <2>1, <2>2
<1>7. Lone(mailbox)
  BY <1>6 DEF Lone
<1>8. mailbox # <<>> => Tail(mailbox) = <<>>
  <2> SUFFICES ASSUME mailbox # <<>> PROVE Tail(mailbox) = <<>>
    OBVIOUS
  <2> HIDE DEF chat
  <2>0. /\ Tail(mailbox) \in Seq(Envelope) /\ Len(Tail(mailbox)) = Len(mailbox) - 1
        /\ Len(mailbox) \in Nat /\ Len(mailbox) # 0
    BY <1>3, HeadTailProperties, LenProperties, EmptySeq
  <2>1. Tail(mailbox) \in Seq(Envelope) /\ Len(Tail(mailbox)) = 0
    BY <1>6, <2>0
  <2> QED BY <2>1, EmptySeq
<1>9. NoOpening(<<>>)
  BY DEF NoOpening, Range
<1>10. NoEnding(mailbox)
  BY <1>4 DEF NoEnding, Ending
<1>11. ~kernel.active /\ ~Ended(status)
  BY <1>1 DEF Idle, Ended
<1>12. Coherent(mailbox, told, status, kernel)
  <2>1. OpeningInv(mailbox, told, status, kernel)
    BY <1>1, <1>7, <1>8, <1>9, <1>10, <1>11 DEF OpeningInv, Early, NoEnding
  <2> QED BY <1>1, <1>10, <1>11, <2>1 DEF Coherent, Over, Agreed, NoEnding
<1>13. Sound
  BY <1>1, <1>3, <1>12 DEF Sound
<1>14. Stopless
  BY <1>1, <1>4 DEF Stopless, Blank
<1>15. Len(told) <= 1
  <2>1. told = <<>>
    BY <1>1
  <2> QED BY <2>1
<1> QED BY <1>1, <1>13, <1>14, <1>15 DEF RunInv

\* An envelope of somebody else joins the line, and none of them is a stop.
LEMMA RunMeanwhile ==
    ASSUME TypeInv, RunInv, NEW m \in Envelope, Send(m), m.type \in {"completed", "timeout", "backoff"},
           UNCHANGED <<told, status, kernel, todo, now, retrying, stops>>
    PROVE  RunInv'
<1>1. ~Opening(m) /\ ~Ending(m)
  BY DEF Opening, Ending
<1>2. Sound'
  BY <1>1, SoundMeanwhile DEF RunInv
<1> DEFINE n == [m EXCEPT !.id = ids + 1]
<1>3. ids + 1 \in Nat /\ mailbox \in Seq(Envelope)
  BY DEF TypeInv
<1>4. n \in Envelope /\ n.type # "stop"
  BY <1>3 DEF Envelope, EnvelopeType
<1>5. mailbox' = Append(mailbox, n)
  BY DEF Send
<1> HIDE DEF n
<1>6. Range(Append(mailbox, n)) = Range(mailbox) \cup {n}
  BY <1>3, <1>4, RangeAppended
<1>7. Stopless'
  BY <1>4, <1>5, <1>6 DEF RunInv, Stopless
<1> QED BY <1>2, <1>7 DEF RunInv

LEMMA RunStep ==
    ASSUME TypeInv, failures = 0 => RunInv, [Next]_vars
    PROVE  /\ failures' = 0 => RunInv'
           /\ failures = 0 /\ stops = 0 /\ status \in Terminal => status' = status
<1> SUFFICES ASSUME failures = 0, RunInv
             PROVE  /\ failures' = 0 => RunInv'
                    /\ stops = 0 /\ status \in Terminal => status' = status
  <2>1. failures # 0 => failures' # 0
    <3>1. failures \in Nat
      BY BoundsTyped DEF TypeInv
    <3>2. failures' = failures \/ failures' = failures + 1
      BY DEF Next, Deliver, AcceptRequest, Perform, Answer, Fire, Redeliver, RequestStop,
             PublishFails, Crash, SaveState, PublishSelf, PublishRequest, TellParent,
             ScheduleCallback, CancelCallbacks, Reload, PersistStatus, DisableModules, vars
    <3> QED BY <3>1, <3>2
  <2> QED BY <2>1
<1> USE DEF runVars
<1>1. mailbox \in Seq(Envelope) /\ stops \in Nat
  BY BoundsTyped DEF TypeInv
<1>2. CASE Deliver
  <2>1. /\ mailbox # <<>> /\ mailbox' = Tail(mailbox)
        /\ now' \in {Blank, Head(mailbox)}
        /\ UNCHANGED <<told, status, retrying, stops>>
    BY <1>2 DEF Deliver
  <2>2. Range(mailbox) = {Head(mailbox)} \cup Range(Tail(mailbox))
    BY <1>1, <2>1, RangeTaken
  <2>3. Blank.type # "stop"
    BY DEF Blank
  <2>4. Stopless'
    BY <2>1, <2>2, <2>3 DEF RunInv, Stopless
  <2> QED BY <1>2, <2>1, <2>4, SoundDelivered DEF RunInv
<1>3. CASE AcceptRequest
  <2>1. /\ todo = <<>> /\ mailbox # <<>> /\ mailbox' = Tail(mailbox)
        /\ UNCHANGED <<told, status, kernel, todo, now, retrying, stops>>
    BY <1>3 DEF AcceptRequest
  <2>2. Range(mailbox) = {Head(mailbox)} \cup Range(Tail(mailbox))
    BY <1>1, <2>1, RangeTaken
  <2>3. Coherent(Tail(mailbox), told, status, kernel)
    BY <1>1, <2>1, LineTyped, CoherentLeft DEF RunInv, Sound
  <2>4. Sound'
    BY <2>1, <2>3 DEF Sound, Line
  <2>5. Stopless'
    BY <2>1, <2>2 DEF RunInv, Stopless
  <2> QED BY <2>1, <2>4, <2>5 DEF RunInv
<1>4. CASE Perform
  <2>1. UNCHANGED <<retrying, stops>>
    BY <1>4 DEF Perform, SaveState, PublishSelf, PublishRequest, TellParent, ScheduleCallback,
           CancelCallbacks, Reload, PersistStatus, DisableModules
  <2>2. Orderly
    BY <1>4, EffectOrderly DEF RunInv
  <2>3. Stopless'
    BY <1>4, StoplessKept DEF RunInv
  <2>4. Len(told') <= 1
    BY <2>2 DEF Orderly, RunInv
  <2>5. stops = 0 /\ status \in Terminal => status' = status
    BY <2>2 DEF Orderly, RunInv, Stopless, Terminal, Ended
  <2> QED BY <2>1, <2>2, <2>3, <2>4, <2>5 DEF RunInv, Orderly
<1>5. ASSUME NEW w \in working, Answer(w)
      PROVE  RunInv' /\ status' = status
  <2>1. PICK r \in Results, n \in Targets[w.step] :
            Send([Blank EXCEPT !.type = "completed", !.step = w.step, !.result = r,
                               !.next = IF r = "ok" THEN n ELSE NoStep, !.attempt = w.attempt])
    BY <1>5 DEF Answer
  <2> DEFINE m == [Blank EXCEPT !.type = "completed", !.step = w.step, !.result = r,
                                !.next = IF r = "ok" THEN n ELSE NoStep, !.attempt = w.attempt]
  <2>2. w.step \in Steps /\ w.attempt \in Nat
    BY DEF TypeInv, Envelope, EnvelopeType
  <2>3. r \in {"ok", "error", "timeout"} /\ n \in Steps \cup {Done, Invalid}
    BY <2>2, ConstantsAssumption
  <2>4. m \in EnvelopeType /\ m.type = "completed" /\ m.step = w.step /\ m.result = r
        /\ m.next = IF r = "ok" THEN n ELSE NoStep
    BY <2>2, <2>3, BlankTyped DEF EnvelopeType, Blank, OutcomeKinds
  <2>5. m \in Envelope
    BY <2>2, <2>3, <2>4 DEF Envelope
  <2>6. UNCHANGED <<told, status, kernel, todo, now, retrying, stops>>
    BY <1>5 DEF Answer
  <2> HIDE DEF m
  <2>7. Send(m)
    BY <2>1 DEF m
  <2> QED BY <2>4, <2>5, <2>6, <2>7, RunMeanwhile
<1>6. ASSUME NEW c \in armed, Fire(c)
      PROVE  RunInv' /\ status' = status
  <2> DEFINE m == [Blank EXCEPT !.type = c.cb.kind, !.step = c.cb.step, !.attempt = c.attempt,
                                !.lease = [cb |-> c.cb, gen |-> c.gen]]
  <2>1. c.cb \in Due /\ c.gen \in Nat /\ c.attempt \in Nat
    BY DEF TypeInv
  <2>2. [cb |-> c.cb, gen |-> c.gen] \in LeaseType
    BY <2>1, LeasesTyped
  <2>3. c.cb.kind \in {"timeout", "backoff"} /\ c.cb.step \in Steps
    BY <2>1 DEF Due
  <2>4. m \in EnvelopeType /\ m.type = c.cb.kind /\ m.step = c.cb.step
    BY <2>1, <2>2, <2>3, BlankTyped DEF EnvelopeType, Blank
  <2>5. m \in Envelope
    BY <2>3, <2>4 DEF Envelope
  <2>6. Send(m) /\ UNCHANGED <<told, status, kernel, todo, now, retrying, stops>>
    BY <1>6 DEF Fire
  <2> HIDE DEF m
  <2> QED BY <2>3, <2>4, <2>5, <2>6, RunMeanwhile
<1>7. ASSUME NEW m \in retrying, Redeliver(m)
      PROVE  FALSE
  BY <1>7 DEF RunInv
<1>8. CASE RequestStop
  <2> DEFINE m == [Blank EXCEPT !.type = "stop"]
  <2>1. m \in EnvelopeType /\ m.type = "stop"
    BY BlankTyped DEF EnvelopeType, Blank
  <2>2. m \in Envelope
    BY <2>1 DEF Envelope
  <2>3. Send(m) /\ UNCHANGED <<told, status, kernel, todo, now, retrying>> /\ stops' = stops + 1
    BY <1>8 DEF RequestStop
  <2> HIDE DEF m
  <2>4. ~Opening(m) /\ ~Ending(m)
    BY <2>1 DEF Opening, Ending
  <2>5. Sound'
    BY <2>2, <2>3, <2>4, SoundMeanwhile DEF RunInv
  <2>6. stops' # 0
    BY <1>1, <2>3
  <2> QED BY <2>3, <2>5, <2>6 DEF RunInv, Stopless
<1>9. CASE PublishFails
  BY <1>9 DEF PublishFails
<1>10. CASE Crash
  <2>1. /\ todo # <<>> /\ todo' = <<>> /\ now' = Blank /\ mailbox' = <<now>> \o mailbox
        /\ UNCHANGED <<status, kernel, told, retrying, stops>>
    BY <1>10 DEF Crash
  <2>2. Line' = Line
    BY <2>1 DEF Line
  <2>3. Sound'
    BY <2>1, <2>2 DEF RunInv, Sound
  <2>4. Range(<<now>> \o mailbox) = {now} \cup Range(mailbox)
    BY <1>1, <2>1, RangePrefixed, LineTyped
  <2>5. Stopless'
    BY <2>1, <2>4 DEF RunInv, Stopless, Blank
  <2> QED BY <2>1, <2>3, <2>5 DEF RunInv
<1>11. CASE UNCHANGED vars
  <2>1. UNCHANGED <<told, status, kernel, todo, now, mailbox, retrying, stops>>
    BY <1>11 DEF vars
  <2> QED BY <2>1 DEF RunInv, Sound, Line, Stopless
<1> QED BY <1>2, <1>3, <1>4, <1>5, <1>6, <1>7, <1>8, <1>9, <1>10, <1>11 DEF Next

-----------------------------------------------------------------------------
(* The theorems                                                            *)

\* The run was started once.
StartedOnce == Starts <= 1

\* No publication fails, so no envelope comes back to a run that has moved on.
NothingFails == MaxFailures = 0

LEMMA RunHolds ==
    ASSUME StartedOnce
    PROVE  Spec => [](TypeInv /\ (failures = 0 => RunInv))
<1>1. Init => (failures = 0 => RunInv)
  BY InitSound DEF StartedOnce
<1>2. TypeInv /\ (failures = 0 => RunInv) /\ [Next]_vars => (failures' = 0 => RunInv')
  BY RunStep
<1>3. TypeInv /\ (failures = 0 => RunInv) /\ [Next]_vars => (failures = 0 => RunInv)'
  BY <1>2
<1> QED BY <1>1, <1>3, TypesHold, PTL DEF Spec

\* The parent of a run that was started once hears of one outcome at most, as
\* long as no publication of the run failed, and however often its handlers are
\* cut short and their envelopes handled again (HandleChatRequest,
\* WorkflowExecutionKernel.HandleAsync, CleanupRunAsync before
\* PublishWorkflowCompletedAsync, HandleWorkflowCompleted).
THEOREM ParentToldOnce ==
    ASSUME StartedOnce
    PROVE  Spec => [](failures = 0 => Len(told) <= 1)
<1>1. TypeInv /\ (failures = 0 => RunInv) => (failures = 0 => Len(told) <= 1)
  BY DEF RunInv
<1> QED BY <1>1, RunHolds, PTL

\* A run that was not asked to stop keeps its terminal status, as long as no
\* publication of the run failed (HandleWorkflowCompleted, which looks at no
\* status; DisableExecutionModules and CleanupRunAsync leave nothing that could
\* send it a second outcome).
THEOREM TerminalIsKept ==
    ASSUME StartedOnce
    PROVE  Spec => [][failures = 0 /\ stops = 0 /\ status \in Terminal => status' = status]_vars
<1>1. TypeInv /\ (failures = 0 => RunInv) /\ [Next]_vars =>
          (failures = 0 /\ stops = 0 /\ status \in Terminal => status' = status)
  BY RunStep
<1> QED BY <1>1, RunHolds, PTL DEF Spec

\* OneOutcome with any number of crashes and of stops, where no publication can
\* fail (CleanupRunAsync before PublishWorkflowCompletedAsync).
THEOREM OutcomeToldOnce ==
    ASSUME StartedOnce, NothingFails
    PROVE  Spec => []OneOutcome
<1>1. TypeInv => failures = 0
  BY BoundsTyped DEF TypeInv, NothingFails
<1>2. TypeInv /\ (failures = 0 => Len(told) <= 1) => OneOutcome
  BY <1>1 DEF OneOutcome
<1> QED BY <1>2, ParentToldOnce, TypesHold, PTL

\* TerminalIsFinal with any number of crashes and of stops, where no publication
\* can fail (HandleWorkflowCompleted).
THEOREM StatusIsFinal ==
    ASSUME StartedOnce, NothingFails
    PROVE  Spec => TerminalIsFinal
<1>1. TypeInv => failures = 0
  BY BoundsTyped DEF TypeInv, NothingFails
<1>2. TypeInv /\ (failures = 0 => RunInv) /\ [Next]_vars =>
          (StartHandledOnce /\ stops = 0 /\ status \in Terminal => status' = status)
  BY <1>1, RunStep
<1> QED BY <1>2, RunHolds, PTL DEF Spec, TerminalIsFinal

================================================================================
