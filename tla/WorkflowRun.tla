------------------------------ MODULE WorkflowRun ------------------------------
(***************************************************************************)
(* One workflow run: the execution kernel that advances the steps, the run *)
(* agent that holds the run's status, the executors that perform the       *)
(* steps, and the durable callbacks for timeouts and retry backoffs.       *)
(*                                                                         *)
(* Source: Aevatar.Workflow.Core/Execution/WorkflowExecutionKernel.cs,     *)
(* Aevatar.Workflow.Core/WorkflowRunGAgent.cs.  The run is one actor: it   *)
(* takes one envelope at a time, and everything it tells itself goes       *)
(* through its mailbox.  A handler is the sequence of its awaited effects  *)
(* (save the kernel state, publish, schedule, cancel), performed one per   *)
(* step, so that executors, callbacks, a failed publication or a crash     *)
(* come between any two of them.                                           *)
(*                                                                         *)
(* An execution id is generated at every dispatch and travels with the     *)
(* step request.  No executor puts it into its StepCompletedEvent, so the  *)
(* kernel's comparison of execution ids never rejects; here a completion   *)
(* carries it as a ghost field, read by properties only.                   *)
(***************************************************************************)
EXTENDS Integers, Sequences, FiniteSets

CONSTANTS
    Steps,        \* the steps of the compiled workflow; never empty
    Entry,        \* its first step
    Default,      \* step -> the step GetNextStep finds without a branch key
    Targets,      \* step -> what a successful completion may select
    Done,         \* no next step
    Invalid,      \* a NextStepId that names no step
    NoStep,
    MaxAttempts,  \* step -> attempts its retry policy allows; 1 for no policy
    Delayed,      \* steps whose retry has a backoff delay
    OnError,      \* step -> "fail", "skip", or the fallback step
    Timed,        \* steps with a timeout
    Results,      \* how an executor may answer: "ok", "error", "timeout"
    Starts,       \* chat requests sent to the run
    MaxStops,     \* bound on stop requests
    MaxFailures,  \* bound on failed publications of a step request or completion
    MaxCrashes,   \* bound on handlers broken off by a crash or an exception
    LoopBound     \* no backward branch is taken after this many envelopes

ASSUME ConstantsAssumption ==
    /\ Entry \in Steps
    /\ {Done, Invalid, NoStep} \cap Steps = {}
    /\ Default \in [Steps -> Steps \cup {Done}]
    /\ Targets \in [Steps -> SUBSET (Steps \cup {Done, Invalid})]
    /\ \A s \in Steps : Default[s] \in Targets[s]
    /\ MaxAttempts \in [Steps -> 1 .. 10]
    /\ Delayed \subseteq Steps /\ Timed \subseteq Steps
    /\ OnError \in [Steps -> Steps \cup {"fail", "skip"}]
    /\ Results \subseteq {"ok", "error", "timeout"}
    /\ {Starts, MaxStops, MaxFailures, MaxCrashes, LoopBound} \subseteq Nat

VARIABLES
    status,   \* WorkflowRunState.Status
    modules,  \* the kernel and the executors are installed
    kernel,   \* the persisted WorkflowExecutionKernelState
    mailbox,  \* envelopes waiting for the run actor
    todo,     \* the effects the handler at work has still to perform
    now,      \* the envelope it handles
    granted,  \* generation of the callback it scheduled last
    armed,    \* durable callbacks that are scheduled
    working,  \* step requests an executor has taken and not answered
    retrying, \* envelopes whose handler threw, scheduled for redelivery
    told,     \* history: what the parent was told, in order
    tries,    \* history: requests published for the step's current visit
    ids,      \* envelopes and execution ids handed out
    stops, failures, crashes

control == <<stops, failures, crashes>>
vars == <<status, modules, kernel, mailbox, todo, now, granted, armed, working,
          retrying, told, tries, ids, control>>

-----------------------------------------------------------------------------
(* Records                                                                 *)

NoCallback == [kind |-> "none", step |-> NoStep, origin |-> 0]
Callback(kind, s, origin) == [kind |-> kind, step |-> s, origin |-> origin]

\* A lease names a callback id and the generation it was scheduled with; 0 is
\* the generation the handler is about to be granted.
NoLease == [cb |-> NoCallback, gen |-> 0]
NoBackoff == [cb |-> NoCallback, lease |-> NoLease, dispatching |-> FALSE]

Idle == [active |-> FALSE, step |-> NoStep, pending |-> FALSE, cb |-> NoCallback,
         timeouts |-> [s \in Steps |-> NoLease],
         backoffs |-> [s \in Steps |-> NoBackoff],
         retries  |-> [s \in Steps |-> 0],
         exec     |-> [s \in Steps |-> 0]]

\* attempt is the execution id an answer or a callback belongs to.
Blank == [type |-> "none", id |-> 0, step |-> NoStep, result |-> "none",
          next |-> NoStep, attempt |-> 0, lease |-> NoLease]

Terminal == {"completed", "failed", "stopped"}

-----------------------------------------------------------------------------
(* The effects of a handler, in the order the code awaits them             *)

Save(k) == <<[do |-> "save", k |-> k, enters |-> {}]>>
Post(m) == <<[do |-> "post", m |-> m]>>
Arm(cb, attempt) == <<[do |-> "arm", cb |-> cb, attempt |-> attempt]>>
\* A plausible bug: the lease is forgotten and its callback left alone.
CancelForgotten(l) == <<>>

Cancel(l) == IF l = NoLease THEN <<>> ELSE <<[do |-> "cancel", leases |-> {l}]>>
Again == <<[do |-> "again"]>>

\* The catch around a request cancels a timeout scheduled for it just before.
Request(s, attempt, scheduled) ==
    <<[do |-> "request", step |-> s, attempt |-> attempt, scheduled |-> scheduled]>>

\* PublishWorkflowCompletedAsync: to Self, then to Parent.
Outcome(result, s) ==
    LET m == [Blank EXCEPT !.type = "runCompleted", !.result = result, !.step = s]
    IN  Post(m) \o <<[do |-> "tell", m |-> m]>>

\* CleanupRunAsync saves the cleared state before it cancels the callbacks.
Cleanup(k) ==
    LET leases == {k.timeouts[s] : s \in Steps} \cup {k.backoffs[s].lease : s \in Steps}
    IN  Save(Idle) \o <<[do |-> "cancel", leases |-> leases \ {NoLease}]>>

\* DispatchStepAsync: the state it leaves behind, and the way there.
Dispatched(s, k, m) ==
    LET cb == IF s \in Timed THEN Callback("timeout", s, m.id) ELSE NoCallback
    IN  [k EXCEPT !.step = s, !.pending = FALSE, !.cb = cb, !.exec[s] = ids + 1,
                  !.timeouts[s] = IF s \in Timed THEN [cb |-> cb, gen |-> 0] ELSE @]

\* enters is a ghost field: the save with which a visit to the step begins, and
\* not another attempt of the visit under way.
Dispatch(s, k, m, visit) ==
    LET done  == Dispatched(s, k, m)
        waiting == [done EXCEPT !.pending = TRUE]
    IN  <<[do |-> "save", k |-> [waiting EXCEPT !.timeouts[s] = k.timeouts[s]],
           enters |-> IF visit THEN {s} ELSE {}]>>
        \o (IF s \in Timed THEN Arm(done.cb, ids + 1) \o Save(waiting) ELSE <<>>)
        \o Request(s, ids + 1, s \in Timed)
        \o Save(done)

\* ResumePendingCurrentStepDispatchAsync: the same request again, under the
\* execution id saved with the dispatch.
Resume(k) ==
    LET s == k.step
        arms == k.timeouts[s] = NoLease /\ k.cb # NoCallback
        waiting == IF arms THEN [k EXCEPT !.timeouts[s] = [cb |-> k.cb, gen |-> 0]] ELSE k
    IN  (IF arms THEN Arm(k.cb, k.exec[s]) \o Save(waiting) ELSE <<>>)
        \o Request(s, k.exec[s], arms)
        \o Save([waiting EXCEPT !.pending = FALSE])

-----------------------------------------------------------------------------
(* The kernel's handlers                                                   *)

\* A second start is answered with a failed completion of the same run.
HandleStart(m) ==
    IF ~modules THEN <<>>
    ELSE IF ~kernel.active
    THEN LET k == [Idle EXCEPT !.active = TRUE]
         IN  Save(k) \o Dispatch(Entry, k, m, TRUE)
    ELSE IF kernel.pending THEN Resume(kernel)
    ELSE Outcome("active", NoStep)

\* A callback or a completion of another step first resumes a dispatch that was
\* saved and not carried through, and is then looked at again.
\* A plausible bug: neither the run nor the step is compared.
StaleModulesOnly(m) == ~modules

Stale(m) == ~modules \/ ~kernel.active \/ (kernel.step # m.step /\ ~kernel.pending)
Resumes(m) == kernel.step # m.step /\ kernel.pending

\* A plausible bug: any timeout of the current step is believed.
MatchesTimeoutOfStep(k, m) == m.lease.cb.kind = "timeout"

MatchesTimeout(k, m) ==
    IF k.timeouts[m.step] # NoLease THEN m.lease = k.timeouts[m.step]
    ELSE m.lease.cb = k.cb

HandleTimeout(m) ==
    IF Stale(m) THEN <<>>
    ELSE IF Resumes(m) THEN Resume(kernel) \o Again
    ELSE IF ~MatchesTimeout(kernel, m) THEN <<>>
    ELSE Post([Blank EXCEPT !.type = "completed", !.step = m.step,
                            !.result = "timeout", !.attempt = m.attempt])
         \o Save([kernel EXCEPT !.timeouts[m.step] = NoLease, !.cb = NoCallback])

\* A plausible bug: the outcome is published before the state is cleared.
ProceedOutcomeFirst(next, k, m) ==
    CASE next = Done    -> Outcome("ok", m.step) \o Cleanup(k)
      [] next = Invalid -> Outcome("invalid", m.step) \o Cleanup(k)
      [] OTHER          -> Dispatch(next, k, m, TRUE)

\* What follows a step that counts as done.
Proceed(next, k, m) ==
    CASE next = Done    -> Cleanup(k) \o Outcome("ok", m.step)
      [] next = Invalid -> Cleanup(k) \o Outcome("invalid", m.step)
      [] OTHER          -> Dispatch(next, k, m, TRUE)

\* The backoff is saved without a lease, then with it, then with the count.
StartRetryBackoff(s, k, m) ==
    LET cb == Callback("backoff", s, m.id)
        unleased == [cb |-> cb, lease |-> NoLease, dispatching |-> FALSE]
        leased == [k EXCEPT !.backoffs[s] = [unleased EXCEPT !.lease = [cb |-> cb, gen |-> 0]]]
    IN  Save([k EXCEPT !.backoffs[s] = unleased]) \o Arm(cb, k.exec[s])
        \o Save(leased) \o Save([leased EXCEPT !.retries[s] = @ + 1])

\* Plausible bugs: the count of retries taken for that of attempts, both ways.
RetryOnceTooOften(s, k) == k.retries[s] < MaxAttempts[s]
RetryOnceTooFew(s, k) == k.retries[s] + 2 < MaxAttempts[s]

RetriesLeft(s, k) == k.retries[s] + 1 < MaxAttempts[s]

TryRetry(s, k, m) ==
    IF s \in Delayed THEN StartRetryBackoff(s, k, m)
    ELSE LET counted == [k EXCEPT !.retries[s] = @ + 1]
         IN  Save(counted) \o Dispatch(s, counted, m, FALSE)

TryOnError(s, k, m) ==
    LET forgiven == [k EXCEPT !.retries[s] = 0]
    IN  CASE OnError[s] = "fail" -> Cleanup(k) \o Outcome("error", s)
          [] OnError[s] = "skip" -> Save(forgiven) \o Proceed(Default[s], forgiven, m)
          [] OTHER -> Save(forgiven) \o Dispatch(OnError[s], forgiven, m, TRUE)

\* A timeout error is neither retried nor handed to on_error.
StepFailed(s, k, m) ==
    IF m.result = "timeout" THEN Cleanup(k) \o Outcome("timeout", s)
    ELSE IF RetriesLeft(s, k) THEN TryRetry(s, k, m)
    ELSE TryOnError(s, k, m)

HandleCompleted(m) ==
    LET s == m.step
        k == [kernel EXCEPT !.exec[s] = 0, !.cb = NoCallback, !.timeouts[s] = NoLease]
        backoff == kernel.backoffs[s]
        unwaiting == [k EXCEPT !.backoffs[s] = NoBackoff]
        succeeded == [unwaiting EXCEPT !.retries[s] = 0]
        cancelTimeout == Save(k) \o Cancel(kernel.timeouts[s])
        cancelBackoff == IF backoff = NoBackoff THEN <<>>
                         ELSE Save(unwaiting) \o Cancel(backoff.lease)
    IN  IF Stale(m) THEN <<>>
        ELSE IF Resumes(m) THEN Resume(kernel) \o Again
        ELSE IF m.result = "ok"
        THEN cancelTimeout \o cancelBackoff \o Save(succeeded) \o Proceed(m.next, succeeded, m)
        ELSE IF backoff # NoBackoff THEN cancelTimeout
        ELSE cancelTimeout \o StepFailed(s, k, m)

MatchesBackoff(b, m) ==
    IF b.lease # NoLease THEN m.lease = b.lease ELSE m.lease.cb = b.cb

\* A plausible bug: the fired backoff is removed before its step is redispatched.
RedispatchAndForget(s, m) ==
    LET k == [kernel EXCEPT !.backoffs[s] = NoBackoff, !.pending = TRUE,
                 !.cb = IF s \in Timed THEN Callback("timeout", s, m.id) ELSE NoCallback]
    IN  Save(k) \o Dispatch(s, k, m, FALSE)

\* The backoff stays until the redispatch succeeded, marked as dispatching, so
\* that the same fired callback can be replayed.
Redispatch(s, m) ==
    LET k == [kernel EXCEPT !.backoffs[s].dispatching = TRUE, !.pending = TRUE,
                 !.cb = IF s \in Timed THEN Callback("timeout", s, m.id) ELSE NoCallback]
    IN  Save(k) \o Dispatch(s, k, m, FALSE)
        \o Save([Dispatched(s, k, m) EXCEPT !.backoffs[s] = NoBackoff])

HandleBackoff(m) ==
    LET b == kernel.backoffs[m.step]
    IN  IF ~modules \/ ~kernel.active THEN <<>>
        ELSE IF Resumes(m) THEN Resume(kernel) \o Again
        ELSE IF b = NoBackoff \/ ~MatchesBackoff(b, m) THEN <<>>
        ELSE IF b.dispatching
        THEN IF kernel.pending THEN Resume(kernel) \o Again
             ELSE Save([kernel EXCEPT !.backoffs[m.step] = NoBackoff])
        ELSE IF kernel.step # m.step THEN <<>>
        ELSE Redispatch(m.step, m)

-----------------------------------------------------------------------------
(* The run agent's handlers                                                *)

Persist(st) == <<[do |-> "persist", status |-> st]>>
Disable == <<[do |-> "disable"]>>

HandleChatRequest(m) == Persist("running") \o Post([Blank EXCEPT !.type = "start"])

\* No guard on the status: a completion is recorded whatever came before it.
HandleWorkflowCompleted(m) ==
    Persist(IF m.result = "ok" THEN "completed" ELSE "failed") \o Disable

\* A plausible bug: the execution modules stay installed in a stopped run.
HandleStoppedKeepsModules(m) ==
    IF status \notin Terminal THEN Persist("stopped") ELSE <<>>

\* A stop comes from outside, as a WorkflowStoppedEvent of the stop command
\* (WorkflowStopCommandEnvelopeFactory): the agent's typed handler takes it
\* (HandleWorkflowStopped), and stands before the kernel in the pipeline, of one
\* priority with it.  Its persisted stop has cleared the kernel state when the kernel
\* looks at it.  The all-event handler of priority 50 takes only what the run published
\* to itself, and no code publishes this event so.
HandleStopped(m) ==
    IF status \notin Terminal THEN Persist("stopped") \o Disable
    ELSE IF modules /\ kernel.active THEN Cleanup(kernel) ELSE <<>>

Handler(m) ==
    CASE m.type = "chat"         -> HandleChatRequest(m)
      [] m.type = "start"        -> HandleStart(m)
      [] m.type = "timeout"      -> HandleTimeout(m)
      [] m.type = "backoff"      -> HandleBackoff(m)
      [] m.type = "completed"    -> HandleCompleted(m)
      [] m.type = "runCompleted" -> HandleWorkflowCompleted(m)
      [] m.type = "stop"         -> HandleStopped(m)

-----------------------------------------------------------------------------
(* Steps                                                                   *)

runVars == <<status, modules, kernel, armed, working, retrying, told, tries>>

\* The actor takes its next envelope; ids + 1 is the execution id of this turn.
Deliver ==
    /\ todo = <<>> /\ mailbox # <<>> /\ Head(mailbox).type # "request"
    /\ todo' = Handler(Head(mailbox))
    /\ now' = IF todo' = <<>> THEN Blank ELSE Head(mailbox)
    /\ mailbox' = Tail(mailbox)
    /\ ids' = ids + 1
    /\ UNCHANGED <<runVars, granted, control>>

\* The bridge module hands a step request to the executor of its step type.
AcceptRequest ==
    /\ todo = <<>> /\ mailbox # <<>> /\ Head(mailbox).type = "request"
    /\ working' = IF modules THEN working \cup {Head(mailbox)} ELSE working
    /\ mailbox' = Tail(mailbox)
    /\ UNCHANGED <<status, modules, kernel, todo, now, granted, armed, retrying, told,
                   tries, ids, control>>

Send(m) ==
    /\ mailbox' = Append(mailbox, [m EXCEPT !.id = ids + 1])
    /\ ids' = ids + 1

\* An executor answers once, with an outcome and, on success, a next step.
Answer(w) ==
    /\ w \in working
    /\ working' = working \ {w}
    /\ \E r \in Results, n \in Targets[w.step] :
         /\ ids < LoopBound \/ n \in {Default[w.step], Done, Invalid}
         /\ r # "ok" => n = Default[w.step]
         /\ Send([Blank EXCEPT !.type = "completed", !.step = w.step, !.result = r,
                               !.next = IF r = "ok" THEN n ELSE NoStep,
                               !.attempt = w.attempt])
    /\ UNCHANGED <<status, modules, kernel, todo, now, granted, armed, retrying, told,
                   tries, control>>

\* A durable callback is due: the scheduler publishes it and forgets it.
Fire(c) ==
    /\ c \in armed
    /\ armed' = armed \ {c}
    /\ Send([Blank EXCEPT !.type = c.cb.kind, !.step = c.cb.step, !.attempt = c.attempt,
                          !.lease = [cb |-> c.cb, gen |-> c.gen]])
    /\ UNCHANGED <<status, modules, kernel, todo, now, granted, working, retrying, told,
                   tries, control>>

RequestStop ==
    /\ stops < MaxStops
    /\ stops' = stops + 1
    /\ Send([Blank EXCEPT !.type = "stop"])
    /\ UNCHANGED <<runVars, todo, now, granted, failures, crashes>>

\* The next effect of the handler at work.
Effect(kind) == todo # <<>> /\ Head(todo).do = kind

Step ==
    /\ todo' = Tail(todo)
    /\ now' = IF todo' = <<>> THEN Blank ELSE now

Granted(l) == IF l # NoLease /\ l.gen = 0 THEN [l EXCEPT !.gen = granted] ELSE l

SaveState ==
    /\ Effect("save") /\ Step
    /\ LET k == Head(todo).k
       IN  kernel' = [k EXCEPT
               !.timeouts = [s \in Steps |-> Granted(k.timeouts[s])],
               !.backoffs = [s \in Steps |-> [k.backoffs[s] EXCEPT !.lease = Granted(@)]]]
    /\ tries' = [s \in Steps |-> IF s \in Head(todo).enters THEN 0 ELSE tries[s]]
    /\ UNCHANGED <<status, modules, mailbox, granted, armed, working, retrying, told, ids,
                   control>>

PublishSelf ==
    /\ Effect("post") /\ Step
    /\ Send(Head(todo).m)
    /\ UNCHANGED <<runVars, granted, control>>

PublishRequest ==
    /\ Effect("request") /\ Step
    /\ LET e == Head(todo)
       IN  /\ Send([Blank EXCEPT !.type = "request", !.step = e.step, !.attempt = e.attempt])
           /\ tries' = [tries EXCEPT ![e.step] = @ + 1]
    /\ UNCHANGED <<status, modules, kernel, granted, armed, working, retrying, told, control>>

TellParent ==
    /\ Effect("tell") /\ Step
    /\ told' = Append(told, [step |-> Head(todo).m.step, result |-> Head(todo).m.result])
    /\ UNCHANGED <<status, modules, kernel, mailbox, granted, armed, working, retrying,
                   tries, ids, control>>

\* Scheduling a callback id that is still armed replaces it.
ScheduleCallback ==
    /\ Effect("arm") /\ Step
    /\ LET e == Head(todo)
           old == {c \in armed : c.cb = e.cb}
           gen == IF old = {} THEN 1 ELSE (CHOOSE c \in old : TRUE).gen + 1
       IN  /\ granted' = gen
           /\ armed' = (armed \ old) \cup {[cb |-> e.cb, gen |-> gen, attempt |-> e.attempt]}
    /\ UNCHANGED <<status, modules, kernel, mailbox, working, retrying, told, tries, ids,
                   control>>

CancelCallbacks ==
    /\ Effect("cancel") /\ Step
    /\ armed' = {c \in armed : [cb |-> c.cb, gen |-> c.gen] \notin Head(todo).leases}
    /\ UNCHANGED <<status, modules, kernel, mailbox, granted, working, retrying, told,
                   tries, ids, control>>

\* Handlers that resumed a dispatch go on with the state they reload.
Reload ==
    /\ Effect("again")
    /\ todo' = Handler(now)
    /\ now' = IF todo' = <<>> THEN Blank ELSE now
    /\ ids' = ids + 1
    /\ UNCHANGED <<runVars, mailbox, granted, control>>

\* A persisted stop clears the execution states with the status.
PersistStatus ==
    /\ Effect("persist") /\ Step
    /\ status' = Head(todo).status
    /\ kernel' = IF status' = "stopped" THEN Idle ELSE kernel
    /\ UNCHANGED <<modules, mailbox, granted, armed, working, retrying, told, tries, ids,
                   control>>

DisableModules ==
    /\ Effect("disable") /\ Step
    /\ modules' = FALSE
    /\ UNCHANGED <<status, kernel, mailbox, granted, armed, working, retrying, told, tries,
                   ids, control>>

\* Publishing a step request or a timeout's completion throws; a timeout that
\* was scheduled for the request is cancelled and removed.  The runtime schedules
\* the envelope to be handled again, with the id it has.
PublishFails ==
    /\ failures < MaxFailures
    /\ failures' = failures + 1
    /\ Effect("request") \/ (Effect("post") /\ now.type = "timeout")
    /\ IF Effect("request") /\ Head(todo).scheduled
       THEN LET s == Head(todo).step
            IN  /\ armed' = {c \in armed : [cb |-> c.cb, gen |-> c.gen] # kernel.timeouts[s]}
                /\ kernel' = [kernel EXCEPT !.timeouts[s] = NoLease]
       ELSE UNCHANGED <<armed, kernel>>
    /\ retrying' = retrying \cup {now}
    /\ todo' = <<>> /\ now' = Blank
    /\ UNCHANGED <<status, modules, mailbox, granted, working, told, tries, ids, stops,
                   crashes>>

\* The retry is due: the envelope comes back behind whatever arrived meanwhile.
Redeliver(m) ==
    /\ m \in retrying
    /\ retrying' = retrying \ {m}
    /\ mailbox' = Append(mailbox, m)
    /\ UNCHANGED <<status, modules, kernel, todo, now, granted, armed, working, told,
                   tries, ids, control>>

\* The silo dies between two effects; the stream delivers the envelope again to
\* a new activation, which installs modules unless the status is terminal.
Crash ==
    /\ crashes < MaxCrashes /\ todo # <<>>
    /\ crashes' = crashes + 1
    /\ modules' = (status \notin Terminal)
    /\ todo' = <<>> /\ now' = Blank
    /\ mailbox' = <<now>> \o mailbox
    /\ UNCHANGED <<status, kernel, granted, armed, working, retrying, told, tries, ids, stops,
                   failures>>

Init ==
    /\ status = "bound" /\ modules = TRUE
    /\ kernel = Idle
    /\ mailbox = [i \in 1 .. Starts |-> [Blank EXCEPT !.type = "chat", !.id = i]]
    /\ todo = <<>> /\ now = Blank /\ granted = 0
    /\ armed = {} /\ working = {} /\ retrying = {}
    /\ told = <<>> /\ tries = [s \in Steps |-> 0]
    /\ ids = Starts
    /\ stops = 0 /\ failures = 0 /\ crashes = 0

Perform ==
    \/ SaveState \/ PublishSelf \/ PublishRequest \/ TellParent
    \/ ScheduleCallback \/ CancelCallbacks \/ Reload
    \/ PersistStatus \/ DisableModules

Next ==
    \/ Deliver \/ AcceptRequest \/ Perform
    \/ \E w \in working : Answer(w)
    \/ \E c \in armed : Fire(c)
    \/ \E m \in retrying : Redeliver(m)
    \/ RequestStop \/ PublishFails \/ Crash

Spec == Init /\ [][Next]_vars

\* The actor takes its envelopes and finishes its handlers, executors answer
\* (each has a timeout or a watchdog of its own), durable callbacks fire, and a
\* scheduled redelivery is one of them.
Fairness ==
    /\ WF_vars(Deliver \/ AcceptRequest)
    /\ WF_vars(Perform)
    /\ WF_vars(\E w \in working : Answer(w))
    /\ WF_vars(\E c \in armed : Fire(c))
    /\ WF_vars(\E m \in retrying : Redeliver(m))

FairSpec == Spec /\ Fairness

-----------------------------------------------------------------------------
(* Properties                                                              *)

OutcomeKinds == {"ok", "error", "timeout", "invalid", "active"}
CallbackType == [kind : {"none", "timeout", "backoff"}, step : Steps \cup {NoStep}, origin : Nat]
LeaseType == [cb : CallbackType, gen : Nat]
EnvelopeType ==
    [type : {"none", "chat", "start", "request", "completed", "timeout", "backoff",
             "runCompleted", "stop"},
     id : Nat, step : Steps \cup {NoStep}, result : OutcomeKinds \cup {"none"},
     next : Steps \cup {Done, Invalid, NoStep}, attempt : Nat, lease : LeaseType]
KernelType ==
    [active : BOOLEAN, step : Steps \cup {NoStep}, pending : BOOLEAN, cb : CallbackType,
     timeouts : [Steps -> LeaseType],
     backoffs : [Steps -> [cb : CallbackType, lease : LeaseType, dispatching : BOOLEAN]],
     retries : [Steps -> 0 .. 9], exec : [Steps -> Nat]]

\* Every variable keeps its type, and the saved retry count of a step stays below
\* the attempts its policy allows (TryRetryAsync).
TypeOK ==
    /\ status \in Terminal \cup {"bound", "running"}
    /\ modules \in BOOLEAN
    /\ kernel \in KernelType /\ \A s \in Steps : kernel.retries[s] < MaxAttempts[s]
    /\ mailbox \in Seq(EnvelopeType) /\ now \in EnvelopeType
    /\ \A i \in DOMAIN todo : todo[i].do \in {"save", "post", "request", "tell", "arm",
                                "cancel", "again", "persist", "disable"}
    /\ granted \in Nat /\ ids \in Nat
    /\ armed \subseteq [cb : CallbackType, gen : Nat, attempt : Nat]
    /\ working \subseteq EnvelopeType /\ retrying \subseteq EnvelopeType
    /\ told \in Seq([step : Steps \cup {NoStep}, result : OutcomeKinds])
    /\ tries \in [Steps -> Nat]
    /\ stops \in 0 .. MaxStops /\ failures \in 0 .. MaxFailures /\ crashes \in 0 .. MaxCrashes

\* A start whose request was published, whose handler was cut short and whose
\* second handling failed to publish comes back to a run that has moved on.
StartHandledOnce == failures = 0 \/ crashes = 0

\* The parent hears of at most one outcome of a run that was started once, even
\* when handlers are cut short, or publications fail, and their envelopes are
\* handled again (CleanupRunAsync before PublishWorkflowCompletedAsync).
OneOutcome == StartHandledOnce => Len(told) <= 1

\* A run that was not asked to stop never leaves a terminal status
\* (HandleWorkflowCompleted, which does not look at the status).
TerminalIsFinal ==
    [][StartHandledOnce /\ stops = 0 /\ status \in Terminal => status' = status]_vars

\* Nothing is requested of an executor once the run is stopped, whatever its
\* mailbox, its executors and its callbacks still hold (HandleWorkflowStopped,
\* DisableExecutionModules, ApplyWorkflowStopped).
NoWorkAfterStop ==
    [][status = "stopped" => tries' = tries /\ working' \subseteq working]_vars

\* Between two envelopes every callback still scheduled is one whose lease the
\* kernel holds, so it is cancelled when the step or the run ends; a stop, a
\* failed publication or a crash may orphan one, and nothing else does
\* (CancelTimeoutAsync, StartRetryBackoffAsync, CleanupRunAsync).
CallbacksAreHeld ==
    todo = <<>> /\ control = <<0, 0, 0>> =>
        \A c \in armed : \E s \in Steps :
            [cb |-> c.cb, gen |-> c.gen] \in {kernel.timeouts[s], kernel.backoffs[s].lease}

\* A step is requested at most as often in one visit as its retry policy allows,
\* requests whose publication failed and that were replayed included; a crash may
\* repeat a request that was published (TryRetryAsync, HandleRetryBackoffFiredAsync).
AttemptBudget == crashes = 0 => \A s \in Steps : tries[s] <= MaxAttempts[s]

\* A run fails over a step's error only after every attempt of that visit was
\* used, and only when the step has no on_error (TryRetryAsync, TryOnErrorAsync).
FailsOnlyExhausted ==
    \A i \in DOMAIN told :
        told[i].result = "error" =>
            tries[told[i].step] = MaxAttempts[told[i].step] /\ OnError[told[i].step] = "fail"

\* The timeout the kernel acts on was scheduled for the attempt under way, not
\* for an earlier one of the same step; when an envelope is handled twice, its
\* callback id is scheduled twice and no longer tells the attempts apart
\* (MatchesCurrentStepTimeout).
TimeoutHitsItsAttempt ==
    Effect("post") /\ now.type = "timeout" /\ failures = 0 /\ crashes = 0 =>
        now.attempt = kernel.exec[now.step]

\* A completion of an earlier attempt changes nothing for the current one ("reject
\* stale completions with mismatched execution_id", HandleStepCompletedAsync).
StaleCompletionRejected ==
    [][(Deliver \/ Reload) /\ todo' # <<>> /\ now'.type = "completed" /\ ~Resumes(now')
           => now'.attempt = kernel.exec[now'.step]]_vars

\* When an executor reports a timeout, a step with on_error does not fail the run
\* (docs on wait_signal.timeout_ms; StepFailed's timeout branch).
ExecutorTimeoutDegrades ==
    \A i \in DOMAIN told : told[i].result = "timeout" => OnError[told[i].step] = "fail"

\* A run that was started ends, although publications of step requests and of
\* timeouts fail now and then (ResumePendingCurrentStepDispatchAsync).
RunEnds == <>(status \in Terminal)

=============================================================================
