---------------------------- MODULE EventSourcing ----------------------------
(***************************************************************************)
(* One event-sourced actor: its event stream in the event store, its       *)
(* snapshot, the deferred compaction of the stream, and the activations    *)
(* that replay the stream, run command handlers and append to it.          *)
(*                                                                         *)
(* Source: Aevatar.Foundation.Core/EventSourcing/EventSourcingBehavior.cs, *)
(* Aevatar.Foundation.Core/GAgentBase.TState.cs, the event stores under    *)
(* Aevatar.Foundation.Runtime/Persistence and ...Garnet, and the envelope  *)
(* loop of RuntimeActorGrain.cs.  A step of the model runs from one await  *)
(* to the next, so another activation, the store or a crash may come       *)
(* between any two of them.                                                *)
(*                                                                         *)
(* The state of an agent is the sequence of the events applied to it: any  *)
(* TransitionState is a function of that sequence, so two states that are  *)
(* equal here are equal for every agent.                                   *)
(***************************************************************************)
EXTENDS Integers, Sequences, FiniteSetsExt

CONSTANTS
    Activations,       \* activations of the actor that may be live together
    Commands,          \* inbound envelopes, each handled by one command handler
    Events,            \* domain events
    Batch,             \* the events a command's handler persists in one commit
    Absorbing,         \* commands persisted through the OCC-absorbing overload
    NoCommand,         \* no command: the append is the flush of DeactivateAsync
    SnapshotInterval,  \* IntervalSnapshotStrategy
    RetainedEvents,    \* RetainedEventsAfterSnapshot
    MaxRetries,        \* RuntimeEnvelopeRetryPolicy.MaxAttempts
    RecoverFromDrift,  \* RecoverFromVersionDriftOnReplay
    AppendMayFail,     \* AppendAsync may throw without having written
    ReplyMayBeLost,    \* AppendAsync may throw after the write took effect
    PublishMayFail,    \* publishing the committed events may throw
    MaxCrashes         \* bound on the number of crashes

ASSUME ConstantsAssumption ==
    /\ Batch \in [Commands -> Seq(Events)]
    /\ \A c \in Commands : Batch[c] # <<>>
    /\ Absorbing \subseteq Commands
    /\ \A c \in Absorbing : Len(Batch[c]) = 1
    /\ NoCommand \notin Commands
    /\ SnapshotInterval \in Nat \ {0}
    /\ RetainedEvents \in Nat
    /\ MaxRetries \in Nat
    /\ MaxCrashes \in Nat
    /\ {RecoverFromDrift, AppendMayFail, ReplyMayBeLost, PublishMayFail} \subseteq BOOLEAN

VARIABLES
    \* the event store
    events,     \* version -> event, for the versions not yet compacted
    version,    \* the authoritative version key of the stream
    committed,  \* history: every event ever committed, in commit order
    \* the snapshot store and the deferred compaction of each silo
    snapshot,   \* [version, state]; version 0 stands for no snapshot
    compactTo,  \* DeferredEventStoreCompactionScheduler._pendingByAgent
    hookDue,    \* a deactivation hook was dispatched and has not run
    \* the activations
    pc,         \* where each activation stands
    cmd,        \* the command being handled
    ver,        \* EventSourcingBehavior._currentVersion
    pending,    \* EventSourcingBehavior._pending
    state,      \* GAgentBase._state
    cached,     \* the snapshot as the activation read it from its grain state
    reply,      \* [version, state] a replay or an append has obtained so far
    \* the runtime envelope loop
    inbox,      \* commands waiting to be delivered
    attempts,   \* retry attempt of each command
    acked,      \* commands whose handler returned without an exception
    crashes

storeVars == <<events, version, committed>>
snapVars  == <<snapshot, compactTo, hookDue>>
agentVars == <<ver, pending, state>>
boxVars   == <<inbox, attempts, acked, crashes>>
vars == <<storeVars, snapVars, agentVars, boxVars, pc, cmd, cached, reply>>

NoSnapshot == [version |-> 0, state |-> <<>>]

Phases == {"down", "loading", "replayed", "idle", "appending", "committed",
           "rejected", "error", "saving", "broken"}

-----------------------------------------------------------------------------
(* Helpers                                                                 *)

\* A plausible bug: the snapshot version itself is replayed again.
AboveInclusive(v) == {w \in DOMAIN events : w >= v}

\* GetEventsAsync(fromVersion): the versions returned, the last of them, and the
\* events in version order.  Only a prefix of a stream is ever deleted, so the
\* versions above v run without a hole from the first to the last.
Above(v) == {w \in DOMAIN events : w > v}

LastVersion(v) == IF Above(v) = {} THEN v ELSE Max(Above(v))

Replayed(v) ==
    IF Above(v) = {} THEN <<>>
    ELSE LET first == Min(Above(v))
         IN  [i \in 1 .. (Max(Above(v)) - first + 1) |-> events[first + i - 1]]

\* AppendAsync: the events are stored under versions the caller computed from
\* its own _currentVersion, and the version key becomes the last of them.
Stored(v, evts) ==
    [w \in DOMAIN events \cup ((v + 1) .. (v + Len(evts))) |->
        IF w > v /\ w <= v + Len(evts) THEN evts[w - v] ELSE events[w]]

Larger(m, n) == IF m >= n THEN m ELSE n

SnapshotDue(v) == v > 0 /\ v % SnapshotInterval = 0

-----------------------------------------------------------------------------
(* The handler of cmd[a] ended with an exception.  The runtime builds a    *)
(* retry envelope while attempts remain, and otherwise logs and drops it.  *)

\* A plausible bug: one retry more than MaxAttempts.
RetriedOnceTooOften(a) ==
    /\ attempts[cmd[a]] <= MaxRetries
    /\ attempts' = [attempts EXCEPT ![cmd[a]] = @ + 1]
    /\ inbox' = inbox \cup {cmd[a]}
    /\ UNCHANGED <<acked, crashes>>

\* A plausible bug: the envelope is dropped without a retry.
RetryNeverSent(a) == UNCHANGED <<inbox, attempts, acked, crashes>>

HandlerFailed(a) ==
    /\ IF attempts[cmd[a]] < MaxRetries
       THEN /\ attempts' = [attempts EXCEPT ![cmd[a]] = @ + 1]
            /\ inbox' = inbox \cup {cmd[a]}
       ELSE UNCHANGED <<attempts, inbox>>
    /\ UNCHANGED <<acked, crashes>>

HandlerReturned(a) ==
    /\ acked' = acked \cup {cmd[a]}
    /\ UNCHANGED <<inbox, attempts, crashes>>

\* The memory of an activation goes with it.
Forget(a) ==
    /\ pc' = [pc EXCEPT ![a] = "down"]
    /\ cmd' = [cmd EXCEPT ![a] = NoCommand]
    /\ ver' = [ver EXCEPT ![a] = 0]
    /\ pending' = [pending EXCEPT ![a] = <<>>]
    /\ state' = [state EXCEPT ![a] = <<>>]
    /\ cached' = [cached EXCEPT ![a] = NoSnapshot]
    /\ reply' = [reply EXCEPT ![a] = NoSnapshot]

-----------------------------------------------------------------------------
(* Replay: at activation, and again inside the OCC-absorbing overload      *)

\* A grain activation reads its persistent state, which holds the snapshot.
Activate(a) ==
    /\ pc[a] = "down"
    /\ pc' = [pc EXCEPT ![a] = "loading"]
    /\ cached' = [cached EXCEPT ![a] = snapshot]
    /\ UNCHANGED <<storeVars, snapVars, agentVars, boxVars, cmd, reply>>

\* GetEventsAsync(snapshot version) and the TransitionState loop.
ReadEvents(a) ==
    /\ pc[a] = "loading"
    /\ pc' = [pc EXCEPT ![a] = "replayed"]
    /\ reply' = [reply EXCEPT ![a] =
           [version |-> LastVersion(cached[a].version),
            state   |-> cached[a].state \o Replayed(cached[a].version)]]
    /\ UNCHANGED <<storeVars, snapVars, agentVars, boxVars, cmd, cached>>

Drifted(a) == version > reply[a].version

\* GetVersionAsync, and what ReplayAsync makes of the two versions.
ReplaySucceeds(a) ==
    /\ Drifted(a) => RecoverFromDrift
    /\ ver' = [ver EXCEPT ![a] = Larger(version, reply[a].version)]
    /\ state' = [state EXCEPT ![a] = reply[a].state]

ProbeOnActivation(a) ==
    /\ pc[a] = "replayed" /\ cmd[a] = NoCommand
    /\ \/ /\ ReplaySucceeds(a)
          /\ pc' = [pc EXCEPT ![a] = "idle"]
       \/ /\ Drifted(a) /\ ~RecoverFromDrift
          /\ pc' = [pc EXCEPT ![a] = "broken"]
          /\ UNCHANGED <<ver, state>>
    /\ reply' = [reply EXCEPT ![a] = NoSnapshot]
    /\ UNCHANGED <<storeVars, snapVars, boxVars, cmd, pending, cached>>

\* After a conflict the overload replays and asks the caller's callback
\* whether the peer's commit already satisfies the command.
ProbeOnConflict(a) ==
    /\ pc[a] = "replayed" /\ cmd[a] # NoCommand
    /\ \/ ReplaySucceeds(a) /\ (HandlerReturned(a) \/ HandlerFailed(a))
       \/ /\ Drifted(a) /\ ~RecoverFromDrift
          /\ HandlerFailed(a)
          /\ UNCHANGED <<ver, state>>
    /\ pc' = [pc EXCEPT ![a] = "idle"]
    /\ cmd' = [cmd EXCEPT ![a] = NoCommand]
    /\ reply' = [reply EXCEPT ![a] = NoSnapshot]
    /\ UNCHANGED <<storeVars, snapVars, pending, cached>>

\* BindAgentAsync swallowed the failed activation: the grain stays up with no
\* agent, drops what it is sent, and goes away when the runtime collects it.
DropEnvelope(a, c) ==
    /\ pc[a] = "broken" /\ c \in inbox
    /\ inbox' = inbox \ {c}
    /\ UNCHANGED <<storeVars, snapVars, agentVars, pc, cmd, cached, reply,
                   attempts, acked, crashes>>

CollectBroken(a) ==
    /\ pc[a] = "broken"
    /\ Forget(a)
    /\ hookDue' = [hookDue EXCEPT ![a] = TRUE]
    /\ UNCHANGED <<storeVars, snapshot, compactTo, boxVars>>

-----------------------------------------------------------------------------
(* Command handling: RaiseEvent, ConfirmEventsAsync, TransitionState       *)

\* The handler raises its events behind whatever is still pending and calls
\* ConfirmEventsAsync, which sends the whole of _pending to the store.
Handle(a, c) ==
    /\ pc[a] = "idle" /\ c \in inbox
    /\ inbox' = inbox \ {c}
    /\ cmd' = [cmd EXCEPT ![a] = c]
    /\ pending' = [pending EXCEPT ![a] = @ \o Batch[c]]
    /\ pc' = [pc EXCEPT ![a] = "appending"]
    /\ UNCHANGED <<storeVars, snapVars, ver, state, cached, reply,
                   attempts, acked, crashes>>

\* A plausible bug: the expected version is not compared.
AppendUnconditionally(a) ==
    /\ pc[a] = "appending"
    /\ events' = Stored(ver[a], pending[a])
    /\ version' = ver[a] + Len(pending[a])
    /\ committed' = committed \o pending[a]
    /\ pc' = [pc EXCEPT ![a] = "committed"]
    /\ UNCHANGED <<snapVars, agentVars, boxVars, cmd, cached, reply>>

\* The store accepts the batch as one unit when the versions agree.
AppendAccepted(a) ==
    /\ pc[a] = "appending" /\ ver[a] = version
    /\ events' = Stored(ver[a], pending[a])
    /\ version' = ver[a] + Len(pending[a])
    /\ committed' = committed \o pending[a]
    /\ pc' = [pc EXCEPT ![a] = "committed"]
    /\ UNCHANGED <<snapVars, agentVars, boxVars, cmd, cached, reply>>

\* EventStoreOptimisticConcurrencyException carries the store's version.
AppendRejected(a) ==
    /\ pc[a] = "appending" /\ ver[a] # version
    /\ reply' = [reply EXCEPT ![a] = [version |-> version, state |-> <<>>]]
    /\ pc' = [pc EXCEPT ![a] = "rejected"]
    /\ UNCHANGED <<storeVars, snapVars, agentVars, boxVars, cmd, cached>>

\* Any other exception out of AppendAsync, before or after the write.
AppendThrows(a) ==
    /\ \/ pc[a] = "appending" /\ AppendMayFail
       \/ pc[a] = "committed" /\ ReplyMayBeLost
    /\ pc' = [pc EXCEPT ![a] = "error"]
    /\ UNCHANGED <<storeVars, snapVars, agentVars, boxVars, cmd, cached, reply>>

\* A plausible bug: _pending is not cleared after the commit.
CommittedPrefixKept(a) ==
    /\ pc[a] = "committed" /\ cmd[a] # NoCommand
    /\ ver' = [ver EXCEPT ![a] = @ + Len(pending[a])]
    /\ pending' = [pending EXCEPT ![a] = @]
    /\ state' = [state EXCEPT ![a] = @ \o Batch[cmd[a]]]
    /\ HandlerReturned(a) \/ (PublishMayFail /\ HandlerFailed(a))
    /\ pc' = [pc EXCEPT ![a] = "idle"]
    /\ cmd' = [cmd EXCEPT ![a] = NoCommand]
    /\ UNCHANGED <<storeVars, snapVars, cached, reply>>

\* A plausible bug: the version advances by one, not by the batch.
VersionAdvancedByOne(a) ==
    /\ pc[a] = "committed" /\ cmd[a] # NoCommand
    /\ ver' = [ver EXCEPT ![a] = @ + 1]
    /\ pending' = [pending EXCEPT ![a] = <<>>]
    /\ state' = [state EXCEPT ![a] = @ \o Batch[cmd[a]]]
    /\ HandlerReturned(a) \/ (PublishMayFail /\ HandlerFailed(a))
    /\ pc' = [pc EXCEPT ![a] = "idle"]
    /\ cmd' = [cmd EXCEPT ![a] = NoCommand]
    /\ UNCHANGED <<storeVars, snapVars, cached, reply>>

\* ConfirmEventsAsync returns: the version advances, _pending is cleared, and
\* PersistDomainEventsAsync applies the events of this command only, then
\* publishes them: a publication that throws fails the handler.
CommandCommitted(a) ==
    /\ pc[a] = "committed" /\ cmd[a] # NoCommand
    /\ ver' = [ver EXCEPT ![a] = @ + Len(pending[a])]
    /\ pending' = [pending EXCEPT ![a] = <<>>]
    /\ state' = [state EXCEPT ![a] = @ \o Batch[cmd[a]]]
    /\ HandlerReturned(a) \/ (PublishMayFail /\ HandlerFailed(a))
    /\ pc' = [pc EXCEPT ![a] = "idle"]
    /\ cmd' = [cmd EXCEPT ![a] = NoCommand]
    /\ UNCHANGED <<storeVars, snapVars, cached, reply>>

\* A plausible bug: the rejected batch stays in _pending.
RejectedBatchKept(a) ==
    /\ pc[a] = "rejected" /\ cmd[a] # NoCommand
    /\ ver' = [ver EXCEPT ![a] = Larger(@, reply[a].version)]
    /\ \/ /\ cmd[a] \in Absorbing
          /\ pc' = [pc EXCEPT ![a] = "loading"]
          /\ UNCHANGED <<cmd, boxVars>>
       \/ /\ cmd[a] \notin Absorbing
          /\ HandlerFailed(a)
          /\ pc' = [pc EXCEPT ![a] = "idle"]
          /\ cmd' = [cmd EXCEPT ![a] = NoCommand]
    /\ reply' = [reply EXCEPT ![a] = NoSnapshot]
    /\ UNCHANGED <<storeVars, snapVars, pending, state, cached>>

\* A plausible bug: the handler of a rejected batch returns.
ConflictSwallowed(a) ==
    /\ pc[a] = "rejected" /\ cmd[a] # NoCommand
    /\ ver' = [ver EXCEPT ![a] = Larger(@, reply[a].version)]
    /\ pending' = [pending EXCEPT ![a] = <<>>]
    /\ \/ /\ cmd[a] \in Absorbing
          /\ pc' = [pc EXCEPT ![a] = "loading"]
          /\ UNCHANGED <<cmd, boxVars>>
       \/ /\ cmd[a] \notin Absorbing
          /\ HandlerReturned(a)
          /\ pc' = [pc EXCEPT ![a] = "idle"]
          /\ cmd' = [cmd EXCEPT ![a] = NoCommand]
    /\ reply' = [reply EXCEPT ![a] = NoSnapshot]
    /\ UNCHANGED <<storeVars, snapVars, state, cached>>

\* ConfirmEventsAsync refreshes _currentVersion, drops the rejected batch and
\* rethrows; the absorbing overload starts a replay instead.
CommandRejected(a) ==
    /\ pc[a] = "rejected" /\ cmd[a] # NoCommand
    /\ ver' = [ver EXCEPT ![a] = Larger(@, reply[a].version)]
    /\ pending' = [pending EXCEPT ![a] = <<>>]
    /\ \/ /\ cmd[a] \in Absorbing
          /\ pc' = [pc EXCEPT ![a] = "loading"]
          /\ UNCHANGED <<cmd, boxVars>>
       \/ /\ cmd[a] \notin Absorbing
          /\ HandlerFailed(a)
          /\ pc' = [pc EXCEPT ![a] = "idle"]
          /\ cmd' = [cmd EXCEPT ![a] = NoCommand]
    /\ reply' = [reply EXCEPT ![a] = NoSnapshot]
    /\ UNCHANGED <<storeVars, snapVars, state, cached>>

\* The general catch only rethrows: _pending and _currentVersion stay.
CommandFailed(a) ==
    /\ pc[a] = "error" /\ cmd[a] # NoCommand
    /\ HandlerFailed(a)
    /\ pc' = [pc EXCEPT ![a] = "idle"]
    /\ cmd' = [cmd EXCEPT ![a] = NoCommand]
    /\ UNCHANGED <<storeVars, snapVars, agentVars, cached, reply>>

-----------------------------------------------------------------------------
(* Deactivation: flush, snapshot, deferred compaction                      *)

\* DeactivateAsync flushes _pending; with nothing pending ConfirmEventsAsync
\* returns at once.
Deactivate(a) ==
    /\ pc[a] = "idle"
    /\ pc' = [pc EXCEPT ![a] = IF pending[a] = <<>> THEN "saving" ELSE "appending"]
    /\ UNCHANGED <<storeVars, snapVars, agentVars, boxVars, cmd, cached, reply>>

FlushCommitted(a) ==
    /\ pc[a] = "committed" /\ cmd[a] = NoCommand
    /\ ver' = [ver EXCEPT ![a] = @ + Len(pending[a])]
    /\ pending' = [pending EXCEPT ![a] = <<>>]
    /\ pc' = [pc EXCEPT ![a] = "saving"]
    /\ UNCHANGED <<storeVars, snapVars, boxVars, cmd, state, cached, reply>>

\* The exception leaves DeactivateAsync: no snapshot and no hook.
FlushFailed(a) ==
    /\ pc[a] \in {"rejected", "error"} /\ cmd[a] = NoCommand
    /\ Forget(a)
    /\ UNCHANGED <<storeVars, snapVars, boxVars>>

\* A plausible bug: the save ignores the etag.
SaveWithoutEtag(a) ==
    /\ SnapshotDue(ver[a])
    /\ snapshot' = [version |-> ver[a], state |-> state[a]]
    /\ compactTo' = [compactTo EXCEPT ![a] =
           IF ver[a] > RetainedEvents THEN Larger(@, ver[a] - RetainedEvents) ELSE @]

\* A plausible bug: compaction is scheduled without the save.
CompactWithoutSnapshot(a) ==
    /\ SnapshotDue(ver[a])
    /\ cached[a] = snapshot
    /\ UNCHANGED snapshot
    /\ compactTo' = [compactTo EXCEPT ![a] =
           IF ver[a] > RetainedEvents THEN Larger(@, ver[a] - RetainedEvents) ELSE @]

\* Records the snapshot and, once it is saved, the version to compact to.
\* Grain state is written under the etag of the state the activation read.
SaveSnapshot(a) ==
    /\ SnapshotDue(ver[a])
    /\ cached[a] = snapshot
    /\ snapshot' = [version |-> ver[a], state |-> state[a]]
    /\ compactTo' = [compactTo EXCEPT ![a] =
           IF ver[a] > RetainedEvents THEN Larger(@, ver[a] - RetainedEvents) ELSE @]

\* PersistSnapshotAsync does nothing off the interval and ignores a failed
\* save; either way the deactivation hook is dispatched, unawaited.
FinishDeactivation(a) ==
    /\ pc[a] = "saving"
    /\ SaveSnapshot(a) \/ UNCHANGED <<snapshot, compactTo>>
    /\ hookDue' = [hookDue EXCEPT ![a] = TRUE]
    /\ Forget(a)
    /\ UNCHANGED <<storeVars, boxVars>>

\* The hook's RunOnIdleAsync; a failed delete puts its target back.
RunOnIdle(a) ==
    /\ hookDue[a]
    /\ hookDue' = [hookDue EXCEPT ![a] = FALSE]
    /\ \/ /\ events' = [w \in Above(compactTo[a]) |-> events[w]]
          /\ compactTo' = [compactTo EXCEPT ![a] = 0]
       \/ UNCHANGED <<events, compactTo>>
    /\ UNCHANGED <<version, committed, snapshot, agentVars, boxVars,
                   pc, cmd, cached, reply>>

\* The silo of the activation dies: its memory goes, with the scheduler's
\* pending target and any hook; the stream may redeliver what it was handling.
Crash(a) ==
    /\ crashes < MaxCrashes
    /\ pc[a] # "down" \/ hookDue[a]
    /\ crashes' = crashes + 1
    /\ Forget(a)
    /\ compactTo' = [compactTo EXCEPT ![a] = 0]
    /\ hookDue' = [hookDue EXCEPT ![a] = FALSE]
    /\ \/ UNCHANGED inbox
       \/ cmd[a] # NoCommand /\ inbox' = inbox \cup {cmd[a]}
    /\ UNCHANGED <<storeVars, snapshot, attempts, acked>>

-----------------------------------------------------------------------------
Init ==
    /\ events = <<>> /\ version = 0 /\ committed = <<>>
    /\ snapshot = NoSnapshot
    /\ compactTo = [a \in Activations |-> 0]
    /\ hookDue = [a \in Activations |-> FALSE]
    /\ pc = [a \in Activations |-> "down"]
    /\ cmd = [a \in Activations |-> NoCommand]
    /\ ver = [a \in Activations |-> 0]
    /\ pending = [a \in Activations |-> <<>>]
    /\ state = [a \in Activations |-> <<>>]
    /\ cached = [a \in Activations |-> NoSnapshot]
    /\ reply = [a \in Activations |-> NoSnapshot]
    /\ inbox = Commands
    /\ attempts = [c \in Commands |-> 0]
    /\ acked = {}
    /\ crashes = 0

Replay(a) == ReadEvents(a) \/ ProbeOnActivation(a) \/ ProbeOnConflict(a)

Append_(a) == AppendAccepted(a) \/ AppendRejected(a) \/ AppendThrows(a)

Resume(a) ==
    \/ CommandCommitted(a) \/ CommandRejected(a) \/ CommandFailed(a)
    \/ FlushCommitted(a) \/ FlushFailed(a) \/ FinishDeactivation(a)

Step(a) ==
    \/ Activate(a) \/ Replay(a) \/ CollectBroken(a)
    \/ \E c \in Commands : Handle(a, c) \/ DropEnvelope(a, c)
    \/ Append_(a) \/ Resume(a)
    \/ Deactivate(a) \/ RunOnIdle(a) \/ Crash(a)

Next == \E a \in Activations : Step(a)

Spec == Init /\ [][Next]_vars

\* Delivery, activation and every continuation of an await happen eventually;
\* idle collection and faults need not.  Orleans collects a grain by its idle
\* age, so a queued envelope is not put off by deactivations for ever.
Fairness ==
    \A a \in Activations :
        /\ WF_vars(Activate(a) \/ Replay(a) \/ CollectBroken(a))
        /\ WF_vars(AppendAccepted(a) \/ AppendRejected(a))
        /\ WF_vars(Resume(a))
        /\ \A c \in Commands : SF_vars(Handle(a, c))

FairSpec == Spec /\ Fairness

-----------------------------------------------------------------------------
(* Properties                                                              *)

StateType == [version : Nat, state : Seq(Events)]

\* Every variable keeps its type.
TypeOK ==
    /\ DOMAIN events \subseteq Nat /\ \A v \in DOMAIN events : events[v] \in Events
    /\ version \in Nat
    /\ committed \in Seq(Events)
    /\ snapshot \in StateType
    /\ compactTo \in [Activations -> Nat]
    /\ hookDue \in [Activations -> BOOLEAN]
    /\ pc \in [Activations -> Phases]
    /\ cmd \in [Activations -> Commands \cup {NoCommand}]
    /\ ver \in [Activations -> Nat]
    /\ pending \in [Activations -> Seq(Events)]
    /\ state \in [Activations -> Seq(Events)]
    /\ cached \in [Activations -> StateType]
    /\ reply \in [Activations -> StateType]
    /\ inbox \subseteq Commands
    /\ attempts \in [Commands -> 0 .. MaxRetries]
    /\ acked \subseteq Commands
    /\ crashes \in 0 .. MaxCrashes

\* Whatever activations, faults and compactions do, the store holds a suffix of
\* the committed history, in commit order and without a hole, and its version
\* key counts the events ever committed (AppendAsync, DeleteEventsUpToAsync).
StreamIntegrity ==
    /\ version = Len(committed)
    /\ DOMAIN events \subseteq 1 .. version
    /\ \A v \in DOMAIN events : events[v] = committed[v]
    /\ \A v \in DOMAIN events : v .. version \subseteq DOMAIN events

\* Compaction deletes an event only when the stored snapshot is at or above its
\* version, although the delete runs detached from the activation that saved
\* (TryScheduleCompactionAsync, RunOnIdleAsync).
CompactionCovered ==
    \A v \in 1 .. version : v \notin DOMAIN events => v <= snapshot.version

\* A snapshot never replaces a newer one, whichever activation saves it last
\* (RuntimeActorGrainEventSourcingSnapshotStore.SaveAsync).
SnapshotMonotone == [][snapshot'.version >= snapshot.version]_vars

\* What an activation started now and left alone would restore (the snapshot,
\* then the stored events above it) is the whole committed history: a snapshot
\* only shortens the replay (ReplayAsync, PersistSnapshotAsync).
Recoverable == snapshot.state \o Replayed(snapshot.version) = committed

\* Between two commands the online state is the fold of the stream up to the
\* activation's own version (PersistDomainEventsAsync against ReplayAsync).
ReplayHomomorphism ==
    \A a \in Activations :
        pc[a] = "idle" => ver[a] <= version /\ state[a] = SubSeq(committed, 1, ver[a])

\* The positions after which the batch of c stands in the history.
Occurrences(c) ==
    {i \in 0 .. (Len(committed) - Len(Batch[c])) :
        SubSeq(committed, i + 1, i + Len(Batch[c])) = Batch[c]}

\* A command whose handler returned has its events in the stream, next to one
\* another (ConfirmEventsAsync; an absorbed conflict is the peer's commit).
AckedDurable == \A c \in acked \ Absorbing : Occurrences(c) # {}

\* However often a conflict makes the runtime run a handler again, the events of
\* one command are committed at most once (the OCC branch of ConfirmEventsAsync).
CommittedOnce == \A c \in Commands : Cardinality(Occurrences(c)) <= 1

\* A command is in the end handled or has used up its retries: neither a wedged
\* version nor a lost retry leaves it hanging (HandleEnvelopeAsyncCore).
Settled(c) ==
    \/ c \in acked
    \/ attempts[c] = MaxRetries /\ c \notin inbox /\ \A a \in Activations : cmd[a] # c

EveryCommandSettles == \A c \in Commands : <>Settled(c)

-----------------------------------------------------------------------------
(* While appends and publications succeed, the detailed system is the      *)
(* journal a command handler is written against.  An envelope is back when *)
(* it is to be handled although its events are in the stream.  A command   *)
(* that absorbs a conflict is answered by a peer's commit, not its own.    *)

Back(c) ==
    /\ Occurrences(c) # {}
    /\ c \in inbox \/ \E a \in Activations : cmd[a] = c /\ pc[a] # "committed"

ActorJournal ==
    INSTANCE Journal WITH
        log      <- committed,
        commits  <- [c \in Commands |-> Cardinality(Occurrences(c))],
        again    <- {c \in Commands : Back(c)},
        restarts <- crashes,
        answered <- acked \ Absorbing

\* Peers, conflicts, retries and crashes at any await included, every step is a
\* commit of one whole batch, an answer after it, a restart, a dropped envelope
\* or a stutter (HandleEnvelopeAsyncCore, ConfirmEventsAsync,
\* PersistDomainEventsAsync).
ImplementsJournal == ActorJournal!Spec

=============================================================================
