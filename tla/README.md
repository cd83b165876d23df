# Verification of the aevatar runtime

TLA+ models of the core of aevatar, the TLC runs that check them on small
instances, and proofs checked by TLAPS for every instance: the .NET actor runtime
and workflow engine, and the two editors of the console's Studio. Paths are relative
to the repository's root (the .NET code is in `src/`, product agents in `agents/`, the
console in `apps/aevatar-console-web/`, the CLI with a front end in `tools/`).

- [The system](#the-system): parts, state, operations, what is hard
- [Plan](#plan)
- [Modules](#modules): how each module corresponds to the code
- [Runs](#runs): what is checked, with which bounds
- [Fairness](#fairness)
- [Proofs](#proofs)
- [What is not modelled](#what-is-not-modelled)

## The system

aevatar is an actor runtime with event-sourced agents (GAgents), a workflow engine
on top of it, a CQRS projection layer beside it, and platforms (services, scripts,
studio, chat channels) built from these. An actor handles one envelope at a time;
agents talk by envelopes on streams (to self, parent, children), never by calls;
state is the fold of the events an agent has persisted.

| Component | State | Operations | Hard behaviour | Correct when |
|---|---|---|---|---|
| Event sourcing of an actor (`Foundation.Core/EventSourcing`, event stores, `GAgentBase<TState>`) | stream and version key; snapshot; `_currentVersion`, `_pending`, `_state` of an activation; compaction targets | activate/replay, raise + confirm, OCC-absorbing persist, flush, snapshot, idle compaction | two activations alive at once, appends failing before or after the write, crash between append and continuation, compaction detached from deactivation | the stream is hole-free, nothing uncovered is deleted, replay equals the online state, a command commits once per delivery |
| Envelope handling (`RuntimeActorGrain`) | inbox, retry attempts, deduplication window | handle, retry, drop | a retry of what was half done | every envelope is handled or has used up its retries |
| Workflow run (`WorkflowExecutionKernel`, `WorkflowRunGAgent`) | run status, installed modules, persisted kernel state (current step, pending dispatch, leases, backoffs, retry counts, execution ids) | chat request, start, step completion, timeout, retry backoff, resume, completion, stop | every handler is a sequence of awaited effects; stale timeouts and completions; crash and replay of half-done handlers | one outcome, final status, attempt budget kept, no work after a stop, the run ends |
| Durable callbacks (`RuntimeCallbackSchedulerGrain`, in-memory scheduler) | entries with generations, persisted copy, reminders | schedule, cancel, purge, tick | a failed state write leaves a change in memory that a later call persists; a cancel that dies before the reminder is unregistered; leases from earlier generations; one-shot ticks that nobody takes | what was ended never fires, what was granted fires unless its only tick was missed |
| Workflow step modules (`Workflow.Core/Modules`) | pending signals, approvals, fan-outs, loops | accept request, answer, time out | late and duplicate answers, partial fan-out failure | one completion per request |
| Sub-workflow orchestration (`SubWorkflowOrchestrator`) | pending resolutions and invocations, child bindings | invoke, resolve definition, complete, clean up | resolution timeout racing the answer, singleton children shared by runs | each invocation is answered once, children do not leak |
| Projection scopes (`CQRS.Projection.Core`) | active/released, relay, watermark, failure log | ensure, observe, release, replay failures | relay removed at deactivation, failures replayed while observing goes on | no committed event is lost silently |
| Service platform (`GAgentService.*`) | rollout status and stage, serving set, deployments, revisions, runs, governance | start/advance/pause/resume/roll back, replace targets, activate | dispatch fails between stages, stale commands, crash between two persists | serving targets always belong to a stage or the baseline |
| Scripting (`Aevatar.Scripting.*`) | definitions, catalog revisions, evolution sessions | propose, validate, promote, roll back | a session outliving its proposal, promotion after a conflict | the catalog points to a validated revision |
| Multi-agent board, external links, voice presence | tasks and owners; link state; session | claim/complete, connect/back off, attach/detach | claims racing expiry, reconnect storms, remote session loss | one owner per task, one live link |
| Streams and local runtime | subscriptions, forwarding rules, mailboxes | publish, forward, subscribe | forwarding cycles, unsubscribe during delivery | FIFO per actor, each target once |
| Retired-actor cleanup | lease, progress | claim, reset, delete | two hosts, restart half-way | a retired actor's stream is reset once |
| AI core, tool and LLM providers | chat history, tool budget | chat, tool loop | external services | — |
| Console Studio, Build > Script (`StudioScriptBuildPanel`, `StudioPage`) | selection, drafts in local storage, the editor, verdict, save status, observation token; behind it the catalog actor and its read model | edit, validate, save, poll, switch, create, reload, offer to Bind | a save is accepted long before it is applied; answers late, lost or about a script no longer shown; a second page | Bind gets what is shown and active, no draft is lost, no save with a base overwrites a revision unseen, every save ends |
| Console Studio, Build > Workflow (`StudioWorkflowBuildPanel`, `StudioPage`, `shared/studio/document.ts`) | the draft as YAML text and as canvas, the file cache, edits and a save under way | insert, apply, remove, connect, type, save, open | text and canvas are converted into each other by a server, so every edit is a round trip; switch or save in between | references resolve, the engine's order survives an edit, edits build on each other, a draft is saved under its own id |
| Console: chat, runs, teams, scopes, governance, mission control, script workbench; CLI front end | queries, folded event streams, forms | show, send | folding streams; the rest is presentation | — |
| Studio services, governance, channels, scheduled agents, hosting, authentication, tools, demos | documents, registrations, conversations | CRUD, turns | mostly I/O | — |

Interactions: the workflow run is an event-sourced actor (every `save`, `persist`
below is a commit of the first component); it schedules durable callbacks, whose
envelopes come back through its mailbox; executors receive step requests on the
run's own stream and publish completions to it; committed events are published to
the projection scopes. The script editor's saves become promotions of a catalog actor,
which it watches through a projected read model; the workflow editor's documents are
what the engine's `GetNextStep` runs, which `WorkflowDocument` models beside the edits.

`PROJECT.json` lists all components with their status and every hazard with its line.

## Plan

1. `EventSourcing`, `Journal`, `EventSourcingProofs` — done.
2. `WorkflowRun` — modelled and checked; types, the stop, the single outcome and the final
   status proved in `WorkflowRunProofs`, the number of attempts and the callbacks in
   `WorkflowRunCallbackProofs`, the failure that has used them up in
   `WorkflowRunFailureProofs`.
   `RuntimeCallbacks`, `RuntimeCallbacksProofs` — done.
3. `ScriptBuild` — modelled, checked and its safety proved.
4. `WorkflowDocument`, `StudioDraft` and their proofs — done.
5. `ProjectionScope`: relay, dispatch, watermark, failure log and replay; abstract
   specification: every committed event is dispatched or in the failure log.
6. `ServiceRollout`: rollout manager against the serving set actor.
7. `SubWorkflows`: orchestrator of a parent run with child runs, over the interface
   of `WorkflowRun`; fan-out and wait-signal executors refine its abstract executor.
8. Composition of `WorkflowRun` with `RuntimeCallbacks` in place of its atomic
   scheduler, and the envelope deduplication window in front of the mailbox.
9. The folding of a run's event stream into chat messages; the CLI's workflow editor.
10. Later: script evolution sessions, task board, external links, conversations.

Theorem planned, of the run: `OneOutcome` for publications that fail in a run without
crashes.
Each new component gets one run for its safety and liveness, as the present ones have.

## Modules

**`EventSourcing.tla`** — one actor's stream, snapshot and compaction, and the
activations that use them. A step runs from one `await` to the next. `events`,
`version` are the store (`IEventStore`: in-memory, file, Garnet); `ver`, `pending`,
`state` are `_currentVersion`, `_pending`, `_state`; `cached` is the snapshot an
activation read with its grain state, whose etag guards `SaveAsync`; `compactTo` is
the deferred scheduler's map; `inbox`, `attempts`, `acked` are the envelope loop. An
agent's state is the sequence of events applied to it: every `TransitionState` is a
function of it. Actions: `Activate`, `ReadEvents`, `ProbeOnActivation` (the two reads
of `ReplayAsync` are separate, so the drift probe can be wrong), `Handle`,
`AppendAccepted/Rejected/Throws`, `CommandCommitted/Rejected/Failed` (the three exits
of `ConfirmEventsAsync`), `ProbeOnConflict` (OCC-absorbing overload), `Deactivate`,
`FlushCommitted/Failed`, `FinishDeactivation` (snapshot and compaction target),
`RunOnIdle`, `Crash`, `DropEnvelope`/`CollectBroken` (a grain whose activation failed).

**`Journal.tla`** — what the component promises: a command commits its whole batch behind
everything before it, once, and once more only when a restart brought its envelope back
after the commit; it is answered after its commit. `EventSourcing` implements it, with any
number of activations, under `log <- committed`, `commits[c] <- Cardinality(Occurrences(c))`
(the places where the command's batch stands in the history), `again <-` the commands whose
events are in the stream and whose envelope is queued or in a handler before its commit,
`restarts <- crashes`, `answered <- acked \ Absorbing` (a command that absorbs a conflict is
answered by a peer's commit).

**`WorkflowRun.tla`** — a handler is the sequence `todo` of its awaited effects, built
by an operator named after the method (`HandleCompleted`, `Proceed`, `TryRetry`,
`Dispatch`, `Resume`, `Cleanup`, …) from the state the handler loaded; each effect
(`SaveState`, `PublishRequest`, `PublishSelf`, `ScheduleCallback`, `CancelCallbacks`,
`TellParent`, `PersistStatus`, `DisableModules`) is a step of its own, so that
executors, callbacks, a stop, a failed publication or a crash come between any two.
`armed` is a callback scheduler that is atomic per call and never fails; `working` are
step requests at executors. The execution id is carried as a ghost: the source never
sets it in a completion.

**`RuntimeCallbacks.tla`** — the scheduler grain of one actor, one step per await.
`memory` and `stored` are the grain state in memory and as last written: a write that
throws leaves them different (with or without the write's effect), until the next
write, a crash or a reactivation. `n` numbers schedulings, a ghost that tells apart
what the code tells apart by generation only. `ended` are the schedulings whose removal
was written, by a call that may still fail or die before it unregisters the reminder.
`TicksMissed` and `Crash` let one-shot reminders come due while no silo serves them
(`missed`): Orleans makes no tick up, and the next is `OneShotReminderPeriod`, 36500 days,
away. A periodic reminder ticks again a period later.

**`ScriptBuild.tla`** — the script editor and its parent page, with the server behind
them. An action is the code between two awaits, together with the render and the
effects that follow (`Render`: another active script, or another source of it, refills
the editor). `selected`, `pending`, `stored`, `view` are the parent's selection, draft,
local storage and query cache; `pkg`, `verdict`, `obs`, `saveStatus`, `observed`, `token`
are the panel's state; `Active`, `Dirty`, `Bindable` are what a render derives. `flights`
are the calls of `handleSave` and `pollSaveObservation`, each at its await: `post`,
`observe`, an answer that is on its way (`pending`, `applied`, `rejected`, `error`),
`timer`, and the refetch after an end. `accepted`, `decided`, `head`, `catalog` are the
saves a server has accepted, those `ScriptCatalogGAgent` has handled, and the active
revision in the actor and in its read model; `PeerSave` is another page. A save that
fails may have been accepted. `heads` is the history of the catalog actor's heads: a
revision it rejects is decided and never in it. `loaded`, `strayed` and `seen` are
history too.

**`WorkflowDocument.tla`** — the edits of `shared/studio/document.ts` as operators named
after them (`Insert`, `ApplyDraft`, `Remove`, `RemoveAll`, `Connect`, `FreshId`) and
`GetNextStep` of the engine (`Successor`). A document is a function from positions to
steps, so that removing a step leaves the others where they are; `removeSteps` is a
recursive function over the positions. `Sound` (unique ids, resolved references),
`Bypassed` and `Spliced` say what an edit should do.

**`StudioDraft.tla`** — the draft of the selected workflow. `yaml`, `canvas`, `parsed`,
`sourceKey` are `draftYaml`, `editableWorkflowDocument`, the status of `parseYamlQuery`
for that text (`pending`, `success` or `error`: `ParseFails`, which has `retry: false`)
and `draftSourceKey`; `files` is the query cache; `calls` are the edits between their
awaits (`parse`, then `serialize`), `saving` a save between its two. `Start` is
`resolveEditableWorkflowDocument`, `Serialized` is `applySerializedWorkflowDocument`,
`Hydrate` the effect that fills the draft, `ShowSaved` is `applySavedWorkflowSelection`.
A text is the document it says, or `Broken`; serializing normalizes names and defaults,
which leaves steps and references as they are. `StepEdit` holds the panel's lock
(`stepMutationPendingRef`), `DrawEdge` does not. `yamlOf`, `canvasOf`, `crossed`,
`twisted` and `disturbed` are history.

**`MCEventSourcing`, `MCWorkflowRun`, `MCRuntimeCallbacks`, `MCScriptBuild`,
`MCStudioDraft`** give the constants.

The operators commented "A plausible bug" in the modules are mutated forms of the
definition that follows them; no specification uses them. Each shows, when put in the
place of the original, that the property it is paired with in `PROJECT.json` fails.

## Runs

| Run | States | Checks |
|---|---|---|
| `es_crash` | 74 k | `Recoverable`, `ReplayHomomorphism`, `ImplementsJournal`: one activation at a time, two crashes at any await, redelivery |
| `es_peers` | 789 k | `CommittedOnce`, `AckedDurable`, `CompactionCovered`, `SnapshotMonotone`: two activations alive together, one absorbing command |
| `es_faults` | 100 k | `TypeOK`, `StreamIntegrity`, `EveryCommandSettles`: appends fail before or after the write, publications fail, one retry |
| `es_retry_divergence` | — | violation: a failed append leaves its batch in `_pending`, the retry commits it twice and applies it once |
| `es_flush_snapshot` | — | violation: the flush of `DeactivateAsync` commits events that the snapshot taken next claims but does not contain |
| `wf_run` | 829 k | `TypeOK`, `CallbacksAreHeld`, `TimeoutHitsItsAttempt`, `OneOutcome`, `TerminalIsFinal`, `NoWorkAfterStop`: one crash and one stop anywhere |
| `wf_replay` | 8.5 k | `AttemptBudget`, `FailsOnlyExhausted`, `RunEnds`: two failed publications, envelopes handled again |
| `wf_stale_completion` | — | violation: a completion of an earlier attempt ends the current one |
| `wf_executor_timeout` | — | violation: an executor's timeout bypasses `on_error` |
| `script_build` | 437 k | `TypeOK`, `BindsWhatIsShown`, `DraftSurvivesReload`, `NoBlindSave`, `LateAnswerIgnored`, `SaveButtonReturns`, `PollingEnds`: two scripts and two sources, answers late, lost or wrong, a second page, a switch, a new draft or a reload |
| `studio_draft` | 263 k | `TypeOK`, `SavedUnderItsOwnId`, `ReferencesResolve`, `EditsKeepFlow`, `StepEditsBuildOnEachOther`, `CanvasSettles`: two workflows, two edits and three acts of the user with their answers in any order |
| `cb_run` | 274 k | `TypeOK`, `GrantedIsDurable`, `EndedNeverFires`, `GrantedFires`: three schedulings of two ids, one fault anywhere: a failed await, a crash, or missed ticks |

Bounds. *Event sourcing*: three commands, one with a batch of two events, so that a
batch can be split by a wrong append; interval 2 makes some deactivations snapshot
and others not; retained 0 and 1 are the two sides of the compaction boundary; two
activations are the most that share a silo hand-over; two crashes allow a crash
during the recovery of the first. *Workflow*: two steps give a successor, a backward
branch, a fallback and a skip; two attempts reach a retry and its exhaustion;
`LoopBound` lets a backward branch be taken in the first ten envelopes only, after
which the second visit of `s1` is under way; one crash cuts any handler and its replay
is run to the end. *Callbacks*: three schedulings of two ids give a replacement
beside another id; one fault followed by calls about the other id shows the deferred
write of what it left in memory.

*Script editor*: two scripts make every switch possible and two sources every
edit; three revisions are the one on the server, a save and one more of the same or of
another page, which is what a conflict takes; two edits or saves let a save follow an
edit, or an edit a save under way; one move is a switch, a new draft or a reload at any
point between them; one poll delay has both of its ends, the re-armed and the last. No
source is invalid in the run: such a verdict only disables the save.
*Workflow editor*: a workflow of three steps, one of them conditional with a branch
backwards and two without a next, and a cycle of two, give every edit a step that
is named by a next, by a branch and only by the order of the list; two edits meet each
other, and three acts put an edit, a switch and a save in every order.

`CHECK_DEADLOCK FALSE` stands in the workflow and callback runs and in those of the
editors: a finished run with an empty mailbox, a scheduler with nothing left to
schedule, and a page whose user is gone rightly stop.

What the runs say beyond "no error":

- With a stop request, `HandleWorkflowCompleted` may overwrite `stopped`: it has no
  guard on the status. `TerminalIsFinal` is therefore about runs not asked to stop.
- A crash and a failed publication together can end a run twice. The start publishes the
  first request and dies before its last save; handled again, it fails to publish and is
  scheduled once more; the first request's answer moves the run on; the start comes back to
  an active run, and `HandleStartWorkflowAsync` publishes a failed completion of it.
  `OneOutcome` and `TerminalIsFinal` are about runs with one of the two, any number of
  times (`StartHandledOnce`).
- A crash between publishing a request and the save after it publishes it once more:
  `AttemptBudget` is about runs without crashes. An envelope handled twice, after a crash
  or a failed publication, schedules its callback id twice, and in a third attempt a stale
  timeout matches: `TimeoutHitsItsAttempt` is about runs without either.
- After a stop, a crash or a failed publication a callback may stay armed although no
  lease names it; it fires once and is ignored. `CallbacksAreHeld` excludes these.
- An immediate retry whose request cannot be published costs an attempt when the
  failure is handled again; `FailsOnlyExhausted` is checked with delayed retries. In a
  workflow with a loop a completion whose handler could not publish may come back when
  the run is at a later visit of its step, where it is taken for an answer (no execution
  id is compared); with a second failed publication the run then fails an attempt too
  early. `FailsOnlyExhausted` is checked with failures only where there is no loop.
- A crash between saving a backoff without its lease and scheduling it stops the
  run for good; `RunEnds` is checked with failed publications, not with crashes.
- With two activations `ReplayHomomorphism` fails after a conflict, and the drift
  probe may report a drift that is a peer's commit.
- Script editor. The token is taken when the POST is answered, so an edit made during
  the POST is not noticed: the applied answer refills the editor with the saved source
  and removes the draft (Save, Edit, SaveAccepted, Promote, Project, Observe, Applied);
  `StudioBuildPanels.test.tsx:871` edits after the POST. After a switch during a save
  the save button spins until the page is loaded again (`strayed` in
  `SaveButtonReturns`). A verdict belongs to the source that was sent, whatever the
  editor holds when it comes. The script selector asks no leave guard; a second
  navigation takes the place of the one the dialog is open for; a listing fetched again
  refills a dirty editor; creating a draft under the id of a stored one replaces it. The
  save of a draft names no base and overwrites what is active, so `NoBlindSave` is about
  saves that name one. After the refetch that follows the end of a save (`Conclude`) no
  token is asked for: the message of that save is set whatever is shown by then, and
  `LateAnswerIgnored` leaves this step out.
- Workflow editor. An edit answered after a switch puts the steps of one workflow into
  the draft of the other, and a save stores them there (`crossed` in
  `SavedUnderItsOwnId`). A save while the file is loading creates a second workflow. The
  answer of a save sets selection and text to what was saved, over what was done
  since. Edges are drawn outside the panel's lock and can lose an edit or be lost. A
  rename onto an id in use duplicates it, and removing a step that names itself, or
  both steps of a cycle, leaves a reference to a step that is gone (`twisted` in
  `ReferencesResolve`). A step that reaches the removed one only by the order of the
  list runs the following one afterwards (`FallsThroughTo` in `EditsKeepFlow`).
  `isDraftDirty` is computed but guards no switch. A text that does not parse, or whose
  parse request fails (`retry: false`, `index.tsx:3085`), leaves the old canvas, which
  after a save may be another workflow's.
- A one-shot reminder that comes due while no silo serves it is lost, and with it its
  callback. `GrantedFires` and the reminder in `GrantedIsDurable` leave out the callbacks
  to which this happened (`missed`), and only these.
- A generation starts at 1 again once an entry is gone; a kept lease then cancels a
  later scheduling of the same id. Callers make ids unique per inbound envelope.

## Fairness

- `EventSourcing!Fairness`: weak fairness of activation and replay, of an append and
  of the continuation after it (awaits complete); strong fairness of `Handle`, because a
  deactivation may intervene again and again, but Orleans collects by idle age and a
  queued envelope resets it. Nothing is assumed of deactivation, compaction or faults.
- `WorkflowRun!Fairness`: the actor takes its envelopes and finishes its handlers;
  executors answer (each has a timeout or a watchdog of its own); durable callbacks
  fire; a scheduled redelivery, itself a durable callback, comes. Envelope retries are
  assumed to be configured (`AEVATAR_RUNTIME_AUTO_RETRY_MAX_ATTEMPTS` is 0 by default;
  without retries a failed publication ends the progress of a run).
- `RuntimeCallbacks!FairSpec`: the grain finishes its calls; a registered reminder that
  was not missed ticks, a one-shot when it is due, a periodic one some period later. A
  missed one-shot reminder is `spent`, and no fairness brings it back.
- `ScriptBuild!FairSpec`, `StudioDraft!FairSpec`: weak fairness of `Answers` only. Each
  call of the page is answered or fails (the browser ends a request that gets no answer)
  and its timers fire. The parse request of a text may fail for good, and then nothing
  brings the canvas to the text: `CanvasSettles` leaves that case out, as it does a text
  that does not parse. Nothing makes the user act, and nothing is assumed of the order or
  the content of the answers.

## Proofs

The first part of `EventSourcingProofs.tla` proves, for any number of activations, any commands and
batches, any snapshot interval, retention and retry limit, with all faults on:

| Theorem | Property |
|---|---|
| `Invariance` | the inductive invariant `IInv` |
| `TypeCorrect` | `TypeOK` |
| `StreamIntegrityHolds` | `StreamIntegrity` |
| `CompactionCoveredHolds` | `CompactionCovered` |
| `SnapshotNeverRegresses` | `SnapshotMonotone` |

Only `ConstantsAssumption` is assumed. `StreamIntegrity` alone is not inductive: an
accepted append keeps it because `version = Len(committed)` and the batch is stored at
`version + 1 ..`, but compaction keeps `CompactionCovered` only because every target in
`compactTo` is at or below the snapshot's version, and the snapshot itself moves
forward only because an activation is never behind the snapshot it read: its
`ver`, and the `reply` of a replay in progress, are at least `cached.version`. These
three facts are the strengthening. The etag (`cached = snapshot` in `SaveSnapshot`) then
gives monotonicity. Each proof that a step preserves a part has one step per action.

Its second part proves what the component promises about the history, for any commands,
batches and settings that the assumptions of a theorem do not restrict:

| Theorem | Property | Assumes |
|---|---|---|
| `AckedIsDurable` | `AckedDurable` | — |
| `HistoryIsRecoverable` | `Recoverable` | `OneActivation`, `NoStoreFaults` |
| `OnlineStateIsReplay` | `ReplayHomomorphism` | `OneActivation`, `NoStoreFaults` |
| `CommandsCommitOnce` | `CommittedOnce` | `NoStoreFaults`, `DistinctEvents`, no failed publication, no crash |
| `JournalImplemented` | `ImplementsJournal` | `NoStoreFaults`, `DistinctEvents`, no failed publication |

The assumptions are those of the runs that check the properties, and each is needed:
`NoStoreFaults` says that an append throws nothing but a conflict, since after any other
error the batch stays in `_pending` and is committed with the next command
(`es_retry_divergence`); `OneActivation`, that activations do not overlap, since after a
conflict only the version is refreshed; a failed publication repeats a committed command;
`DistinctEvents`, that one event belongs to one command, is how occurrences are counted.
`DurableInv` ties what an activation appends to the command it handles. `OneBatchPending`
says that nothing else is pending, and with it `SingleInv` relates state, version and
snapshot to the history at every await. `OneHolder` follows an envelope through queue,
handler and retry; every step then has one of four effects on a command (`MovesOn`,
`LetsGo`, `Answers`, `BreaksOff`), which carry both `CommittedOnce` and the refinement.

`WorkflowRunProofs.tla`, `WorkflowRunCallbackProofs.tla` and `WorkflowRunFailureProofs.tla`
prove, for any workflow (steps, targets, policies), any answers of executors, and any number
of stops, timeouts and crashes:

| Theorem | Property | Assumes |
|---|---|---|
| `TypeCorrect` | `TypeOK` | — |
| `StoppedRunIsIdle` | `NoWorkAfterStop` | — |
| `ParentToldOnce` | at most one outcome is told while `failures = 0` | `StartedOnce` |
| `TerminalIsKept` | a terminal status stays while `failures = 0 /\ stops = 0` | `StartedOnce` |
| `OutcomeToldOnce` | `OneOutcome` | `StartedOnce`, `NothingFails` |
| `StatusIsFinal` | `TerminalIsFinal` | `StartedOnce`, `NothingFails` |
| `AttemptsBounded` | `AttemptBudget` | — |
| `CallbacksHeld` | `CallbacksAreHeld` | — |
| `TimeoutsHit` | `TimeoutHitsItsAttempt` | — |
| `AttemptsExhausted` | `FailsOnlyExhausted` while `crashes = 0` and (`failures = 0` or `Replayable`) | `StartedOnce` |
| `FailuresExhaust` | `FailsOnlyExhausted` | `StartedOnce`, `MaxCrashes = 0`, `NothingFails` or `Replayable` |

A handler is a sequence of effects of any of the forms its branches build, cut short
anywhere; types alone say which sequences may be left (`KernelTodo`, `AgentTodos`), and
taking one effect off leads from one form to another. `Stopped` reads off these forms that
a stopped run has its modules off before the next envelope, or is about to
(`StoppedRunIsIdle`). `TypeOK` bounds the saved retry count, which is what
`nextRetryCount >= maxAttempts` has to get right.

For the outcome, the envelope at work and those that wait are looked at as one `Line`,
which a crash does not change. `Coherent` relates the line to the parent, the status and
the kernel: at most one envelope opens the run, and only before any outcome; once there is
an outcome, on its way or recorded, the kernel is in a state nothing acts on (`Dead`); all
outcomes on their way agree with each other and with the status. `AtWork` says per handler
what may be left of it and what the line is by then, so that a handler that begins again
finds what it began with or the work done (`Cleanup` saves the cleared state before the
outcome is published: `ProceedOutcomeFirst` breaks just this). `Orderly` is what one
effect keeps, shown handler by handler (`ChatStep`, `StartStep`, `CourseStep`,
`OutcomeStep`, `StopStep`). `StartedOnce` (at most one chat request) is how a run is used:
a second one fails the active run by design. `NothingFails`, or `failures = 0` in the
unrestricted theorems, leaves out failed publications: with a crash they refute the
property, as described under Runs; without one no counterexample is known on small
instances, and it is not proved.

For the attempts, `Within` counts what a step has used of its budget: the requests made,
the one a saved but unpublished dispatch owes, and the one a waiting backoff owes are
together no more than the saved retry count and one, and only the current step has a
backoff. It holds of the kernel state of every save, so also of the one a handler begins
with, but not between a save and its request. `Stage` therefore says what may be left of
a handler (`Settling`: nothing that asks; `Asking`: a request the last save has paid for;
then another save), and `BudgetTodo` that a publication may fail at any request without
leaving the step over its budget, because the next envelope finds the dispatch still
pending. There is one lemma per handler (`HandlerBudget`), one for taking an effect off
(`PerformBudget`) and one for a failed publication (`FailureBudget`); `BudgetStep` joins
them. A crash between the request and its save would make the same request again, which
is why the property is about runs without.

For the callbacks, a kernel state between two envelopes is `Settled`: no dispatch is
pending, only the current step of an active run has a timeout or a backoff (`Tidy`, one of
both and with its lease), whatever is scheduled is that (`Owns`), and what carries the id of
the timeout belongs to the attempt under way (`Hits`). A handler leaves this state between
its saves, and a lease is saved before its generation is known, so the invariant does not
speak of the state a handler has reached but of the one it is going to save last:
`Promised` says that nothing of consequence is left (`Resting`), or a last save of a state
in order (`Landing`), or before it the scheduling of one new callback that this state will
own (`Scheduling`), and that every callback it will not own is among the leases still to be
cancelled (`Held`). There is one lemma per handler (`StartPromise`, `CompletedPromise`,
`TimeoutPromise`, `BackoffPromise`, `AgentPromise`) and one for taking an effect off
(`PromiseTaken`); `GrantedTidy` is the save that completes a lease, `ArmPromise` the
scheduling. All of this rests on `Ident`: callback ids are made from the envelope at work,
no two envelopes have one id, so nothing is scheduled twice under one id (`gen = 1`) and a
fired callback is never also scheduled. A stop clears the kernel state and forgets its
leases, so what is `Watched` is empty from the first stop on; `Hits` holds in a stopped run
too, and with `Timely` (a timeout's handler publishes before it saves) it is
`TimeoutHitsItsAttempt`. The properties themselves are about runs without failed
publications and crashes, where one envelope may be handled twice.

For the failure over an error, the budget is read from the other side: `Spent` says that
all retries counted for the current step were requested but for one, and that one is
`Outstanding` (a pending dispatch, or a backoff that waits). The kernel decides on the
count, so an error that it takes while the dispatch is pending would end the run an attempt
too early: it first resumes only for an envelope of another step. Hence `Spent` also says
where the requests and answers on their way (`Flying`) can find the run: past their step, or
at it with nothing pending but the redispatch of a backoff, on which an error changes
nothing (`Passed`). A handler may leave `Spent` between a request and the save after it;
`Level`, `Leveling` and `Demanding` say what is left of it and that it comes back
(`SpentTodo`), with one lemma per handler (`HandlerSpends`), one for taking an effect off
(`PerformSpends`) and one for a failed publication (`FailureSpends`). Four more parts make
`FailureInv` inductive:

- `BranchInv`: an answer of success selects one of its step's targets.
- `OpenInv`: while the envelope that opens the run waits (`Expecting`), the kernel is idle or
  at its first step and no answer is on its way, so that a start handled late, after a
  timeout of the first step resumed its dispatch, dispatches nothing a second time.
- `QuitInv`: once the parent was told of an error the kernel is idle for good, and what is
  left of any handler saves and requests nothing; `tries` stays what it was.
- `ToldInv`: each error told is of a step without `on_error` with at least `MaxAttempts`
  requests (`Honest`); `AttemptsBounded` gives the equality.

`Replayable` is what publications that fail need. It says that every retry has a backoff and
that no branch and no fallback leads back, and both halves are needed, as described under
Runs (without the first `TryRetryAsync` saves the count with the dispatch that may fail;
without the second a replayed completion is taken for one of a later visit). `wf_replay`
satisfies it. Where nothing fails nothing is assumed of the workflow: `CallbackInv` says
that no dispatch is pending between two envelopes. A crash may repeat a request that was
made, which is why the theorems are about runs without.

`RuntimeCallbacksProofs.tla` proves, for any set of callback ids, any number of
schedulings, ticks, failed awaits and crashes:

| Theorem | Property |
|---|---|
| `CallbacksInvariance` | the inductive invariant `IInv` |
| `CallbacksTypeCorrect` | `TypeOK` |
| `GrantedIsDurableHolds` | `GrantedIsDurable` |
| `EndedNeverFiresHolds` | `EndedNeverFires` |

It assumes `BoundsAssumption` and `NoneIsNoId` (the mark of an empty call is no
callback id). A scheduling has ended when its removal is written, so `EndedNeverFires`
covers the call that dies before it unregisters the reminder, whose tick finds no entry.
It needs to know where an entry can come back from: a crash
or a reactivation reloads `stored`, a failed write leaves a change in `memory` that a
later call persists. `EndedIsGone` says that an ended scheduling is in neither, and one
about to end no longer in `memory`; it is inductive with `CallShape`, which ties each
await of a call to what the call has done to the memory (and says that the state has
just been written when the reminder is about to be touched), `Distinct` (no two ids share
a scheduling) and `Counted` (numbers are those of schedulings that took place).
`UntouchedIsDurable` strengthens `GrantedIsDurable` by the kind of the reminder, which a
tick of a periodic callback relies on.

`WorkflowDocumentProofs.tla` proves, for every document (any finite set of positions,
any ids, types and targets) and with no assumption:

| Theorem | What it says |
|---|---|
| `FreshIdIsFresh` | among one more candidates than there are steps one id is free |
| `ApplyKeepsSound`, `InsertIs`, `RemoveAllKeepsSound` | an edit keeps ids unique and references resolved, unless it asks for the contrary |
| `RemovalBypasses` | after a removal the engine runs the removed step's next step where it ran that step, and everything else as before |
| `InsertionSplices` | an inserted step runs where the step before it led, and everything else as before |

Removal leaves positions alone and moves targets (`IsWithout`), which commutes with
`GetNextStep`; insertion moves positions in order (`Shifted`, `HasBehind`) and leaves
targets alone. `removeSteps` is a recursive function: that it exists, and what holds of
its value, is shown by the least position at which it would fail.

`StudioDraftProofs.tla` proves, for any workflows, files and typed texts and any number
of edits, saves and switches:

| Theorem | Property |
|---|---|
| `SavedUnderItsOwnIdHolds` | `SavedUnderItsOwnId` |
| `StepEditsBuildOnEachOtherHolds` | `StepEditsBuildOnEachOther` |
| `ReferencesResolveHolds` | `ReferencesResolve` |
| `EditsKeepFlowHolds` | `EditsKeepFlow` |
| `TypeOKHolds` | `TypeOK` |

It assumes `ConstantsAssumption`: files and typed texts are documents or `Broken`.
`OwnInv` adds to the first that the draft is the selected workflow's once its file is
there, and that a save of a workflow names one whose file is there; the second needs
that one panel edit is under way at a time (`BaseInv`). For the last two, `DocsInv`
says of everything an answer can bring back (files, the texts and bases of edits under
way, the argument of a save) that it is a document, and of all but the files that its
references resolve while `twisted` is false; the step of an answered edit is
`ResultIs`, over the theorems about documents. `TypeOKHolds` adds the types of the other
fields (`FieldsInv`) and assumes `MarksAreNoDocuments`: the marks of a text that does not
parse and of no text are arbitrary values, and the theorem needs them to be no documents.

`ScriptBuildProofs.tla` proves, for any scripts and sources, any number of edits, saves,
other pages and reloads, and answers in any order:

| Theorem | Property |
|---|---|
| `TypeOKHolds` | `TypeOK` |
| `BindsWhatIsShownHolds` | `BindsWhatIsShown` |
| `DraftSurvivesReloadHolds` | `DraftSurvivesReload` |
| `NoBlindSaveHolds` | `NoBlindSave` |
| `LateAnswerIgnoredHolds` | `LateAnswerIgnored` |

It assumes `ConstantsAssumption`. `NoBlindSave` speaks of the accepted saves and is
decided long before: when the save is sent, its base is the revision shown and its
source the one the editor was filled with. So `EditorInv` says that the editor was
filled from what is shown (`RenderKeeps`: a render that shows something else fills it
again, and any other leaves what is shown alone), `GoodFlight` carries that to the
answer, and `ServerInv` that every revision shown is one of `heads` (`Promoted`), whose source
is that of its save, and, as the accepted saves only grow (`Grown`), stays the revision
it was: a status is `applied` only of the revision the read model shows, and the read
model shows only what the actor made active (`BindsWhatIsShown`). `TokenInv` says that a call that
was left behind holds an earlier token than the one of now: it is what makes
`LateAnswerIgnored` true, and needs nothing of the rest.

Only model-checked: all liveness (`EveryCommandSettles`, `RunEnds`, `GrantedFires`,
`SaveButtonReturns`, `PollingEnds`, `CanvasSettles`: out of the prover's reach, as is
`ENABLED`). Every invariant and action property of the passing runs is stated by a theorem.

Neither proved nor checked by a run: `OneOutcome` and `TerminalIsFinal` of `WorkflowRun`
where publications fail (`MaxFailures > 0`). Their theorems assume `NothingFails`, and the
run that checks them has `MaxFailures = 0`: a failed publication changes the line of
envelopes when its envelope is handled again, and `Coherent` would have to speak of the
envelopes that wait for their redelivery. The run with failures (`replay`) checks
`AttemptBudget`, `FailsOnlyExhausted` and `RunEnds`.

## What is not modelled

- Stream resets (`ResetStreamAsync`), events raised while an append is in flight, the
  file layout of the file stores.
- In the run: sub-workflows, dynamic workflows and definition binding, the role-agent
  tree, variables and expressions, a second chat request (it fails the active run by
  design of `HandleStartWorkflowAsync`), completions of executors' internal sub-steps.
- Failures of publications other than step requests and timeouts: such a handler is
  replayed as after a crash, which the crash runs contain.
- The timer loops of the in-memory callback scheduler (its calls appear as the atomic
  scheduler of `WorkflowRun`), and a publication that fails inside a reminder tick
  beyond the single fault of `cb_run`.
- The envelope deduplication window: models let every redelivered envelope in.
- In the script editor: unmounting the panel, an empty selection, draft runs,
  promotion proposals, rollback, the files within a package. The POST is one step that
  is accepted, or fails with or without having been accepted.
- In the workflow editor: roles, parameters, layout and names (no edit decides by
  them), the description (its edit also goes over typed text), templates, deleting and
  renaming workflows, draft runs. An apply changes one field of a step.
  Unmounting the panel, which gives up its lock while an edit is under way, and a new list
  of workflow names, which has the text parsed again.
- The other components of the table above, for the reasons given in `PROJECT.json`.

The console and the CLI front end are 138 k lines of TypeScript, most of it markup, API
clients, decoders and styling that have no state to check; the models cover the two
editors in which state, answers and edits meet. To model a third of those lines would
mean to model presentation; the concurrency and the failure handling of the system are in
the .NET code, where the other modules are.

Hazards known and not covered by a property yet, beyond those in `PROJECT.json`:

- Event sourcing: events and version key are read in two calls, a peer's commit between
  them looks like drift (`EventSourcingBehavior.cs:235`).
- Workflow run: a crash between saving a backoff without its lease and scheduling it
  (`WorkflowExecutionKernel.cs:616`); a second start is answered with a failed completion
  of the same run id (`WorkflowExecutionKernel.cs:87`).
- Durable callbacks: generations start at 1 again; an envelope is published before its
  entry is removed, and a publication that throws uses up the tick.
- Local runtime: an actor is deactivated while its mailbox still holds envelopes
  (`LocalActor.cs:107`).
- Projection scopes: the relay is removed at deactivation and set up again at the next
  activation, and what is published between is not observed
  (`ProjectionScopeGAgentBase.cs:37`); a crash or a conflict between a dispatch and its
  watermark repeats the dispatch (`:188`); a release persists twice before it removes
  the relay (`:81`); failures are replayed beside newer observations
  (`ProjectionScopeFailureTracker.cs`).
- Service rollout: a crash between the dispatches of a stage and the event that records
  its advance (`ServiceRolloutManagerGAgent.cs:186`).
