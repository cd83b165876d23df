----------------------------- MODULE ScriptBuild -----------------------------
(***************************************************************************)
(* Build > Script of the console's Studio page: an editor over the         *)
(* revisions of a scope's scripts, whose saves are accepted at once and    *)
(* applied later, and the parent page that offers the applied revision to  *)
(* Bind.                                                                   *)
(*                                                                         *)
(* Source: StudioScriptBuildPanel in StudioBuildPanels.tsx, its parent     *)
(* StudioPage in pages/studio/index.tsx, and behind the calls              *)
(* ScriptCatalogGAgent and ScopeScriptSaveObservationService.  JavaScript  *)
(* runs to the next await, so an action is the code between two awaits,    *)
(* with the render and the effects that follow it (Render).                *)
(*                                                                         *)
(* A source is a value of Texts; a revision is its position in accepted,   *)
(* 0 where the code has an empty revision id.                              *)
(***************************************************************************)
EXTENDS Naturals, Sequences, FiniteSets

CONSTANTS
    Scripts,    \* script ids
    Texts,      \* sources the editor can hold
    Starter,    \* the source a new draft starts with
    Bad,        \* sources the validation finds errors in
    Known,      \* the script that has revision 1 when the page opens
    Saved,      \* the source of that revision
    Kept,       \* what a draft of an earlier session can hold
    None,       \* no script; the empty source
    PollLimit,  \* SCRIPT_SAVE_OBSERVATION_POLL_DELAYS_MS.length
    MaxRevs, MaxActs, MaxMoves   \* bounds on revisions, on edits and saves, on moves

ASSUME ConstantsAssumption ==
    /\ Starter \in Texts /\ Bad \subseteq Texts /\ Known \in Scripts
    /\ Saved \in Texts /\ Kept \subseteq Texts \cup {None}
    /\ None \notin Scripts \cup Texts
    /\ {PollLimit, MaxRevs, MaxActs, MaxMoves} \subseteq Nat

VARIABLES
    \* the parent page and the query cache
    selected,   \* selectedScriptId
    pending,    \* pendingScriptDraft; its text is None until it is edited
    stored,     \* the drafts in the browser's local storage
    view,       \* script -> revision in scopeScriptsQuery.data
    \* the panel
    pkg,        \* scriptPackage: the source in the editor
    verdict,    \* validationResult and validationError
    checking,   \* the source under validation, and whether it was dirty
    savePending,
    obs,        \* saveObservationStatus
    saveStatus,
    observed,   \* observedAppliedScript
    token,      \* saveObservationTokenRef
    flights,    \* the asynchronous calls of handleSave and pollSaveObservation
    leaving,    \* the navigation the leave dialog is holding back
    \* the server
    accepted,   \* the saves accepted so far, by revision
    decided,    \* how many of them the catalog actor has handled
    head,       \* script -> active revision of the catalog actor
    catalog,    \* the same in the read model
    \* history
    heads,      \* the revisions the catalog actor made active, with their sources
    loaded,     \* the source the editor was last filled with
    strayed,    \* a save ended while another script was shown
    acts, moves

parent == <<selected, pending, stored, view>>
panel == <<pkg, verdict, obs, saveStatus, loaded>>
server == <<accepted, decided, head, catalog, heads>>
vars == <<parent, panel, checking, savePending, observed, token, flights,
          leaving, server, strayed, acts, moves>>

-----------------------------------------------------------------------------
(* What the page derives from its state.                                   *)

NoDraft == [script |-> None, text |-> None]
NotObserved == [script |-> None, rev |-> 0, text |-> None]
NotChecking == [text |-> None, dirty |-> FALSE]
Listed(s) == view[s] # 0
TextOf(r) == accepted[r].text

Shown(k, s, r, t) == [kind |-> k, script |-> s, rev |-> r, text |-> t]
CatalogScript(s) == Shown("catalog", s, view[s], TextOf(view[s]))

\* activeScript.  The first listed script stands in for a selection that is
\* found nowhere.
Active ==
    IF Listed(selected) THEN CatalogScript(selected)
    ELSE IF observed.script = selected
    THEN Shown("observed", selected, observed.rev, observed.text)
    ELSE IF pending.script = selected THEN Shown("draft", selected, 0, pending.text)
    ELSE IF \E s \in Scripts : Listed(s)
    THEN CatalogScript(CHOOSE s \in Scripts : Listed(s))
    ELSE Shown("none", None, 0, None)

\* The source the editor is filled with for a script.
SourceOf(active) ==
    IF active.kind = "draft" /\ active.text = None THEN Starter ELSE active.text
Dirty == pkg # Active.text

EffectiveSaveStatus ==
    IF Dirty THEN IF saveStatus = "failed" THEN "failed" ELSE "idle"
    ELSE IF saveStatus \in {"accepted", "failed"} THEN saveStatus
    ELSE IF Active.rev # 0 THEN "applied" ELSE saveStatus

\* buildPendingBindCandidate: the page offers the active script to Bind.
Bindable ==
    /\ Active.kind # "none" /\ Active.script = selected
    /\ ~Dirty /\ EffectiveSaveStatus = "applied"

\* A plausible bug: only another script refills the editor.
IdentityByScript(active) == <<active.script>>

\* The effects that follow a render: another active script, or another source
\* of it, replaces what is in the editor.  p, v, o and s are the values the
\* action itself gave to pkg, verdict, obs and saveStatus.
Identity(active) ==
    <<active.script, active.text, active.kind = "draft", active.kind = "observed">>
Render(p, v, o, s) ==
    IF Identity(Active') = Identity(Active) \/ Active'.kind = "none"
    THEN pkg' = p /\ verdict' = v /\ obs' = o /\ saveStatus' = s /\ loaded' = loaded
    ELSE /\ pkg' = SourceOf(Active') /\ loaded' = SourceOf(Active') /\ verdict' = "unknown"
         /\ obs' = IF Active'.kind = "observed" THEN "applied" ELSE "idle"
         /\ saveStatus' = obs'

\* cancelSaveObservationPoll: the timer is cleared and the token moves on, so
\* that answers to come are ignored.  It also runs when another script is shown.
\* stale is history: the source or the script was changed since the save was
\* accepted.
Flight(f, phase, stale) ==
    [script |-> f.script, text |-> f.text, base |-> f.base, seen |-> f.seen,
     drafted |-> f.drafted, rev |-> f.rev, token |-> f.token, attempt |-> f.attempt,
     phase |-> phase, stale |-> stale]
WithoutTimers(fs, touched) ==
    {Flight(f, f.phase, f.stale \/ (touched /\ f.phase # "post")) :
        f \in {g \in fs : g.phase # "timer"}}
\* A plausible bug: the timer is cleared, and an answer on its way is not.
CancelTimerOnly(touched) == token' = token /\ flights' = WithoutTimers(flights, touched)

Cancel(touched) ==
    token' = token + 1 /\ flights' = WithoutTimers(flights, touched)
CancelIfMoved(fs) ==
    IF Active'.script = Active.script
    THEN token' = token /\ flights' = fs
    ELSE token' = token + 1 /\ flights' = WithoutTimers(fs, TRUE)

Replace(f, g) == (flights \ {f}) \cup {g}

-----------------------------------------------------------------------------
(* The user.                                                               *)

Acted == acts < MaxActs /\ acts' = acts + 1
Moved == moves < MaxMoves /\ moves' = moves + 1

\* A plausible bug: an edited draft is kept in the memory of the page only.
EditUnstored(text) ==
    /\ Acted
    /\ Active.kind # "none" /\ text # pkg
    /\ pending' = IF Active.kind = "draft" THEN [script |-> pending.script, text |-> text]
                  ELSE pending
    /\ UNCHANGED <<selected, stored, view, checking, savePending, observed, leaving, server,
                   strayed, moves>>
    /\ Cancel(TRUE)
    /\ Render(text, "unknown", "idle", "idle")

\* commitScriptPackage, for every way to change the package.
Edit(text) ==
    /\ Acted
    /\ Active.kind # "none" /\ text # pkg
    /\ IF Active.kind = "draft"
       THEN /\ pending' = [script |-> pending.script, text |-> text]
            /\ stored' = [stored EXCEPT ![pending.script] = pending']
       ELSE UNCHANGED <<pending, stored>>
    /\ UNCHANGED <<selected, view, checking, savePending, observed, leaving, server, strayed, moves>>
    /\ Cancel(TRUE)
    /\ Render(text, "unknown", "idle", "idle")

Validate ==
    /\ Active.kind # "none" /\ checking = NotChecking
    /\ checking' = [text |-> pkg, dirty |-> Dirty]
    /\ verdict' = IF verdict = "error" THEN "unknown" ELSE verdict
    /\ UNCHANGED <<parent, pkg, obs, saveStatus, loaded, savePending, observed, token,
                   flights, leaving, server, strayed, acts, moves>>

\* saveDisabled, and a button that takes no click while it shows savePending.
CanSave ==
    /\ Active.kind # "none" /\ checking = NotChecking /\ ~savePending
    /\ obs \notin {"accepted", "pending"} /\ verdict \notin {"invalid", "error"}
    /\ Dirty => verdict = "valid"

Save ==
    /\ Acted
    /\ CanSave
    /\ savePending' = TRUE
    /\ token' = token + 1
    /\ flights' = WithoutTimers(flights, FALSE) \cup
         {[script |-> Active.script, text |-> pkg, base |-> Active.rev, seen |-> loaded,
           drafted |-> pending.script = Active.script,
           rev |-> 0, token |-> 0, attempt |-> 0, phase |-> "post", stale |-> FALSE]}
    /\ UNCHANGED <<parent, panel, checking, observed, leaving, server, strayed, moves>>

LoadDraft(s) == pending' = stored[s]

Settled ==
    /\ CancelIfMoved(flights)
    /\ Render(pkg, verdict, obs, saveStatus)

\* The script selector of the panel, which asks no leave guard.
Options == {s \in Scripts : \/ Listed(s) \/ pending.script = s
                            \/ pending = NoDraft /\ observed.script = s}
PickScript(s) ==
    /\ Moved
    /\ s \in Options /\ s # Active.script
    /\ selected' = s
    /\ LoadDraft(s)
    /\ UNCHANGED <<stored, view, checking, savePending, observed, leaving, server, strayed, acts>>
    /\ Settled

\* What the leave guard protects: opening a member of the rail, and creating a
\* script of an id the catalog does not list.
Open(s) ==
    /\ selected' = s
    /\ UNCHANGED <<pending, stored>>
Create(s) ==
    /\ selected' = s
    /\ pending' = [script |-> s, text |-> None]
    /\ stored' = [stored EXCEPT ![s] = pending']
Go(to, s) ==
    /\ IF to = "create" THEN Create(s) ELSE Open(s)
    /\ UNCHANGED <<view, checking, savePending, observed, server, strayed, acts>>
    /\ Settled

\* A second request takes the place of the one the dialog was opened for.
Navigate(to, s) ==
    /\ Moved
    /\ IF to = "create" THEN ~Listed(s) ELSE Listed(s) /\ s # selected
    /\ IF Dirty
       THEN /\ leaving' = <<to, s>>
            /\ UNCHANGED <<parent, panel, checking, savePending, observed, token, flights,
                           server, strayed, acts>>
       ELSE leaving' = leaving /\ Go(to, s)

Stay ==
    /\ leaving # <<>> /\ leaving' = <<>>
    /\ UNCHANGED <<parent, panel, checking, savePending, observed, token, flights, server,
                   strayed, acts, moves>>
Leave ==
    /\ leaving # <<>> /\ leaving' = <<>>
    /\ Go(leaving[1], leaving[2])
    /\ UNCHANGED moves

\* The page is loaded again: only the route and the local storage survive.
Reload ==
    /\ Moved
    /\ UNCHANGED <<selected, stored, server, acts>>
    /\ LoadDraft(selected)
    /\ view' = catalog
    /\ observed' = NotObserved
    /\ checking' = NotChecking /\ savePending' = FALSE /\ flights' = {} /\ token' = 0
    /\ leaving' = <<>> /\ strayed' = FALSE
    /\ verdict' = "unknown" /\ obs' = "idle" /\ saveStatus' = "idle"
    /\ pkg' = SourceOf(Active') /\ loaded' = pkg'

-----------------------------------------------------------------------------
(* The answers.  An answer finds the state of its own time.                *)

\* handleValidate: the verdict is kept whatever the editor holds by now.
ValidateAnswer ==
    /\ checking # NotChecking /\ checking' = NotChecking
    /\ \/ /\ verdict' = IF checking.text \in Bad THEN "invalid" ELSE "valid"
          /\ saveStatus' = IF verdict' = "valid" /\ checking.dirty THEN "idle" ELSE saveStatus
       \/ verdict' = "error" /\ UNCHANGED saveStatus
    /\ UNCHANGED <<parent, pkg, obs, loaded, savePending, observed, token, flights, leaving,
                   server, strayed, acts, moves>>

\* The finally of handleSave, which waits for the save and for its first
\* observation: the button is released if the saved script is still shown.
Release(f) ==
    IF f.attempt # 0 THEN UNCHANGED <<savePending, strayed>>
    ELSE IF Active.script = f.script THEN savePending' = FALSE /\ UNCHANGED strayed
    ELSE strayed' = TRUE /\ UNCHANGED savePending

\* saveScript answers: the save is observed from now on, under the token of
\* now.  A save that fails may have been accepted all the same.
Accept(f) ==
    accepted' = Append(accepted, [script |-> f.script, text |-> f.text,
                                  base |-> f.base, seen |-> f.seen])
SaveAccepted(f) ==
    /\ f.phase = "post"
    /\ Accept(f)
    /\ saveStatus' = "accepted" /\ obs' = "accepted"
    /\ flights' = Replace(f,
         [script |-> f.script, text |-> f.text, base |-> f.base, seen |-> f.seen,
          drafted |-> f.drafted, rev |-> Len(accepted) + 1, token |-> token, attempt |-> 0,
          phase |-> "observe", stale |-> FALSE])
    /\ UNCHANGED <<parent, pkg, verdict, loaded, checking, savePending, observed, token,
                   leaving, decided, head, catalog, heads, strayed, acts, moves>>
\* A plausible bug: a failed save leaves the button spinning.
SaveFailsHolding(f) ==
    /\ f.phase = "post" /\ flights' = flights \ {f}
    /\ obs' = "failed" /\ saveStatus' = "failed"
    /\ UNCHANGED <<parent, pkg, verdict, loaded, checking, savePending, observed, token,
                   leaving, server, strayed, acts, moves>>

SaveFails(f) ==
    /\ f.phase = "post"
    /\ Accept(f) \/ UNCHANGED accepted
    /\ IF Active.script = f.script
       THEN obs' = "failed" /\ saveStatus' = "failed"
       ELSE UNCHANGED <<obs, saveStatus>>
    /\ Release(f)
    /\ flights' = flights \ {f}
    /\ UNCHANGED <<parent, pkg, verdict, loaded, checking, observed, token, leaving,
                   decided, head, catalog, heads, acts, moves>>

\* A plausible bug: any new revision of the script counts as the one that was saved.
StatusOfAnyRevision(f) ==
    IF catalog[f.script] \notin {0, f.base} THEN "applied" ELSE "pending"

\* ScopeScriptSaveObservationService looks at the read model; its answer may
\* come much later.
Status(f) ==
    IF catalog[f.script] = f.rev THEN "applied"
    ELSE IF 0 \notin {catalog[f.script], f.base} /\ catalog[f.script] # f.base
    THEN "rejected" ELSE "pending"
Observe(f) ==
    /\ f.phase = "observe"
    /\ \E answer \in {Status(f), "error"} : flights' = Replace(f, Flight(f, answer, f.stale))
    /\ UNCHANGED <<parent, panel, checking, savePending, observed, token, leaving, server,
                   strayed, acts, moves>>

\* pollSaveObservation after its await.
Current(f) == token = f.token /\ Active.script = f.script
Ignored(f) ==
    /\ f.phase \in {"applied", "rejected", "pending", "error"} /\ ~Current(f)
    /\ Release(f)
    /\ flights' = flights \ {f}
    /\ UNCHANGED <<parent, panel, checking, observed, token, leaving, server, acts, moves>>

\* markSaveObservationApplied, up to the refresh of the listing.
Applied(f) ==
    /\ f.phase = "applied" /\ Current(f)
    /\ observed' = [script |-> f.script, rev |-> f.rev, text |-> f.text]
    /\ IF f.drafted
       THEN pending' = NoDraft /\ stored' = [stored EXCEPT ![f.script] = NoDraft]
       ELSE UNCHANGED <<pending, stored>>
    /\ UNCHANGED <<selected, view, checking, savePending, leaving, server, strayed, acts, moves>>
    /\ CancelIfMoved(Replace(f, Flight(f, "refreshApplied", f.stale)))
    /\ Render(pkg, verdict, obs, saveStatus)
Rejected(f) ==
    /\ f.phase = "rejected" /\ Current(f)
    /\ flights' = Replace(f, Flight(f, "refreshRejected", f.stale))
    /\ UNCHANGED <<parent, panel, checking, savePending, observed, token, leaving, server,
                   strayed, acts, moves>>
\* A plausible bug: one delay too many is looked up.
NotYetOnceMore(f) ==
    /\ f.phase = "pending" /\ Current(f)
    /\ obs' = "pending"
    /\ flights' = IF f.attempt > PollLimit THEN flights \ {f}
                  ELSE Replace(f, Flight(f, "timer", f.stale))
    /\ Release(f)
    /\ UNCHANGED <<parent, pkg, verdict, saveStatus, loaded, checking, observed, token,
                   leaving, server, acts, moves>>

NotYet(f) ==
    /\ f.phase = "pending" /\ Current(f)
    /\ obs' = "pending"
    /\ flights' = IF f.attempt >= PollLimit THEN flights \ {f}
                  ELSE Replace(f, Flight(f, "timer", f.stale))
    /\ Release(f)
    /\ UNCHANGED <<parent, pkg, verdict, saveStatus, loaded, checking, observed, token,
                   leaving, server, acts, moves>>
ObservationFails(f) ==
    /\ f.phase = "error" /\ Current(f)
    /\ obs' = "failed" /\ saveStatus' = "failed"
    /\ Release(f)
    /\ flights' = flights \ {f}
    /\ UNCHANGED <<parent, pkg, verdict, loaded, checking, observed, token, leaving, server,
                   acts, moves>>

\* A plausible bug: the delay looked up is always the first one.
TimerOfFirstDelay(f) ==
    /\ f.phase = "timer"
    /\ flights' = Replace(f, Flight(f, "observe", f.stale))
    /\ UNCHANGED <<parent, panel, checking, savePending, observed, token, leaving, server,
                   strayed, acts, moves>>

Timer(f) ==
    /\ f.phase = "timer"
    /\ flights' = Replace(f,
         [script |-> f.script, text |-> f.text, base |-> f.base, seen |-> f.seen,
          drafted |-> f.drafted, rev |-> f.rev, token |-> f.token, attempt |-> f.attempt + 1,
          phase |-> "observe", stale |-> f.stale])
    /\ UNCHANGED <<parent, panel, checking, savePending, observed, token, leaving, server,
                   strayed, acts, moves>>

\* The listing is fetched again, for a save that was answered or because the
\* user or the query client asks for it.  Without a new listing (the fetch
\* failed, or its render comes later) the view stays.
After == [refreshApplied |-> "concludeApplied", refreshRejected |-> "concludeRejected"]
Refreshed(f) ==
    /\ f.phase \in DOMAIN After
    /\ view' \in {view, catalog}
    /\ UNCHANGED <<selected, pending, stored, checking, savePending, observed, leaving, server,
                   strayed, acts, moves>>
    /\ CancelIfMoved(Replace(f, Flight(f, After[f.phase], f.stale)))
    /\ Render(pkg, verdict, obs, saveStatus)
Refetch ==
    /\ view # catalog /\ view' = catalog
    /\ UNCHANGED <<selected, pending, stored, checking, savePending, observed, leaving, server,
                   strayed, acts, moves>>
    /\ Settled

\* The last lines of the two outcomes, which look at nothing again.
Conclude(f) ==
    /\ \/ f.phase = "concludeApplied" /\ obs' = "applied" /\ saveStatus' = "applied"
       \/ f.phase = "concludeRejected" /\ obs' = "rejected" /\ saveStatus' = "failed"
    /\ Release(f)
    /\ flights' = flights \ {f}
    /\ UNCHANGED <<parent, pkg, verdict, loaded, checking, observed, token, leaving, server,
                   acts, moves>>

-----------------------------------------------------------------------------
(* The server.                                                             *)

\* HandlePromoteScriptRevisionRequested, in the order of acceptance: a save with
\* another base than the head is rejected, and the head stays.
Promote ==
    /\ decided < Len(accepted) /\ decided' = decided + 1
    /\ LET r == decided + 1
           save == accepted[r]
       IN  IF save.base = 0 \/ head[save.script] \in {0, save.base}
           THEN /\ head' = [head EXCEPT ![save.script] = r]
                /\ heads' = heads \cup {[script |-> save.script, rev |-> r, text |-> save.text]}
           ELSE UNCHANGED <<head, heads>>
    /\ UNCHANGED <<parent, panel, checking, savePending, observed, token, flights, leaving,
                   accepted, catalog, strayed, acts, moves>>

\* The read model catches up.
Project(s) ==
    /\ catalog[s] # head[s] /\ catalog' = [catalog EXCEPT ![s] = head[s]]
    /\ UNCHANGED <<parent, panel, checking, savePending, observed, token, flights, leaving,
                   accepted, decided, head, heads, strayed, acts, moves>>

\* Another page saves a revision of a script the catalog lists.
PeerSave(s, text) ==
    /\ catalog[s] # 0 /\ text # TextOf(catalog[s])
    /\ accepted' = Append(accepted, [script |-> s, text |-> text, base |-> catalog[s],
                                     seen |-> TextOf(catalog[s])])
    /\ UNCHANGED <<parent, panel, checking, savePending, observed, token, flights, leaving,
                   decided, head, catalog, heads, strayed, acts, moves>>

-----------------------------------------------------------------------------

\* The page opens with a draft of an earlier session, or without one.
Init ==
    /\ selected \in Scripts
    /\ \E draft \in [script : Scripts \ {Known}, text : Kept] \cup {NoDraft} :
         stored = [s \in Scripts |-> IF s = draft.script THEN draft ELSE NoDraft]
    /\ pending = stored[selected]
    /\ accepted = <<[script |-> Known, text |-> Saved, base |-> 0, seen |-> None]>>
    /\ decided = 1
    /\ head = [s \in Scripts |-> IF s = Known THEN 1 ELSE 0]
    /\ catalog = head /\ view = head
    /\ heads = {[script |-> Known, rev |-> 1, text |-> Saved]}
    /\ observed = NotObserved
    /\ pkg = SourceOf(Active) /\ loaded = pkg
    /\ verdict = "unknown" /\ checking = NotChecking
    /\ savePending = FALSE /\ obs = "idle" /\ saveStatus = "idle"
    /\ token = 0 /\ flights = {} /\ leaving = <<>>
    /\ strayed = FALSE /\ acts = 0 /\ moves = 0

\* A bound: no revision beyond MaxRevs is asked for.
RevsLeft == Len(accepted) + Cardinality({f \in flights : f.phase = "post"}) < MaxRevs

User ==
    \/ \E text \in Texts : Edit(text)
    \/ Validate
    \/ RevsLeft /\ Save
    \/ \E s \in Scripts : PickScript(s)
    \/ \E to \in {"open", "create"}, s \in Scripts : Navigate(to, s)
    \/ Stay \/ Leave
    \/ Reload

Answer(f) ==
    \/ SaveAccepted(f) \/ SaveFails(f)
    \/ Observe(f) \/ Ignored(f)
    \/ Applied(f) \/ Rejected(f) \/ NotYet(f) \/ ObservationFails(f)
    \/ Timer(f) \/ Refreshed(f) \/ Conclude(f)
Answers == \E f \in flights : Answer(f)

Peer == RevsLeft /\ \E s \in Scripts, text \in Texts : PeerSave(s, text)

Next ==
    \/ User \/ ValidateAnswer \/ Answers \/ Refetch
    \/ Promote \/ (\E s \in Scripts : Project(s)) \/ Peer

Spec == Init /\ [][Next]_vars
\* Calls are answered and timers fire; nothing makes the user act.
FairSpec == Spec /\ WF_vars(Answers)

-----------------------------------------------------------------------------

Drafts == [script : Scripts, text : Texts \cup {None}] \cup {NoDraft}
Saves == [script : Scripts, text : Texts, base : Nat, seen : Texts \cup {None}]
Phases == {"post", "observe", "timer", "applied", "rejected", "pending", "error",
           "refreshApplied", "refreshRejected", "concludeApplied", "concludeRejected"}
Flights == [script : Scripts, text : Texts, base : Nat, seen : Texts, drafted : BOOLEAN,
            rev : Nat, token : Nat, attempt : 0..PollLimit, phase : Phases, stale : BOOLEAN]

\* The variables are of their types.
TypeOK ==
    /\ selected \in Scripts /\ pending \in Drafts /\ stored \in [Scripts -> Drafts]
    /\ accepted \in Seq(Saves) /\ decided \in 0..Len(accepted)
    /\ {head, catalog, view} \subseteq [Scripts -> 0..Len(accepted)]
    /\ heads \subseteq [script : Scripts, rev : 1..decided, text : Texts]
    /\ observed \in [script : Scripts, rev : 1..Len(accepted), text : Texts] \cup {NotObserved}
    /\ pkg \in Texts \cup {None} /\ loaded \in Texts \cup {None}
    /\ verdict \in {"unknown", "valid", "invalid", "error"}
    /\ checking \in [text : Texts, dirty : BOOLEAN] \cup {NotChecking}
    /\ obs \in {"idle", "accepted", "applied", "pending", "rejected", "failed"}
    /\ saveStatus \in {"idle", "accepted", "applied", "failed"}
    /\ savePending \in BOOLEAN /\ strayed \in BOOLEAN
    /\ token \in Nat /\ flights \subseteq Flights
    /\ leaving \in ({"open", "create"} \X Scripts) \cup {<<>>}
    /\ acts \in 0..MaxActs /\ moves \in 0..MaxMoves

\* What Bind is offered under a revision id is what the editor shows, and the
\* catalog actor made that revision of that script, with that source, active
\* (buildPendingBindCandidate, scriptReadyToBind): not a save that was accepted and
\* is still to be decided, not one the actor rejected, not the revision before the
\* edits, not another script's.
BindsWhatIsShown ==
    Bindable /\ Active.rev # 0 =>
        [script |-> selected, rev |-> Active.rev, text |-> pkg] \in heads

\* A draft is in the local storage as the editor shows it, so that a reload or
\* a crash of the page brings it back (commitScriptPackage, onSelectScriptId,
\* handleCreateMember, onScriptDraftSaved).
DraftSurvivesReload ==
    Active.kind = "draft" =>
        stored[selected] = pending /\ pkg = SourceOf(Active)

\* A save that names a base revision was edited from that revision's source,
\* however the listing, the selection and the draft changed on the way
\* (handleSave and the effect that refills the editor): together with the check
\* of the catalog actor, no such save overwrites a revision unseen.  The save of
\* a draft names no base, and overwrites whatever is active.
NoBlindSave ==
    \A r \in 1..Len(accepted) : accepted[r].base # 0 =>
        /\ accepted[r].base < r
        /\ accepted[accepted[r].base].script = accepted[r].script
        /\ accepted[r].seen = TextOf(accepted[r].base)

\* An observation that ends after the source was edited or another script was
\* shown changes nothing the user sees (saveObservationTokenRef).  The last lines
\* of an outcome, after the listing was fetched again, look at no token; Conclude
\* is left out.
LateAnswerIgnored ==
    [][\A f \in flights :
         f.stale /\ (Ignored(f) \/ Applied(f) \/ Rejected(f) \/ NotYet(f) \/ ObservationFails(f))
            => UNCHANGED <<parent, panel, observed>>]_vars

\* The save button is released, unless the save ended while another script was
\* shown (the finally of handleSave skips setSavePending then).
SaveButtonReturns == savePending ~> (~savePending \/ strayed)

\* Polling ends, whatever the server answers (pollSaveObservation).
PollingEnds == (flights # {}) ~> (flights = {})
=============================================================================
