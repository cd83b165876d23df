----------------------------- MODULE StudioDraft -----------------------------
(***************************************************************************)
(* Build > Workflow of the console's Studio page: one draft, held as a     *)
(* YAML text and as the document on the canvas, which a server converts    *)
(* into one another; the edits of the canvas, the YAML editor, the save    *)
(* and the switch to another workflow meet in it.                          *)
(*                                                                         *)
(* Source: StudioPage in pages/studio/index.tsx and StudioWorkflowBuildPanel *)
(* in StudioBuildPanels.tsx; WorkflowEditorService behind parse-yaml and   *)
(* serialize-yaml.  JavaScript runs to the next await, so an action is the *)
(* code between two awaits with the effects of the render that follows.    *)
(*                                                                         *)
(* A text is the document it says, or Broken.  Serializing trims names and *)
(* spells out defaults, which leaves the steps and their references alone, *)
(* so a document comes back from its text as it went in.                   *)
(***************************************************************************)
EXTENDS WorkflowDocument

CONSTANTS
    Workflows,   \* the workflows of the workspace
    New,         \* the id the server gives to a workflow it is asked to create
    FileOf,      \* workflow -> the text of its file when the page opens
    Typed,       \* texts that are typed into the YAML editor
    Renamed,     \* an id a step can be given by hand
    Broken,      \* a text that does not parse
    Blank,       \* no text, no document, no file in the cache, no workflow
    MaxEdits, MaxActs   \* bounds on edits, and on edits, saves and switches together

ASSUME ConstantsAssumption ==
    /\ New \notin Workflows /\ Blank \notin Workflows \cup {New}
    /\ Renamed \in Nat \ {0} /\ Broken # Blank
    /\ \A w \in Workflows : FileOf[w] # Blank /\ (FileOf[w] = Broken \/ IsDocument(FileOf[w]))
    /\ \A text \in Typed : text # Blank /\ (text = Broken \/ IsDocument(text))
    /\ {MaxEdits, MaxActs} \subseteq Nat

VARIABLES
    selected,    \* selectedWorkflowId
    files,       \* workflow -> the text selectedWorkflowQuery has of it
    \* the draft
    sourceKey,   \* draftSourceKey: the workflow the draft was filled from
    yaml,        \* draftYaml
    canvas,      \* editableWorkflowDocument
    parsed,      \* parseYamlQuery's status for draftYaml: "pending", "success", "error"
    \* what is under way
    calls,       \* the edits of the document
    saving,      \* savePending and the arguments of handleSaveDraft
    \* history
    yamlOf, canvasOf,   \* the workflow whose file yaml and canvas go back to
    crossed,     \* an edit was answered under another workflow than its own
    twisted,     \* an edit, a text or a file broke the references itself
    edits, acts

draft == <<sourceKey, yaml, canvas, parsed, yamlOf, canvasOf>>
bounds == <<edits, acts>>
vars == <<selected, files, draft, calls, saving, crossed, twisted, bounds>>

All == Workflows \cup {New}
DocumentOf(text) == IF text = Broken THEN Blank ELSE text

-----------------------------------------------------------------------------
(* The canvas.                                                             *)

\* activeWorkflowDocument.
Shown ==
    IF canvas # Blank /\ sourceKey = selected THEN canvas
    ELSE IF parsed = "success" /\ DocumentOf(yaml) # Blank THEN yaml
    ELSE DocumentOf(files[selected])
ShownIds == IF Shown = Blank THEN {} ELSE IdsOf(Shown)

\* Another text: the answer to its parsing is still to come.
SetYaml(text) == yaml' = text /\ parsed' = IF text = yaml THEN parsed ELSE "pending"

\* History: whatever but an edit of the panel replaces the text disturbs the
\* edits under way; an edit of a canvas that lags behind the text is disturbed
\* from the start.
Call(c, base, phase, disturbed) ==
    [edit |-> c.edit, over |-> c.over, base |-> base, of |-> c.of, phase |-> phase,
     locked |-> c.locked, disturbed |-> disturbed]
Disturbed(cs) == {Call(c, c.base, c.phase, TRUE) : c \in cs}

\* The effect that fills the draft when the file of the selected workflow is
\* there and the draft is not its own.
Hydrate(w, text) ==
    /\ sourceKey' = w /\ SetYaml(text) /\ canvas' = DocumentOf(text)
    /\ yamlOf' = w /\ canvasOf' = w
    /\ calls' = Disturbed(calls)
    /\ twisted' = (twisted \/ (text # Broken /\ ~Sound(text)))

-----------------------------------------------------------------------------
(* The user.                                                               *)

Acted == acts < MaxActs /\ acts' = acts + 1
Edited == Acted /\ edits < MaxEdits /\ edits' = edits + 1

\* openWorkspaceWorkflow; the workflow's file may be in the cache.  No guard
\* asks about the draft.
Open(w) ==
    /\ Acted
    /\ w # selected /\ selected' = w
    /\ w = New => files[New] # Blank
    /\ IF files[w] # Blank /\ sourceKey # w THEN Hydrate(w, files[w])
       ELSE UNCHANGED <<sourceKey, yaml, canvas, parsed, yamlOf, canvasOf, calls, twisted>>
    /\ UNCHANGED <<files, saving, crossed, edits>>

\* The YAML editor: onSetDraftYaml.
TypeYamlUnparsed(text) ==
    /\ Edited
    /\ yaml # Blank /\ text # yaml
    /\ yaml' = text /\ parsed' = parsed /\ canvas' = Blank
    /\ calls' = Disturbed(calls)
    /\ twisted' = (twisted \/ (text # Broken /\ ~Sound(text)))
    /\ UNCHANGED <<selected, files, sourceKey, yamlOf, canvasOf, saving, crossed>>

TypeYaml(text) ==
    /\ Edited
    /\ yaml # Blank /\ text # yaml
    /\ SetYaml(text) /\ canvas' = Blank
    /\ calls' = Disturbed(calls)
    /\ twisted' = (twisted \/ (text # Broken /\ ~Sound(text)))
    /\ UNCHANGED <<selected, files, sourceKey, yamlOf, canvasOf, saving, crossed>>

\* resolveEditableWorkflowDocument: an edit starts from the document of the
\* canvas, or has the text parsed first.
Locked == \E c \in calls : c.locked
Start(edit, locked) ==
    /\ Edited
    /\ yaml # Blank
    /\ calls' = calls \cup
         {[edit |-> edit, over |-> yaml, base |-> canvas,
           of |-> IF canvas = Blank THEN yamlOf ELSE canvasOf,
           phase |-> IF canvas = Blank THEN "parse" ELSE "serialize",
           locked |-> locked, disturbed |-> canvas \notin {Blank, yaml}]}
    /\ UNCHANGED <<selected, files, draft, saving, crossed, twisted>>

\* A plausible bug: the panel does not ask whether an edit is under way.
StepEditUnlocked(edit) == Start(edit, TRUE)

\* The edits of the panel, which stepMutationPendingRef keeps apart.
StepEdit(edit) == ~Locked /\ Start(edit, TRUE)
\* An edge drawn on the canvas, which it does not.
DrawEdge(from, to) == Start([op |-> "connect", from |-> from, to |-> to], FALSE)

\* The inspector's draft of a step, with one field changed.  The user selects
\* any step on the canvas.
Drafts(step) ==
    LET targets == ShownIds \cup {0}
    IN  {[id |-> i, type |-> step.type, next |-> step.next, branches |-> step.branches] :
            i \in ShownIds \cup {Renamed}}
        \cup {WithNext(step, n) : n \in targets \ {step.id}}
        \cup {[id |-> step.id, type |-> step.type, next |-> step.next,
               branches |-> [step.branches EXCEPT !["true"] = t]] : t \in targets}
PanelEdits ==
    [op : {"insert"}, type : {"conditional", "other"},
     at : IF ShownIds = {} THEN {0} ELSE ShownIds]
    \cup [op : {"remove"}, ids : SUBSET ShownIds \ {{}}]
    \cup UNION {[op : {"apply"}, at : {id}, draft : Drafts(StepOf(Shown, id))] : id \in ShownIds}

\* handleSaveDraft: the id is that of the file the page has for the selected
\* workflow; without one the server is asked to create a workflow.
Save ==
    /\ Acted
    /\ saving = Blank /\ yaml # Blank
    /\ saving' = [id |-> IF files[selected] = Blank THEN New ELSE selected,
                  yaml |-> yaml, of |-> yamlOf, phase |-> "post"]
    /\ UNCHANGED <<selected, files, draft, calls, crossed, twisted, edits>>

-----------------------------------------------------------------------------
(* The answers.                                                            *)

\* A plausible bug: a draft that is there is kept when another file comes in.
FileAnswerKeepsDraft ==
    /\ files[selected] = Blank
    /\ files' = [files EXCEPT ![selected] = FileOf[selected]]
    /\ IF yaml = Blank THEN Hydrate(selected, FileOf[selected])
       ELSE /\ sourceKey' = selected
            /\ UNCHANGED <<yaml, canvas, parsed, yamlOf, canvasOf, calls, twisted>>
    /\ UNCHANGED <<selected, saving, crossed, bounds>>

FileAnswer ==
    /\ files[selected] = Blank
    /\ files' = [files EXCEPT ![selected] = FileOf[selected]]
    /\ Hydrate(selected, FileOf[selected])
    /\ UNCHANGED <<selected, saving, crossed, bounds>>

\* parseYamlQuery answers, and the effect puts the document on the canvas.
ParseAnswer ==
    /\ yaml # Blank /\ parsed = "pending" /\ parsed' = "success"
    /\ IF yaml = Broken THEN UNCHANGED <<canvas, canvasOf>>
       ELSE canvas' = yaml /\ canvasOf' = yamlOf
    /\ UNCHANGED <<selected, files, sourceKey, yaml, yamlOf, calls, saving, crossed, twisted,
                   bounds>>

\* The request fails, and is not tried again for this text (retry: false).  That
\* a new list of workflow names asks again is left out.
ParseFails ==
    /\ yaml # Blank /\ parsed = "pending" /\ parsed' = "error"
    /\ UNCHANGED <<selected, files, sourceKey, yaml, canvas, yamlOf, canvasOf, calls, saving,
                   crossed, twisted, bounds>>

\* A plausible bug: a text that does not parse is edited all the same.
ParsedForEditUnchecked(c) ==
    /\ c.phase = "parse"
    /\ \/ calls' = calls \ {c}
       \/ calls' = (calls \ {c}) \cup {Call(c, c.over, "serialize", c.disturbed)}
    /\ UNCHANGED <<selected, files, draft, saving, crossed, twisted, bounds>>

\* The edit's own parsing answers, or fails.
ParsedForEdit(c) ==
    /\ c.phase = "parse"
    /\ \/ calls' = calls \ {c}
       \/ /\ c.over # Broken
          /\ calls' = (calls \ {c}) \cup {Call(c, c.over, "serialize", c.disturbed)}
    /\ UNCHANGED <<selected, files, draft, saving, crossed, twisted, bounds>>

Result(doc, edit) ==
    CASE edit.op = "insert" -> Insert(doc, edit.type, edit.at)
      [] edit.op = "apply" -> ApplyDraft(doc, edit.at, edit.draft)
      [] edit.op = "remove" -> RemoveAll(doc, edit.ids)
      [] edit.op = "connect" -> Connect(doc, edit.from, edit.to)

\* The edit itself asks for no step twice and for no reference to nothing:
\* what the page does not check.
Harmless(doc, edit) ==
    CASE edit.op = "insert" -> TRUE
      [] edit.op = "apply" ->
            /\ edit.draft.id \notin IdsOf(doc) \ {edit.at}
            /\ Targets(edit.draft) \subseteq
                 (IdsOf(doc) \ {edit.at}) \cup {0} \cup {edit.draft.id}
      [] edit.op = "remove" ->
            \A p \in DOMAIN doc : doc[p].id \in edit.ids =>
                Removals(doc, edit.ids)[p - 1][p].next # doc[p].id
      [] edit.op = "connect" -> edit.to \in IdsOf(doc)

\* applySerializedWorkflowDocument after its await: whatever the draft holds by
\* now, the document the edit made takes its place.
Serialized(c) ==
    /\ c.phase = "serialize"
    /\ LET doc == Result(c.base, c.edit)
       IN  SetYaml(doc) /\ canvas' = doc
    /\ yamlOf' = c.of /\ canvasOf' = c.of
    /\ calls' = IF c.locked THEN calls \ {c} ELSE Disturbed(calls \ {c})
    /\ crossed' = (crossed \/ c.of # sourceKey)
    /\ twisted' = (twisted \/ ~Harmless(c.base, c.edit))
    /\ UNCHANGED <<selected, files, sourceKey, saving, bounds>>
SerializeFails(c) ==
    /\ c.phase = "serialize" /\ calls' = calls \ {c}
    /\ UNCHANGED <<selected, files, draft, saving, crossed, twisted, bounds>>

\* saveWorkflow answers: the cache has the saved file.  A file that is there
\* under the name a workflow would be created with is not written over.
Saved ==
    /\ saving # Blank /\ saving.phase = "post"
    /\ saving.id = New => files[New] = Blank
    /\ files' = [files EXCEPT ![saving.id] = saving.yaml]
    /\ saving' = [id |-> saving.id, yaml |-> saving.yaml, of |-> saving.of, phase |-> "show"]
    /\ UNCHANGED <<selected, sourceKey, yaml, canvas, parsed, yamlOf, canvasOf, calls, crossed,
                   twisted, bounds>>
SaveFails ==
    /\ saving # Blank /\ saving.phase = "post" /\ saving' = Blank
    /\ UNCHANGED <<selected, files, draft, calls, crossed, twisted, bounds>>

\* applySavedWorkflowSelection after the list is fetched: the saved workflow is
\* shown, and its text is the draft, whatever the draft holds by now.
ShowSaved ==
    /\ saving # Blank /\ saving.phase = "show" /\ saving' = Blank
    /\ selected' = saving.id /\ sourceKey' = saving.id
    /\ SetYaml(saving.yaml) /\ yamlOf' = saving.id
    /\ calls' = Disturbed(calls)
    /\ UNCHANGED <<files, canvas, canvasOf, crossed, twisted, bounds>>

-----------------------------------------------------------------------------

Init ==
    /\ selected \in Workflows
    /\ files = [w \in All |-> Blank]
    /\ sourceKey = Blank /\ yaml = Blank /\ canvas = Blank /\ parsed = "pending"
    /\ calls = {} /\ saving = Blank
    /\ yamlOf = Blank /\ canvasOf = Blank /\ crossed = FALSE /\ twisted = FALSE
    /\ edits = 0 /\ acts = 0

User ==
    \/ \E w \in All : Open(w)
    \/ \E text \in Typed : TypeYaml(text)
    \/ \E edit \in PanelEdits : StepEdit(edit)
    \/ \E from, to \in ShownIds : DrawEdge(from, to)
    \/ Save
Answers ==
    \/ FileAnswer \/ ParseAnswer \/ ParseFails
    \/ \E c \in calls : ParsedForEdit(c) \/ Serialized(c) \/ SerializeFails(c)
    \/ Saved \/ SaveFails \/ ShowSaved
Next == User \/ Answers

Spec == Init /\ [][Next]_vars
\* Calls are answered or fail; nothing makes the user act.
FairSpec == Spec /\ WF_vars(Answers)

-----------------------------------------------------------------------------

IsText(text) == text \in {Broken, Blank} \/ IsDocument(text)
IsEdit(edit) ==
    \/ edit.op = "insert" /\ edit.type \in Types /\ edit.at \in Nat
    \/ edit.op = "apply" /\ edit.at \in Nat \ {0} /\ edit.draft \in Steps
    \/ edit.op = "remove" /\ edit.ids \subseteq Nat \ {0}
    \/ edit.op = "connect" /\ {edit.from, edit.to} \subseteq Nat \ {0}

\* The variables are of their types.
TypeOK ==
    /\ selected \in All /\ sourceKey \in All \cup {Blank}
    /\ DOMAIN files = All /\ \A w \in All : IsText(files[w])
    /\ IsText(yaml) /\ IsText(canvas) /\ canvas # Broken
    /\ parsed \in {"pending", "success", "error"}
    /\ \A c \in calls :
         /\ IsEdit(c.edit) /\ IsText(c.over) /\ c.over # Blank /\ IsText(c.base)
         /\ c.phase \in {"parse", "serialize"} /\ c.base # Broken
         /\ (c.phase = "parse") = (c.base = Blank)
         /\ c.of \in All /\ c.locked \in BOOLEAN /\ c.disturbed \in BOOLEAN
    /\ saving # Blank =>
         /\ saving.id \in All /\ saving.phase \in {"post", "show"}
         /\ IsText(saving.yaml) /\ saving.yaml # Blank /\ saving.of \in All
    /\ {yamlOf, canvasOf} \subseteq All \cup {Blank}
    /\ crossed \in BOOLEAN /\ twisted \in BOOLEAN
    /\ edits \in 0..MaxEdits /\ acts \in 0..MaxActs

\* An edit of the panel replaces the very text it was made from, so that no
\* edit before it is lost, unless the YAML editor, an edge drawn meanwhile, a
\* save or another file came between (stepMutationPendingRef).
StepEditsBuildOnEachOther ==
    [][\A c \in calls : c.locked /\ ~c.disturbed /\ Serialized(c) => yaml = c.base]_vars

\* A draft is saved under the id of the workflow it was opened from, through
\* every switch and every save under way; only an edit answered after the
\* switch can bring one workflow's steps under the id of another
\* (handleSaveDraft, the hydrate effect).
SavedUnderItsOwnId ==
    saving # Blank /\ saving.id # New /\ ~crossed => saving.id = saving.of

\* Through any sequence of edits, no step id is given twice and no step names
\* one that is not there, unless a file, a typed text or the inspector's draft
\* did so itself, or a step that names itself was removed
\* (createUniqueStepId, applyStepInspectorDraft, removeStep).
ReferencesResolve ==
    ~twisted => \A doc \in {yaml, canvas} : doc \in {Broken, Blank} \/ Sound(doc)

\* Removing a step that names its next step takes it out of the run and changes
\* nothing else, except for a step that only led to it by the order of the
\* list; inserting one behind another splices it into the run.
EditsKeepFlow ==
    \A c \in calls : c.phase = "serialize" /\ Sound(c.base) =>
        /\ \A id \in IdsOf(c.base) :
             c.edit.op = "remove" /\ c.edit.ids = {id}
             /\ StepOf(c.base, id).next \notin {0, id} => Bypassed(c.base, id)
        /\ c.edit.op = "insert" /\ c.edit.at \in IdsOf(c.base)
             => Spliced(c.base, c.edit.type, c.edit.at)

\* When the user stops, the canvas comes to show the document of the text that
\* a save would store, unless that text does not parse or its parse request failed:
\* the query is not tried again, and the canvas may stay behind (the effects on
\* parseYamlQuery and on the file of the selected workflow).
CanvasSettles == <>[](yaml = Broken \/ parsed = "error" \/ canvas = yaml)
=============================================================================
