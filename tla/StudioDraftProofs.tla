-------------------------- MODULE StudioDraftProofs --------------------------
(***************************************************************************)
(* Safety of StudioDraft for any workflows, files and typed texts, any     *)
(* number of edits under way, and answers in any order.                    *)
(*                                                                         *)
(* Four inductive invariants.  OwnInv: the draft belongs to the selected   *)
(* workflow as soon as its file is there, and a save that names a workflow *)
(* names one whose file is there.  BaseInv: the text has not moved under   *)
(* an undisturbed edit of the panel, and there is one such edit at a time. *)
(* DocsInv: whatever an answer can bring back - a file, an edit under way, *)
(* the argument of a save - is a document whose references resolve; that   *)
(* an edit makes such a document again is WorkflowDocumentProofs.          *)
(* FieldsInv: the types of the rest.                                       *)
(***************************************************************************)
EXTENDS StudioDraft, WorkflowDocumentProofs

-----------------------------------------------------------------------------
(* What is saved goes to the workflow it was opened from.                  *)

\* The draft is that of the selected workflow as soon as its file is there, and
\* a save that names a workflow names one whose file is there.
OwnInv ==
    /\ DOMAIN files = All /\ selected \in All
    /\ selected = New => files[New] # Blank
    /\ files[selected] # Blank => sourceKey = selected
    /\ ~crossed => yamlOf = sourceKey
    /\ saving # Blank =>
         /\ saving.id \in All /\ saving.yaml # Blank
         /\ saving.id # New \/ saving.phase = "show" => files[saving.id] # Blank
         /\ saving.id # New /\ ~crossed => saving.id = saving.of

\* A page that opens has no draft.
LEMMA OwnInit == Init => OwnInv
BY ConstantsAssumption DEF Init, OwnInv, All

\* Every step keeps OwnInv.
LEMMA OwnStep == OwnInv /\ [Next]_vars => OwnInv'
<1> SUFFICES ASSUME OwnInv, [Next]_vars PROVE OwnInv'
  OBVIOUS
<1>1. ASSUME NEW w \in All, Open(w) PROVE OwnInv'
  <2>1. CASE files[w] # Blank /\ sourceKey # w
    BY <1>1, <2>1 DEF Open, Hydrate, OwnInv
  <2>2. CASE ~(files[w] # Blank /\ sourceKey # w)
    BY <1>1, <2>2 DEF Open, OwnInv
  <2> QED BY <2>1, <2>2
<1>2. ASSUME NEW text \in Typed, TypeYaml(text) PROVE OwnInv'
  BY <1>2 DEF TypeYaml, OwnInv
<1>3. ASSUME NEW edit, NEW locked, Start(edit, locked) PROVE OwnInv'
  BY <1>3 DEF Start, draft, OwnInv
<1>4. CASE Save
  <2> DEFINE made == [id |-> IF files[selected] = Blank THEN New ELSE selected,
                      yaml |-> yaml, of |-> yamlOf, phase |-> "post"]
  <2>1. /\ made.id = IF files[selected] = Blank THEN New ELSE selected
        /\ made.yaml = yaml /\ made.of = yamlOf /\ made.phase = "post"
    OBVIOUS
  <2>2. saving' = made /\ yaml # Blank
        /\ UNCHANGED <<selected, files, sourceKey, yamlOf, crossed>>
    BY <1>4 DEF Save, draft
  <2> HIDE DEF made
  <2>3. New \in All
    BY DEF All
  <2> QED BY <2>1, <2>2, <2>3 DEF OwnInv
<1>5. CASE FileAnswer
  <2>1. selected \in Workflows
    BY <1>5 DEF FileAnswer, OwnInv, All
  <2>2. FileOf[selected] # Blank
    BY <2>1, ConstantsAssumption
  <2> QED BY <1>5, <2>2 DEF FileAnswer, Hydrate, OwnInv
<1>6. CASE ParseAnswer \/ ParseFails
  BY <1>6 DEF ParseAnswer, ParseFails, OwnInv
<1>7. ASSUME NEW c \in calls, ParsedForEdit(c) \/ SerializeFails(c) PROVE OwnInv'
  BY <1>7 DEF ParsedForEdit, SerializeFails, draft, OwnInv
<1>8. ASSUME NEW c \in calls, Serialized(c) PROVE OwnInv'
  BY <1>8 DEF Serialized, OwnInv
<1>9. CASE Saved
  <2> DEFINE shown == [id |-> saving.id, yaml |-> saving.yaml, of |-> saving.of, phase |-> "show"]
  <2>1. /\ shown.id = saving.id /\ shown.yaml = saving.yaml
        /\ shown.of = saving.of /\ shown.phase = "show"
    OBVIOUS
  <2>2. /\ saving # Blank /\ saving' = shown
        /\ saving.id = New => files[New] = Blank
        /\ files' = [files EXCEPT ![saving.id] = saving.yaml]
        /\ UNCHANGED <<selected, sourceKey, yamlOf, crossed>>
    BY <1>9 DEF Saved
  <2> HIDE DEF shown
  <2>3. /\ DOMAIN files' = All /\ files'[saving.id] = saving.yaml
        /\ \A w \in All : w # saving.id => files'[w] = files[w]
    BY <2>2 DEF OwnInv
  <2>4. saving.id # selected \/ files[selected] # Blank
    BY <2>2 DEF OwnInv
  <2>5. New \in All
    BY DEF All
  <2>6. files'[selected] # Blank => sourceKey = selected
    BY <2>3, <2>4 DEF OwnInv
  <2> QED BY <2>1, <2>2, <2>3, <2>5, <2>6 DEF OwnInv
<1>10. CASE SaveFails
  BY <1>10 DEF SaveFails, draft, OwnInv
<1>11. CASE ShowSaved
  BY <1>11 DEF ShowSaved, OwnInv
<1>12. CASE UNCHANGED vars
  BY <1>12 DEF vars, draft, OwnInv
<1> QED BY <1>1, <1>2, <1>3, <1>4, <1>5, <1>6, <1>7, <1>8, <1>9, <1>10, <1>11, <1>12
        DEF Next, User, Answers, StepEdit, DrawEdge

\* A draft is saved under the id of the workflow it was opened from
\* (handleSaveDraft, the hydrate effect).
THEOREM SavedUnderItsOwnIdHolds == Spec => []SavedUnderItsOwnId
<1>1. OwnInv => SavedUnderItsOwnId
  BY DEF OwnInv, SavedUnderItsOwnId
<1> QED BY OwnInit, OwnStep, <1>1, PTL DEF Spec

-----------------------------------------------------------------------------
(* The edits of the panel build on each other.                             *)

\* What an edit of the panel that nothing disturbed was made from is the text.
BaseInv ==
    /\ \A c \in calls : c.locked /\ ~c.disturbed =>
         /\ c.phase = "serialize" => c.base = yaml
         /\ c.phase = "parse" => c.over = yaml
    /\ \A c, d \in calls : c.locked /\ d.locked => c = d

\* Disturbed edits keep everything else.
LEMMA DisturbedIs ==
  ASSUME NEW cs, NEW d \in Disturbed(cs)
  PROVE \E c \in cs : /\ d = Call(c, c.base, c.phase, TRUE)
                      /\ d.disturbed /\ d.edit = c.edit /\ d.over = c.over /\ d.base = c.base
                      /\ d.phase = c.phase /\ d.locked = c.locked
<1>1. PICK c \in cs : d = Call(c, c.base, c.phase, TRUE)
  BY DEF Disturbed
<1> DEFINE e == Call(c, c.base, c.phase, TRUE)
<1>2. /\ e.edit = c.edit /\ e.over = c.over /\ e.base = c.base
      /\ e.phase = c.phase /\ e.locked = c.locked /\ e.disturbed = TRUE
  BY DEF Call
<1> HIDE DEF e
<1>3. d = e
  BY <1>1 DEF e
<1> QED BY <1>1, <1>2, <1>3

\* Disturbing the edits restores the invariant, whatever the text becomes.
LEMMA DisturbedKeepsBase ==
  ASSUME NEW cs, \A c, d \in cs : c.locked /\ d.locked => c = d
  PROVE /\ \A d \in Disturbed(cs) : d.disturbed
        /\ \A c, d \in Disturbed(cs) : c.locked /\ d.locked => c = d
<1>1. \A d \in Disturbed(cs) : d.disturbed
  BY DisturbedIs
<1>2. ASSUME NEW d \in Disturbed(cs), NEW e \in Disturbed(cs), d.locked, e.locked PROVE d = e
  <2>1. PICK c \in cs : d = Call(c, c.base, c.phase, TRUE) /\ d.locked = c.locked
    BY DisturbedIs
  <2>2. PICK b \in cs : e = Call(b, b.base, b.phase, TRUE) /\ e.locked = b.locked
    BY DisturbedIs
  <2>3. c.locked /\ b.locked
    BY <1>2, <2>1, <2>2
  <2> QED BY <2>1, <2>2, <2>3
<1> QED BY <1>1, <1>2

\* Every step keeps BaseInv.
LEMMA BaseStep == BaseInv /\ [Next]_vars => BaseInv'
<1> SUFFICES ASSUME BaseInv, [Next]_vars PROVE BaseInv'
  OBVIOUS
<1>0. ASSUME calls' = Disturbed(calls) PROVE BaseInv'
  BY <1>0, DisturbedKeepsBase DEF BaseInv
<1>1. ASSUME calls' \subseteq calls, yaml' = yaml PROVE BaseInv'
  BY <1>1 DEF BaseInv
<1>2. ASSUME NEW w \in All, Open(w) PROVE BaseInv'
  BY <1>0, <1>1, <1>2 DEF Open, Hydrate
<1>3. ASSUME NEW text \in Typed, TypeYaml(text) PROVE BaseInv'
  BY <1>0, <1>3 DEF TypeYaml
<1>4. ASSUME NEW edit, NEW locked, Start(edit, locked), locked => ~Locked PROVE BaseInv'
  <2> DEFINE d == [edit |-> edit, over |-> yaml, base |-> canvas,
                   of |-> IF canvas = Blank THEN yamlOf ELSE canvasOf,
                   phase |-> IF canvas = Blank THEN "parse" ELSE "serialize",
                   locked |-> locked, disturbed |-> canvas \notin {Blank, yaml}]
  <2>1. /\ d.over = yaml /\ d.base = canvas /\ d.locked = locked
        /\ d.phase = IF canvas = Blank THEN "parse" ELSE "serialize"
        /\ d.disturbed = (canvas \notin {Blank, yaml})
    OBVIOUS
  <2>2. calls' = calls \cup {d} /\ yaml' = yaml
    BY <1>4 DEF Start, draft
  <2> HIDE DEF d
  <2>3. d.locked => \A c \in calls : ~c.locked
    BY <1>4, <2>1 DEF Locked
  <2>4. ~d.disturbed => /\ d.phase = "serialize" => d.base = yaml
                        /\ d.phase = "parse" => d.over = yaml
    BY <2>1
  <2> QED BY <2>2, <2>3, <2>4 DEF BaseInv
<1>5. CASE Save \/ SaveFails \/ Saved \/ ParseAnswer \/ ParseFails
  BY <1>1, <1>5 DEF Save, SaveFails, Saved, ParseAnswer, ParseFails, draft
<1>6. CASE FileAnswer
  BY <1>0, <1>6 DEF FileAnswer, Hydrate
<1>7. ASSUME NEW c \in calls, ParsedForEdit(c) PROVE BaseInv'
  <2>1. CASE calls' = calls \ {c}
    BY <1>1, <1>7, <2>1 DEF ParsedForEdit, draft
  <2>2. CASE calls' = (calls \ {c}) \cup {Call(c, c.over, "serialize", c.disturbed)}
    <3> DEFINE d == Call(c, c.over, "serialize", c.disturbed)
    <3>1. /\ d.over = c.over /\ d.base = c.over /\ d.locked = c.locked
          /\ d.phase = "serialize" /\ d.disturbed = c.disturbed
      BY DEF Call
    <3> HIDE DEF d
    <3>2. c.phase = "parse" /\ yaml' = yaml /\ calls' = (calls \ {c}) \cup {d}
      BY <1>7, <2>2 DEF ParsedForEdit, draft, d
    <3> QED BY <3>1, <3>2 DEF BaseInv
  <2> QED BY <1>7, <2>1, <2>2 DEF ParsedForEdit
<1>8. ASSUME NEW c \in calls, SerializeFails(c) PROVE BaseInv'
  BY <1>1, <1>8 DEF SerializeFails, draft
<1>9. ASSUME NEW c \in calls, Serialized(c) PROVE BaseInv'
  <2>1. CASE c.locked
    BY <1>9, <2>1 DEF Serialized, BaseInv
  <2>2. CASE ~c.locked
    <3>1. calls' = Disturbed(calls \ {c})
      BY <1>9, <2>2 DEF Serialized
    <3>2. \A d, e \in calls \ {c} : d.locked /\ e.locked => d = e
      BY DEF BaseInv
    <3> QED BY <3>1, <3>2, DisturbedKeepsBase DEF BaseInv
  <2> QED BY <2>1, <2>2
<1>10. CASE ShowSaved
  BY <1>0, <1>10 DEF ShowSaved
<1>11. CASE UNCHANGED vars
  BY <1>1, <1>11 DEF vars, draft
<1> QED BY <1>2, <1>3, <1>4, <1>5, <1>6, <1>7, <1>8, <1>9, <1>10, <1>11
        DEF Next, User, Answers, StepEdit, DrawEdge

\* An edit of the panel replaces the very text it was made from, so that no
\* edit before it is lost (stepMutationPendingRef).
THEOREM StepEditsBuildOnEachOtherHolds == Spec => StepEditsBuildOnEachOther
<1>1. Init => BaseInv
  BY DEF Init, BaseInv
<1>2. BaseInv => \A c \in calls : c.locked /\ ~c.disturbed /\ Serialized(c) => yaml = c.base
  BY DEF BaseInv, Serialized
<1> QED BY <1>1, <1>2, BaseStep, PTL DEF Spec, StepEditsBuildOnEachOther

-----------------------------------------------------------------------------
(* Documents, and the references in them.                                  *)

\* A text that is there; a text or a document whose references resolve.
Written(text) == text # Blank /\ (text = Broken \/ IsDocument(text))
Resolved(doc) == doc \in {Broken, Blank} \/ Sound(doc)

DocumentInv ==
    /\ \A w \in All : files[w] # Blank => Written(files[w])
    /\ yaml \in {Blank, Broken} \/ IsDocument(yaml)
    /\ canvas = Blank \/ IsDocument(canvas)
    /\ \A c \in calls : /\ IsEdit(c.edit)
                        /\ c.over = Broken \/ (IsDocument(c.over) /\ c.over # Blank)
                        /\ c.phase = "serialize" => IsDocument(c.base)
    /\ saving # Blank => Written(saving.yaml)

\* Until an edit, a text or a file breaks them, all the references resolve, in
\* what an edit under way or a save is about to bring back, too.
ResolvedInv ==
    ~twisted => /\ Resolved(yaml) /\ (canvas = Blank \/ Sound(canvas))
                /\ \A c \in calls : Resolved(c.over) /\ (c.phase = "serialize" => Sound(c.base))
                /\ saving # Blank => Resolved(saving.yaml)

\* The edits a page offers are about steps it shows.
LEMMA ShownIsDocument ==
  ASSUME DocumentInv, selected \in All
  PROVE /\ Shown = Blank \/ IsDocument(Shown)
        /\ \A id \in ShownIds : id \in IdsOf(Shown) /\ IsDocument(Shown)
        /\ ShownIds \subseteq Nat \ {0}
<1>1. Shown = Blank \/ IsDocument(Shown)
  BY DEF DocumentInv, Shown, DocumentOf, Written
<1>2. \A id \in ShownIds : id \in IdsOf(Shown) /\ IsDocument(Shown)
  BY <1>1 DEF ShownIds
<1>3. ASSUME NEW id \in ShownIds PROVE id \in Nat \ {0}
  BY <1>2, AtIs
<1> QED BY <1>1, <1>2, <1>3

\* A draft of the inspector is a step.
LEMMA DraftsAreSteps ==
  ASSUME NEW step \in Steps, ShownIds \subseteq Nat \ {0}
  PROVE Drafts(step) \subseteq Steps
<1>1. /\ step.id \in Nat \ {0} /\ step.type \in Types /\ step.next \in Nat
      /\ step.branches \in [Labels -> Nat]
  BY StepFields
<1>2. ASSUME NEW i \in ShownIds \cup {Renamed}
      PROVE [id |-> i, type |-> step.type, next |-> step.next, branches |-> step.branches] \in Steps
  <2>1. i \in Nat \ {0}
    BY ConstantsAssumption
  <2> QED BY <1>1, <2>1, StepMade
<1>3. ASSUME NEW n \in ShownIds \cup {0} PROVE WithNext(step, n) \in Steps
  <2>1. n \in Nat
    OBVIOUS
  <2> QED BY <1>1, <2>1, WithNextIs
<1>4. ASSUME NEW t \in ShownIds \cup {0}
      PROVE [id |-> step.id, type |-> step.type, next |-> step.next,
             branches |-> [step.branches EXCEPT !["true"] = t]] \in Steps
  <2> DEFINE branches == [step.branches EXCEPT !["true"] = t]
  <2>1. t \in Nat /\ "true" \in Labels
    BY DEF Labels
  <2>2. branches \in [Labels -> Nat]
    BY <1>1, <2>1
  <2> HIDE DEF branches
  <2>3. [id |-> step.id, type |-> step.type, next |-> step.next, branches |-> branches] \in Steps
    BY <1>1, <2>2, StepMade
  <2> QED BY <2>3 DEF branches
<1> QED BY <1>2, <1>3, <1>4 DEF Drafts

\* The edits of the panel are edits.
LEMMA PanelEditsAreEdits ==
  ASSUME DocumentInv, selected \in All, NEW edit \in PanelEdits
  PROVE IsEdit(edit)
<1> DEFINE Inserts == [op : {"insert"}, type : {"conditional", "other"},
                        at : IF ShownIds = {} THEN {0} ELSE ShownIds]
           Applies(id) == [op : {"apply"}, at : {id}, draft : Drafts(StepOf(Shown, id))]
           Removes == [op : {"remove"}, ids : SUBSET ShownIds \ {{}}]
<1>0. PanelEdits = Inserts \cup Removes \cup UNION {Applies(id) : id \in ShownIds}
  BY DEF PanelEdits
<1>1. \A id \in ShownIds : id \in Nat \ {0} /\ id \in IdsOf(Shown) /\ IsDocument(Shown)
  BY ShownIsDocument
<1>2. CASE edit \in Inserts
  <2>1. /\ edit.op = "insert" /\ edit.type \in {"conditional", "other"}
        /\ edit.at \in ShownIds \cup {0}
    BY <1>2
  <2>2. edit.type \in Types /\ edit.at \in Nat
    BY <1>1, <2>1 DEF Types
  <2> QED BY <2>1, <2>2 DEF IsEdit
<1>3. CASE \E id \in ShownIds : edit \in Applies(id)
  <2>1. PICK id \in ShownIds : edit \in Applies(id)
    BY <1>3
  <2>2. edit.op = "apply" /\ edit.at = id /\ edit.draft \in Drafts(StepOf(Shown, id))
    BY <2>1
  <2>3. StepOf(Shown, id) \in Steps
    BY <1>1, AtIs
  <2>4. edit.draft \in Steps
    BY <1>1, <2>2, <2>3, DraftsAreSteps
  <2> QED BY <1>1, <2>2, <2>4 DEF IsEdit
<1>4. CASE edit \in Removes
  <2>1. edit.op = "remove" /\ edit.ids \in SUBSET ShownIds
    BY <1>4
  <2>2. edit.ids \subseteq Nat \ {0}
    BY <1>1, <2>1
  <2> QED BY <2>1, <2>2 DEF IsEdit
<1> HIDE DEF Inserts, Applies, Removes
<1>5. edit \in Inserts \/ (\E id \in ShownIds : edit \in Applies(id)) \/ edit \in Removes
  BY <1>0
<1> QED BY <1>2, <1>3, <1>4, <1>5

\* What an edit makes of a document is one, with its references if the edit
\* breaks none.
LEMMA ResultIs ==
  ASSUME NEW doc, IsDocument(doc), NEW edit, IsEdit(edit)
  PROVE /\ IsDocument(Result(doc, edit))
        /\ Sound(doc) /\ Harmless(doc, edit) => Sound(Result(doc, edit))
<1>1. CASE edit.op = "insert"
  <2>1. edit.type \in Types
    BY <1>1 DEF IsEdit
  <2>2. Result(doc, edit) = Insert(doc, edit.type, edit.at)
    BY <1>1 DEF Result
  <2> QED BY <2>1, <2>2, InsertIs
<1>2. CASE edit.op = "apply"
  <2>1. edit.at \in Nat \ {0} /\ edit.draft \in Steps
    BY <1>2 DEF IsEdit
  <2>2. Result(doc, edit) = ApplyDraft(doc, edit.at, edit.draft)
    BY <1>2 DEF Result
  <2>3. Harmless(doc, edit) =>
          /\ edit.draft.id \notin IdsOf(doc) \ {edit.at}
          /\ Targets(edit.draft) \subseteq (IdsOf(doc) \ {edit.at}) \cup {0} \cup {edit.draft.id}
    BY <1>2 DEF Harmless
  <2>4. IsDocument(ApplyDraft(doc, edit.at, edit.draft))
    BY <2>1, ApplyIs
  <2>5. Sound(doc) /\ Harmless(doc, edit) => Sound(ApplyDraft(doc, edit.at, edit.draft))
    BY <2>1, <2>3, ApplyKeepsSound
  <2> QED BY <2>2, <2>4, <2>5
<1>3. CASE edit.op = "remove"
  <2>1. Result(doc, edit) = RemoveAll(doc, edit.ids)
    BY <1>3 DEF Result
  <2>2. Harmless(doc, edit) =>
          \A p \in DOMAIN doc : doc[p].id \in edit.ids =>
              Removals(doc, edit.ids)[p - 1][p].next # doc[p].id
    BY <1>3 DEF Harmless
  <2> QED BY <2>1, <2>2, RemoveAllIsDocument, RemoveAllKeepsSound
<1>4. CASE edit.op = "connect"
  <2>1. edit.to \in Nat
    BY <1>4 DEF IsEdit
  <2>2. Result(doc, edit) = Connect(doc, edit.from, edit.to)
    BY <1>4 DEF Result
  <2>3. Harmless(doc, edit) => edit.to \in IdsOf(doc)
    BY <1>4 DEF Harmless
  <2> QED BY <2>1, <2>2, <2>3, ConnectIs
<1> QED BY <1>1, <1>2, <1>3, <1>4 DEF IsEdit

\* What filling the draft does to the text and the canvas.
LEMMA HydrateKeeps ==
  ASSUME NEW w, NEW text, Written(text), Hydrate(w, text)
  PROVE /\ yaml' \in {Blank, Broken} \/ IsDocument(yaml')
        /\ canvas' = Blank \/ IsDocument(canvas')
        /\ ~twisted' => ~twisted /\ Resolved(yaml') /\ (canvas' = Blank \/ Sound(canvas'))
        /\ calls' = Disturbed(calls) /\ yaml' = text
BY DEF Hydrate, SetYaml, DocumentOf, Written, Resolved

\* Disturbing the edits changes nothing a document depends on.
LEMMA DisturbedKeepsDocuments ==
  ASSUME NEW cs, NEW d \in Disturbed(cs)
  PROVE \E c \in cs : /\ d.edit = c.edit /\ d.over = c.over /\ d.base = c.base
                      /\ d.phase = c.phase
BY DisturbedIs

\* The part of DocumentInv about the edits under way.
CallsInv(cs) == \A c \in cs : /\ IsEdit(c.edit)
                              /\ c.over = Broken \/ (IsDocument(c.over) /\ c.over # Blank)
                              /\ c.phase = "serialize" => IsDocument(c.base)
CallsResolved(cs) ==
    \A c \in cs : Resolved(c.over) /\ (c.phase = "serialize" => Sound(c.base))

\* Disturbed edits keep their documents.
LEMMA DisturbedCalls ==
  ASSUME NEW cs
  PROVE /\ CallsInv(cs) => CallsInv(Disturbed(cs))
        /\ CallsResolved(cs) => CallsResolved(Disturbed(cs))
<1>1. ASSUME CallsInv(cs), NEW d \in Disturbed(cs)
      PROVE /\ IsEdit(d.edit)
            /\ d.over = Broken \/ (IsDocument(d.over) /\ d.over # Blank)
            /\ d.phase = "serialize" => IsDocument(d.base)
  <2>1. PICK c \in cs : /\ d.edit = c.edit /\ d.over = c.over /\ d.base = c.base
                        /\ d.phase = c.phase
    BY DisturbedKeepsDocuments
  <2> QED BY <1>1, <2>1 DEF CallsInv
<1>2. ASSUME CallsResolved(cs), NEW d \in Disturbed(cs)
      PROVE Resolved(d.over) /\ (d.phase = "serialize" => Sound(d.base))
  <2>1. PICK c \in cs : d.over = c.over /\ d.base = c.base /\ d.phase = c.phase
    BY DisturbedKeepsDocuments
  <2> QED BY <1>2, <2>1 DEF CallsResolved
<1> QED BY <1>1, <1>2 DEF CallsInv, CallsResolved

DocsInv ==
    /\ selected \in All /\ DOMAIN files = All
    /\ selected = New => files[New] # Blank
    /\ DocumentInv /\ ResolvedInv

\* An edit that starts.
LEMMA StartKeepsDocs ==
  ASSUME DocsInv, NEW edit, NEW locked, Start(edit, locked), IsEdit(edit)
  PROVE DocumentInv' /\ ResolvedInv'
<1> DEFINE d == [edit |-> edit, over |-> yaml, base |-> canvas,
                 of |-> IF canvas = Blank THEN yamlOf ELSE canvasOf,
                 phase |-> IF canvas = Blank THEN "parse" ELSE "serialize",
                 locked |-> locked, disturbed |-> canvas \notin {Blank, yaml}]
<1>1. /\ d.over = yaml /\ d.base = canvas /\ d.edit = edit
      /\ d.phase = IF canvas = Blank THEN "parse" ELSE "serialize"
  OBVIOUS
<1>2. calls' = calls \cup {d} /\ yaml # Blank
      /\ UNCHANGED <<files, yaml, canvas, saving, twisted>>
  BY DEF Start, draft
<1> HIDE DEF d
<1>3. DocumentInv'
  BY <1>1, <1>2 DEF DocsInv, DocumentInv
<1>4. ResolvedInv'
  BY <1>1, <1>2 DEF DocsInv, DocumentInv, ResolvedInv, Resolved
<1> QED BY <1>3, <1>4

\* Every step keeps DocsInv.
LEMMA DocsStep == DocsInv /\ OwnInv' /\ [Next]_vars => DocsInv'
<1> SUFFICES ASSUME DocsInv, OwnInv', [Next]_vars PROVE DocumentInv' /\ ResolvedInv'
  BY DEF DocsInv, OwnInv
<1>0. /\ DocumentInv /\ ResolvedInv /\ CallsInv(calls) /\ (~twisted => CallsResolved(calls))
  BY DEF DocsInv, DocumentInv, ResolvedInv, CallsInv, CallsResolved
<1>1. ASSUME calls' \subseteq calls, UNCHANGED <<files, yaml, canvas, saving, twisted>>
      PROVE DocumentInv' /\ ResolvedInv'
  BY <1>0, <1>1 DEF DocumentInv, ResolvedInv
<1>2. ASSUME CallsInv(calls'), ~twisted' => ~twisted /\ CallsResolved(calls'),
             yaml' \in {Blank, Broken} \/ IsDocument(yaml'),
             canvas' = Blank \/ IsDocument(canvas'),
             ~twisted' => Resolved(yaml') /\ (canvas' = Blank \/ Sound(canvas')),
             \A w \in All : files'[w] # Blank => Written(files'[w]),
             UNCHANGED saving \/ saving' = Blank
      PROVE DocumentInv' /\ ResolvedInv'
  <2>1. DocumentInv'
    BY <1>0, <1>2 DEF DocumentInv, CallsInv, Written
  <2>2. ResolvedInv'
    BY <1>0, <1>2 DEF ResolvedInv, CallsResolved, Resolved
  <2> QED BY <2>1, <2>2
<1>3. ASSUME NEW w \in All, Open(w) PROVE DocumentInv' /\ ResolvedInv'
  <2>1. CASE files[w] # Blank /\ sourceKey # w
    <3>1. Hydrate(w, files[w]) /\ Written(files[w]) /\ UNCHANGED <<files, saving>>
      BY <1>0, <1>3, <2>1 DEF Open, DocumentInv
    <3> QED BY <1>0, <1>2, <3>1, HydrateKeeps, DisturbedCalls DEF DocumentInv
  <2>2. CASE ~(files[w] # Blank /\ sourceKey # w)
    BY <1>1, <1>3, <2>2 DEF Open
  <2> QED BY <2>1, <2>2
<1>4. ASSUME NEW text \in Typed, TypeYaml(text) PROVE DocumentInv' /\ ResolvedInv'
  <2>1. Written(text)
    BY ConstantsAssumption DEF Written
  <2>2. /\ yaml' = text /\ canvas' = Blank /\ calls' = Disturbed(calls)
        /\ UNCHANGED <<files, saving>>
        /\ ~twisted' => ~twisted /\ (text = Broken \/ Sound(text))
    BY <1>4 DEF TypeYaml, SetYaml
  <2> QED BY <1>0, <1>2, <2>1, <2>2, DisturbedCalls DEF DocumentInv, Written, Resolved
<1>5. ASSUME NEW edit \in PanelEdits, StepEdit(edit) PROVE DocumentInv' /\ ResolvedInv'
  BY <1>5, PanelEditsAreEdits, StartKeepsDocs DEF StepEdit, DocsInv
<1>6. ASSUME NEW from \in ShownIds, NEW to \in ShownIds, DrawEdge(from, to)
      PROVE DocumentInv' /\ ResolvedInv'
  <2> DEFINE edit == [op |-> "connect", from |-> from, to |-> to]
  <2>1. from \in Nat \ {0} /\ to \in Nat \ {0}
    BY ShownIsDocument DEF DocsInv
  <2>2. edit.op = "connect" /\ edit.from = from /\ edit.to = to
    OBVIOUS
  <2>3. Start(edit, FALSE)
    BY <1>6 DEF DrawEdge
  <2> HIDE DEF edit
  <2>4. IsEdit(edit)
    BY <2>1, <2>2 DEF IsEdit
  <2> QED BY <2>3, <2>4, StartKeepsDocs
<1>7. CASE Save
  <2> DEFINE made == [id |-> IF files[selected] = Blank THEN New ELSE selected,
                      yaml |-> yaml, of |-> yamlOf, phase |-> "post"]
  <2>1. made.yaml = yaml
    OBVIOUS
  <2>2. saving' = made /\ yaml # Blank /\ UNCHANGED <<files, yaml, canvas, calls, twisted>>
    BY <1>7 DEF Save, draft
  <2> HIDE DEF made
  <2>3. DocumentInv'
    BY <1>0, <2>1, <2>2 DEF DocumentInv, Written
  <2>4. ResolvedInv'
    BY <1>0, <2>1, <2>2 DEF ResolvedInv
  <2> QED BY <2>3, <2>4
<1>8. CASE FileAnswer
  <2>1. selected \in Workflows /\ DOMAIN files = All
    BY <1>8 DEF FileAnswer, DocsInv, All
  <2>2. Written(FileOf[selected])
    BY <2>1, ConstantsAssumption DEF Written
  <2>3. \A w \in All : files'[w] # Blank => Written(files'[w])
    BY <1>0, <1>8, <2>1, <2>2 DEF FileAnswer, DocumentInv
  <2>4. Hydrate(selected, FileOf[selected]) /\ UNCHANGED saving
    BY <1>8 DEF FileAnswer
  <2> QED BY <1>0, <1>2, <2>2, <2>3, <2>4, HydrateKeeps, DisturbedCalls
<1>9. CASE ParseAnswer \/ ParseFails
  <2>1. yaml = Broken \/ IsDocument(yaml)
    BY <1>0, <1>9 DEF ParseAnswer, ParseFails, DocumentInv
  <2>2. UNCHANGED <<files, yaml, calls, saving, twisted>>
        /\ (UNCHANGED canvas \/ (yaml # Broken /\ canvas' = yaml))
    BY <1>9 DEF ParseAnswer, ParseFails
  <2>3. DocumentInv'
    BY <1>0, <2>1, <2>2 DEF DocumentInv
  <2>4. ResolvedInv'
    BY <1>0, <1>9, <2>2 DEF ParseAnswer, ParseFails, ResolvedInv, Resolved
  <2> QED BY <2>3, <2>4
<1>10. ASSUME NEW c \in calls, ParsedForEdit(c) PROVE DocumentInv' /\ ResolvedInv'
  <2>1. CASE calls' = calls \ {c}
    BY <1>1, <1>10, <2>1 DEF ParsedForEdit, draft
  <2>2. CASE /\ c.over # Broken
             /\ calls' = (calls \ {c}) \cup {Call(c, c.over, "serialize", c.disturbed)}
    <3> DEFINE d == Call(c, c.over, "serialize", c.disturbed)
    <3>1. d.edit = c.edit /\ d.over = c.over /\ d.base = c.over /\ d.phase = "serialize"
      BY DEF Call
    <3> HIDE DEF d
    <3>2. calls' = (calls \ {c}) \cup {d} /\ UNCHANGED <<files, yaml, canvas, saving, twisted>>
      BY <1>10, <2>2 DEF ParsedForEdit, draft, d
    <3>3. DocumentInv'
      BY <1>0, <2>2, <3>1, <3>2 DEF DocumentInv
    <3>4. ResolvedInv'
      BY <1>0, <2>2, <3>1, <3>2, ConstantsAssumption DEF DocumentInv, ResolvedInv, Resolved
    <3> QED BY <3>3, <3>4
  <2> QED BY <1>10, <2>1, <2>2 DEF ParsedForEdit
<1>11. ASSUME NEW c \in calls, SerializeFails(c) PROVE DocumentInv' /\ ResolvedInv'
  BY <1>1, <1>11 DEF SerializeFails, draft
<1>12. ASSUME NEW c \in calls, Serialized(c) PROVE DocumentInv' /\ ResolvedInv'
  <2> DEFINE doc == Result(c.base, c.edit)
  <2>1. IsDocument(c.base) /\ IsEdit(c.edit)
    BY <1>0, <1>12 DEF Serialized, DocumentInv
  <2>2. IsDocument(doc) /\ (Sound(c.base) /\ Harmless(c.base, c.edit) => Sound(doc))
    BY <2>1, ResultIs
  <2>3. /\ yaml' = doc /\ canvas' = doc /\ UNCHANGED <<files, saving>>
        /\ ~twisted' => ~twisted /\ Harmless(c.base, c.edit)
        /\ calls' = calls \ {c} \/ calls' = Disturbed(calls \ {c})
    BY <1>12 DEF Serialized, SetYaml
  <2> HIDE DEF doc
  <2>4. CallsInv(calls \ {c}) /\ (~twisted => CallsResolved(calls \ {c}) /\ Sound(c.base))
    BY <1>0, <1>12 DEF Serialized, CallsInv, CallsResolved
  <2>5. CallsInv(calls') /\ (~twisted => CallsResolved(calls'))
    BY <2>3, <2>4, DisturbedCalls
  <2>6. ~twisted' => Sound(c.base)
    BY <2>3, <2>4
  <2> QED BY <1>0, <1>2, <2>2, <2>3, <2>5, <2>6 DEF DocumentInv, Resolved
<1>13. CASE Saved
  <2> DEFINE shown == [id |-> saving.id, yaml |-> saving.yaml, of |-> saving.of, phase |-> "show"]
  <2>1. shown.yaml = saving.yaml
    OBVIOUS
  <2>2. /\ saving # Blank /\ saving' = shown
        /\ files' = [files EXCEPT ![saving.id] = saving.yaml]
        /\ UNCHANGED <<yaml, canvas, calls, twisted>>
    BY <1>13 DEF Saved
  <2> HIDE DEF shown
  <2>3. \A w \in All : files'[w] = files[w] \/ files'[w] = saving.yaml
    BY <2>2 DEF DocsInv
  <2>4. DocumentInv'
    BY <1>0, <2>1, <2>2, <2>3 DEF DocumentInv, Written
  <2>5. ResolvedInv'
    BY <1>0, <2>1, <2>2 DEF ResolvedInv
  <2> QED BY <2>4, <2>5
<1>14. CASE SaveFails
  BY <1>0, <1>2, <1>14 DEF SaveFails, draft, DocumentInv, ResolvedInv
<1>15. CASE ShowSaved
  <2>1. /\ saving # Blank /\ yaml' = saving.yaml /\ saving' = Blank
        /\ calls' = Disturbed(calls) /\ UNCHANGED <<files, canvas, twisted>>
    BY <1>15 DEF ShowSaved, SetYaml
  <2> QED BY <1>0, <1>2, <2>1, DisturbedCalls DEF DocumentInv, ResolvedInv, Written
<1>16. CASE UNCHANGED vars
  BY <1>1, <1>16 DEF vars, draft
<1> QED BY <1>3, <1>4, <1>5, <1>6, <1>7, <1>8, <1>9, <1>10, <1>11, <1>12, <1>13, <1>14, <1>15, <1>16
        DEF Next, User, Answers

\* A page that opens has no document.
LEMMA DocsInit == Init => DocsInv
BY ConstantsAssumption DEF Init, DocsInv, DocumentInv, ResolvedInv, Resolved, All

\* Through any sequence of edits no id is given twice and no step names one
\* that is not there, unless a file, a text or a draft did so itself
\* (createUniqueStepId, applyStepInspectorDraft, insertStepByType, removeStep,
\* connectStepToTarget).
THEOREM ReferencesResolveHolds == Spec => []ReferencesResolve
<1>1. DocsInv => ReferencesResolve
  BY DEF DocsInv, ResolvedInv, Resolved, ReferencesResolve
<1> QED BY OwnInit, OwnStep, DocsInit, DocsStep, <1>1, PTL DEF Spec

\* Whatever document an edit is made to, removing a step takes just it out of
\* the run of the engine, and inserting one splices it in.
THEOREM EditsKeepFlowHolds == Spec => []EditsKeepFlow
<1>1. DocsInv => EditsKeepFlow
  <2> SUFFICES ASSUME DocsInv, NEW c \in calls, c.phase = "serialize", Sound(c.base)
               PROVE /\ \A id \in IdsOf(c.base) :
                          c.edit.op = "remove" /\ c.edit.ids = {id}
                          /\ StepOf(c.base, id).next \notin {0, id} => Bypassed(c.base, id)
                     /\ c.edit.op = "insert" /\ c.edit.at \in IdsOf(c.base)
                          => Spliced(c.base, c.edit.type, c.edit.at)
    BY DEF EditsKeepFlow
  <2>1. IsDocument(c.base) /\ IsEdit(c.edit)
    BY DEF DocsInv, DocumentInv
  <2>2. c.edit.op = "insert" => c.edit.type \in Types
    BY <2>1 DEF IsEdit
  <2>3. \A id \in IdsOf(c.base) : StepOf(c.base, id).next \notin {0, id} => Bypassed(c.base, id)
    BY <2>1, RemovalBypasses
  <2>4. c.edit.op = "insert" /\ c.edit.at \in IdsOf(c.base)
          => Spliced(c.base, c.edit.type, c.edit.at)
    BY <2>1, <2>2, InsertionSplices
  <2> QED BY <2>3, <2>4
<1> QED BY OwnInit, OwnStep, DocsInit, DocsStep, <1>1, PTL DEF Spec

-----------------------------------------------------------------------------
(* Types.                                                                  *)

\* The marks are told from documents, as an error and a missing value are.
MarksAreNoDocuments == ~IsDocument(Broken) /\ ~IsDocument(Blank)

\* An edit under way knows the workflow it goes back to, and has a base unless
\* its text is still being parsed.
CallTyped(c) ==
    /\ c.of \in All /\ c.locked \in BOOLEAN /\ c.disturbed \in BOOLEAN
    /\ c.phase \in {"parse", "serialize"} /\ (c.phase = "parse") = (c.base = Blank)

ParseStatus == {"pending", "success", "error"}

\* A text or a canvas that is there goes back to a workflow.
FieldsInv ==
    /\ sourceKey \in All \cup {Blank} /\ parsed \in ParseStatus
    /\ {yamlOf, canvasOf} \subseteq All \cup {Blank}
    /\ yaml # Blank => yamlOf \in All
    /\ canvas # Blank => canvasOf \in All
    /\ \A c \in calls : CallTyped(c)
    /\ saving # Blank => saving.phase \in {"post", "show"} /\ saving.of \in All
    /\ crossed \in BOOLEAN /\ twisted \in BOOLEAN
    /\ edits \in 0..MaxEdits /\ acts \in 0..MaxActs

LEMMA FieldsInit == Init => FieldsInv
<1> SUFFICES ASSUME Init PROVE FieldsInv
  OBVIOUS
<1>1. 0 \in 0..MaxEdits /\ 0 \in 0..MaxActs
  BY ConstantsAssumption
<1> QED BY <1>1 DEF Init, FieldsInv, ParseStatus

LEMMA DisturbedTyped ==
  ASSUME NEW cs, \A c \in cs : CallTyped(c)
  PROVE \A d \in Disturbed(cs) : CallTyped(d)
<1> SUFFICES ASSUME NEW c \in cs PROVE CallTyped(Call(c, c.base, c.phase, TRUE))
  BY DEF Disturbed
<1>1. CallTyped(c)
  OBVIOUS
<1> DEFINE d == Call(c, c.base, c.phase, TRUE)
<1>2. d.of = c.of /\ d.locked = c.locked /\ d.disturbed = TRUE /\ d.phase = c.phase /\ d.base = c.base
  BY DEF Call
<1> HIDE DEF d
<1>3. CallTyped(d)
  BY <1>1, <1>2 DEF CallTyped
<1> QED BY <1>3 DEF d

LEMMA HydrateTyped ==
  ASSUME FieldsInv, NEW w \in All, NEW text, Hydrate(w, text)
  PROVE /\ sourceKey' \in All \cup {Blank} /\ parsed' \in ParseStatus
        /\ {yamlOf', canvasOf'} \subseteq All
        /\ \A c \in calls' : CallTyped(c)
        /\ twisted' \in BOOLEAN
<1>1. sourceKey' = w /\ yamlOf' = w /\ canvasOf' = w /\ calls' = Disturbed(calls)
  BY DEF Hydrate
<1>2. parsed' \in ParseStatus /\ twisted' \in BOOLEAN
  BY DEF Hydrate, SetYaml, FieldsInv, ParseStatus
<1>3. \A c \in calls' : CallTyped(c)
  BY <1>1, DisturbedTyped DEF FieldsInv
<1> QED BY <1>1, <1>2, <1>3

LEMMA StartTyped ==
  ASSUME FieldsInv, NEW edit, NEW locked \in BOOLEAN, Start(edit, locked)
  PROVE FieldsInv'
<1> DEFINE d == [edit |-> edit, over |-> yaml, base |-> canvas,
                 of |-> IF canvas = Blank THEN yamlOf ELSE canvasOf,
                 phase |-> IF canvas = Blank THEN "parse" ELSE "serialize",
                 locked |-> locked, disturbed |-> canvas \notin {Blank, yaml}]
<1>1. /\ d.base = canvas /\ d.locked = locked
      /\ d.of = IF canvas = Blank THEN yamlOf ELSE canvasOf
      /\ d.phase = IF canvas = Blank THEN "parse" ELSE "serialize"
  OBVIOUS
<1>2. d.disturbed \in BOOLEAN
  OBVIOUS
<1>3. /\ calls' = calls \cup {d} /\ yaml # Blank
      /\ UNCHANGED <<selected, files, sourceKey, yaml, canvas, parsed, yamlOf, canvasOf, saving,
                     crossed, twisted>>
  BY DEF Start, draft
<1>4. edits' \in 0..MaxEdits /\ acts' \in 0..MaxActs
  BY ConstantsAssumption DEF Start, Edited, Acted, FieldsInv
<1> HIDE DEF d
<1>5. CallTyped(d)
  BY <1>1, <1>2, <1>3 DEF CallTyped, FieldsInv
<1>6. \A c \in calls' : CallTyped(c)
  BY <1>3, <1>5 DEF FieldsInv
<1> QED BY <1>3, <1>4, <1>6 DEF FieldsInv

\* Every step keeps the types.
LEMMA FieldsStep ==
  ASSUME OwnInv, DocsInv, FieldsInv, [Next]_vars
  PROVE  FieldsInv'
<1>0. /\ sourceKey \in All \cup {Blank} /\ parsed \in ParseStatus /\ selected \in All
      /\ edits \in 0..MaxEdits /\ acts \in 0..MaxActs
      /\ \A c \in calls : CallTyped(c)
  BY DEF FieldsInv, OwnInv
<1>1. ASSUME acts < MaxActs, acts' = acts + 1 PROVE acts' \in 0..MaxActs
  BY <1>0, <1>1, ConstantsAssumption
<1>2. ASSUME edits < MaxEdits, edits' = edits + 1 PROVE edits' \in 0..MaxEdits
  BY <1>0, <1>2, ConstantsAssumption
<1>3. ASSUME NEW w \in All, Open(w) PROVE FieldsInv'
  <2>1. acts' \in 0..MaxActs /\ UNCHANGED <<saving, crossed, edits>>
    BY <1>1, <1>3 DEF Open, Acted
  <2>2. CASE files[w] # Blank /\ sourceKey # w
    <3>1. Hydrate(w, files[w])
      BY <1>3, <2>2 DEF Open
    <3> QED BY <2>1, <3>1, HydrateTyped DEF FieldsInv
  <2>3. CASE ~(files[w] # Blank /\ sourceKey # w)
    <3>1. UNCHANGED <<sourceKey, yaml, canvas, parsed, yamlOf, canvasOf, calls, twisted>>
      BY <1>3, <2>3 DEF Open
    <3> QED BY <2>1, <3>1 DEF FieldsInv
  <2> QED BY <2>2, <2>3
<1>4. ASSUME NEW text \in Typed, TypeYaml(text) PROVE FieldsInv'
  <2>1. /\ yaml # Blank /\ canvas' = Blank /\ calls' = Disturbed(calls)
        /\ UNCHANGED <<selected, files, sourceKey, yamlOf, canvasOf, saving, crossed>>
    BY <1>4 DEF TypeYaml
  <2>2. acts' \in 0..MaxActs /\ edits' \in 0..MaxEdits
    BY <1>1, <1>2, <1>4 DEF TypeYaml, Edited, Acted
  <2>3. parsed' \in ParseStatus /\ twisted' \in BOOLEAN
    BY <1>0, <1>4 DEF TypeYaml, SetYaml, ParseStatus
  <2>4. \A c \in calls' : CallTyped(c)
    BY <1>0, <2>1, DisturbedTyped
  <2> QED BY <2>1, <2>2, <2>3, <2>4 DEF FieldsInv
<1>5. ASSUME NEW edit \in PanelEdits, StepEdit(edit) PROVE FieldsInv'
  BY <1>5, StartTyped DEF StepEdit
<1>6. ASSUME NEW from \in ShownIds, NEW to \in ShownIds, DrawEdge(from, to) PROVE FieldsInv'
  BY <1>6, StartTyped DEF DrawEdge
<1>7. CASE Save
  <2> DEFINE made == [id |-> IF files[selected] = Blank THEN New ELSE selected,
                      yaml |-> yaml, of |-> yamlOf, phase |-> "post"]
  <2>1. made.of = yamlOf /\ made.phase = "post"
    OBVIOUS
  <2>2. saving' = made /\ yaml # Blank
        /\ UNCHANGED <<sourceKey, yaml, canvas, parsed, yamlOf, canvasOf, calls, crossed, twisted,
                       edits>>
    BY <1>7 DEF Save, draft
  <2>3. acts' \in 0..MaxActs
    BY <1>1, <1>7 DEF Save, Acted
  <2> HIDE DEF made
  <2> QED BY <2>1, <2>2, <2>3 DEF FieldsInv
<1>8. CASE FileAnswer
  <2>1. Hydrate(selected, FileOf[selected]) /\ UNCHANGED <<saving, crossed, edits, acts>>
    BY <1>8 DEF FileAnswer, bounds
  <2> QED BY <1>0, <2>1, HydrateTyped DEF FieldsInv
<1>9. CASE ParseAnswer \/ ParseFails
  <2>1. /\ yaml # Blank /\ parsed' \in ParseStatus
        /\ UNCHANGED <<canvas, canvasOf>> \/ canvasOf' = yamlOf
        /\ UNCHANGED <<sourceKey, yaml, yamlOf, calls, saving, crossed, twisted, edits, acts>>
    BY <1>9 DEF ParseAnswer, ParseFails, ParseStatus, bounds
  <2> QED BY <2>1 DEF FieldsInv
<1>10. ASSUME NEW c \in calls, ParsedForEdit(c) PROVE FieldsInv'
  <2>1. /\ c.phase = "parse"
        /\ \/ calls' = calls \ {c}
           \/ calls' = (calls \ {c}) \cup {Call(c, c.over, "serialize", c.disturbed)}
        /\ UNCHANGED <<sourceKey, yaml, canvas, parsed, yamlOf, canvasOf, saving, crossed, twisted,
                       edits, acts>>
    BY <1>10 DEF ParsedForEdit, draft, bounds
  <2> DEFINE d == Call(c, c.over, "serialize", c.disturbed)
  <2>2. /\ d.of = c.of /\ d.locked = c.locked /\ d.disturbed = c.disturbed
        /\ d.base = c.over /\ d.phase = "serialize"
    BY DEF Call
  <2>3. calls' = calls \ {c} \/ calls' = (calls \ {c}) \cup {d}
    BY <2>1
  <2> HIDE DEF d
  <2>4. c.over # Blank
    BY ConstantsAssumption DEF DocsInv, DocumentInv
  <2>5. CallTyped(d)
    BY <1>0, <2>2, <2>4 DEF CallTyped
  <2>6. \A e \in calls' : CallTyped(e)
    BY <1>0, <2>3, <2>5
  <2> QED BY <2>1, <2>6 DEF FieldsInv
<1>11. ASSUME NEW c \in calls, SerializeFails(c) PROVE FieldsInv'
  <2>1. /\ calls' = calls \ {c}
        /\ UNCHANGED <<sourceKey, yaml, canvas, parsed, yamlOf, canvasOf, saving, crossed, twisted,
                       edits, acts>>
    BY <1>11 DEF SerializeFails, draft, bounds
  <2> QED BY <2>1 DEF FieldsInv
<1>12. ASSUME NEW c \in calls, Serialized(c) PROVE FieldsInv'
  <2>1. /\ yamlOf' = c.of /\ canvasOf' = c.of
        /\ calls' = calls \ {c} \/ calls' = Disturbed(calls \ {c})
        /\ UNCHANGED <<sourceKey, saving, edits, acts>>
    BY <1>12 DEF Serialized, bounds
  <2>2. c.of \in All
    BY <1>0 DEF CallTyped
  <2>3. parsed' \in ParseStatus
    BY <1>0, <1>12 DEF Serialized, SetYaml, ParseStatus
  <2>4. crossed' \in BOOLEAN /\ twisted' \in BOOLEAN
    BY <1>12 DEF Serialized
  <2>5. \A e \in calls \ {c} : CallTyped(e)
    BY <1>0
  <2>6. \A e \in calls' : CallTyped(e)
    BY <2>1, <2>5, DisturbedTyped
  <2> QED BY <2>1, <2>2, <2>3, <2>4, <2>6 DEF FieldsInv
<1>13. CASE Saved
  <2> DEFINE shown == [id |-> saving.id, yaml |-> saving.yaml, of |-> saving.of, phase |-> "show"]
  <2>1. shown.of = saving.of /\ shown.phase = "show"
    OBVIOUS
  <2>2. /\ saving # Blank /\ saving' = shown
        /\ UNCHANGED <<sourceKey, yaml, canvas, parsed, yamlOf, canvasOf, calls, crossed, twisted,
                       edits, acts>>
    BY <1>13 DEF Saved, bounds
  <2> HIDE DEF shown
  <2> QED BY <2>1, <2>2 DEF FieldsInv
<1>14. CASE SaveFails
  BY <1>14 DEF SaveFails, draft, bounds, FieldsInv
<1>15. CASE ShowSaved
  <2>1. /\ saving # Blank /\ saving' = Blank /\ sourceKey' = saving.id /\ yamlOf' = saving.id
        /\ calls' = Disturbed(calls)
        /\ UNCHANGED <<canvas, canvasOf, crossed, twisted, edits, acts>>
    BY <1>15 DEF ShowSaved, bounds
  <2>2. saving.id \in All
    BY <2>1 DEF OwnInv
  <2>3. parsed' \in ParseStatus
    BY <1>0, <1>15 DEF ShowSaved, SetYaml, ParseStatus
  <2>4. \A e \in calls' : CallTyped(e)
    BY <1>0, <2>1, DisturbedTyped
  <2> QED BY <2>1, <2>2, <2>3, <2>4 DEF FieldsInv
<1>16. CASE UNCHANGED vars
  BY <1>16 DEF vars, draft, bounds, FieldsInv
<1> QED BY <1>3, <1>4, <1>5, <1>6, <1>7, <1>8, <1>9, <1>10, <1>11, <1>12, <1>13, <1>14, <1>15, <1>16
        DEF Next, User, Answers

\* Every variable keeps its type through any edits, switches, saves and answers;
\* what an answer brings back is told from a text that does not parse and from
\* no text (parseYamlQuery, applySerializedWorkflowDocument).
THEOREM TypeOKHolds ==
  ASSUME MarksAreNoDocuments
  PROVE  Spec => []TypeOK
<1>1. OwnInv /\ DocsInv /\ FieldsInv => TypeOK
  <2> SUFFICES ASSUME OwnInv, DocsInv, FieldsInv PROVE TypeOK
    OBVIOUS
  <2>1. IsText(yaml) /\ IsText(canvas) /\ canvas # Broken
    BY ConstantsAssumption DEF DocsInv, DocumentInv, IsText, MarksAreNoDocuments
  <2>2. \A w \in All : IsText(files[w])
    BY DEF DocsInv, DocumentInv, IsText, Written
  <2>3. ASSUME NEW c \in calls
        PROVE /\ IsEdit(c.edit) /\ IsText(c.over) /\ c.over # Blank /\ IsText(c.base)
              /\ c.phase \in {"parse", "serialize"} /\ c.base # Broken
              /\ (c.phase = "parse") = (c.base = Blank)
              /\ c.of \in All /\ c.locked \in BOOLEAN /\ c.disturbed \in BOOLEAN
    <3>1. CallTyped(c)
      BY DEF FieldsInv
    <3>2. IsEdit(c.edit) /\ IsText(c.over) /\ c.over # Blank
      BY ConstantsAssumption DEF DocsInv, DocumentInv, IsText
    <3>3. c.base = Blank \/ IsDocument(c.base)
      BY <3>1 DEF CallTyped, DocsInv, DocumentInv
    <3>4. IsText(c.base) /\ c.base # Broken
      BY <3>3, ConstantsAssumption DEF IsText, MarksAreNoDocuments
    <3> QED BY <3>1, <3>2, <3>4 DEF CallTyped
  <2>4. saving # Blank => /\ saving.id \in All /\ saving.phase \in {"post", "show"}
                          /\ IsText(saving.yaml) /\ saving.yaml # Blank /\ saving.of \in All
    BY DEF OwnInv, DocsInv, DocumentInv, FieldsInv, IsText, Written
  <2> QED BY <2>1, <2>2, <2>3, <2>4 DEF TypeOK, OwnInv, FieldsInv, ParseStatus
<1>2. OwnInv /\ DocsInv /\ FieldsInv /\ [Next]_vars => FieldsInv'
  BY FieldsStep
<1> QED BY OwnInit, OwnStep, DocsInit, DocsStep, FieldsInit, <1>1, <1>2, PTL DEF Spec
=============================================================================
