-------------------------- MODULE WorkflowDocument --------------------------
(***************************************************************************)
(* The edits the console's Studio makes to a workflow document, and the    *)
(* order in which the engine runs its steps.                               *)
(*                                                                         *)
(* Source: shared/studio/document.ts of the console, and GetNextStep of    *)
(* the engine's WorkflowDefinition.                                        *)
(*                                                                         *)
(* A document is its list of steps, as a function on a finite set of       *)
(* positions: the list order is the order of the positions, and a gap      *)
(* between two of them means nothing.  A step id is a positive number, for *)
(* the suffix that makes a name unique; 0 stands for no step.  Roles,      *)
(* parameters and the target role of a step are left out: no edit of the   *)
(* page decides anything by them.                                          *)
(***************************************************************************)
EXTENDS Naturals, FiniteSets

Labels == {"true", "false", "_default"}
Types == {"conditional", "switch", "other"}
Steps == [id : Nat \ {0}, type : Types, next : Nat, branches : [Labels -> Nat]]

IdsOf(doc) == {doc[p].id : p \in DOMAIN doc}
PositionsOf(doc, id) == {p \in DOMAIN doc : doc[p].id = id}
Following(doc, p) == {q \in DOMAIN doc : q > p}
Least(S) == CHOOSE p \in S : \A q \in S : p <= q
Greatest(S) == CHOOSE p \in S : \A q \in S : q <= p

\* findIndex: the first step of that id.
At(doc, id) == Least(PositionsOf(doc, id))
StepOf(doc, id) == doc[At(doc, id)]

-----------------------------------------------------------------------------
(* The edits.                                                              *)

\* A plausible bug: the suffix is the number of steps.
FreshIdByCount(doc) == Cardinality(DOMAIN doc) + 1

\* createUniqueStepId: the first suffix that no step has.
FreshId(doc) ==
    CHOOSE n \in 1..(Cardinality(DOMAIN doc) + 1) :
        n \notin IdsOf(doc) /\ \A m \in 1..(n - 1) : m \in IdsOf(doc)

\* The step with what it says of one step said of another.  A reference to 0
\* is a next of null, or a branch that is dropped.
Moved(target, from, to) == IF target = from THEN to ELSE target
\* A plausible bug: the branches keep what they say.
RedirectedNextOnly(step, from, to) ==
    [id |-> step.id, type |-> step.type, next |-> Moved(step.next, from, to),
     branches |-> step.branches]

Redirected(step, from, to) ==
    [id |-> step.id, type |-> step.type, next |-> Moved(step.next, from, to),
     branches |-> [l \in Labels |-> Moved(step.branches[l], from, to)]]
WithNext(step, next) ==
    [id |-> step.id, type |-> step.type, next |-> next, branches |-> step.branches]

\* applyStepInspectorDraft: the draft takes the place of every step of that
\* id, and the other steps follow its new name.  Nothing asks whether the name
\* is taken.
ApplyDraft(doc, id, draft) ==
    [p \in DOMAIN doc |->
        IF doc[p].id = id THEN draft ELSE Redirected(doc[p], id, draft.id)]

\* insertStepByType: behind the given step, which it takes the next of, or at
\* the end.
NewStep(doc, type, next) ==
    [id |-> FreshId(doc), type |-> type, next |-> next, branches |-> [l \in Labels |-> 0]]
InsertBehind(doc, p, step, next) ==
    [q \in {r \in DOMAIN doc : r <= p} \cup {p + 1} \cup {r + 1 : r \in Following(doc, p)} |->
        IF q < p THEN doc[q]
        ELSE IF q = p THEN WithNext(doc[p], next)
        ELSE IF q = p + 1 THEN step ELSE doc[q - 1]]
Insert(doc, type, after) ==
    IF after \in IdsOf(doc)
    THEN InsertBehind(doc, At(doc, after), NewStep(doc, type, StepOf(doc, after).next),
                      FreshId(doc))
    ELSE IF doc = << >> THEN [p \in {1} |-> NewStep(doc, type, 0)]
    ELSE LET last == Greatest(DOMAIN doc)
         IN  InsertBehind(doc, last, NewStep(doc, type, 0), doc[last].next)

\* removeStep: what named the step names its next step from now on.
Remove(doc, id) ==
    IF id \notin IdsOf(doc) THEN doc
    ELSE [p \in DOMAIN doc \ PositionsOf(doc, id) |->
             Redirected(doc[p], id, StepOf(doc, id).next)]

\* removeSteps: one after the other, in the order of the list.  Removals(...)[n]
\* is what is left when the positions up to n have been looked at.
Removals(doc, ids) ==
    LET left[n \in 0..Greatest(DOMAIN doc \cup {0})] ==
            IF n = 0 THEN doc
            ELSE IF n \in DOMAIN doc /\ doc[n].id \in ids
            THEN Remove(left[n - 1], doc[n].id)
            ELSE left[n - 1]
    IN  left
RemoveAll(doc, ids) == Removals(doc, ids)[Greatest(DOMAIN doc \cup {0})]

\* suggestBranchLabelForStep; "" where the code has null.
SuggestedLabel(step) ==
    CASE step.type = "switch" -> "_default"
      [] step.type = "conditional" ->
            IF step.branches["true"] # 0 /\ step.branches["false"] = 0 THEN "false" ELSE "true"
      [] OTHER -> ""

\* connectStepToTarget.
Connect(doc, from, to) ==
    IF from \notin IdsOf(doc) THEN doc
    ELSE LET label == SuggestedLabel(StepOf(doc, from))
         IN  [p \in DOMAIN doc |->
                IF doc[p].id # from THEN doc[p]
                ELSE IF label = "" THEN WithNext(doc[p], to)
                ELSE [id |-> from, type |-> doc[p].type, next |-> doc[p].next,
                      branches |-> [doc[p].branches EXCEPT ![label] = to]]]

-----------------------------------------------------------------------------
(* What the engine does with a document.                                   *)

\* GetNextStep: the branch the step took ("" for none), the default branch,
\* the next step it names, and the following one if it names none.  0 ends the
\* run.
Present(doc, id) == IF id \in IdsOf(doc) THEN id ELSE 0
InOrder(doc, id) ==
    LET step == StepOf(doc, id)
        behind == Following(doc, At(doc, id))
    IN  IF step.next # 0 THEN Present(doc, step.next)
        ELSE IF behind = {} THEN 0 ELSE doc[Least(behind)].id
BranchTarget(doc, id, label) ==
    IF label = "" THEN 0
    ELSE LET branches == StepOf(doc, id).branches
         IN  IF branches[label] \in IdsOf(doc) THEN branches[label]
             ELSE Present(doc, branches["_default"])
Successor(doc, id, label) ==
    IF BranchTarget(doc, id, label) # 0 THEN BranchTarget(doc, id, label)
    ELSE InOrder(doc, id)

-----------------------------------------------------------------------------
(* What a document should be, and when an edit keeps it so.                *)

IsDocument(doc) ==
    /\ IsFiniteSet(DOMAIN doc) /\ DOMAIN doc \subseteq Nat \ {0}
    /\ doc \in [DOMAIN doc -> Steps]

UniqueIds(doc) == \A p, q \in DOMAIN doc : doc[p].id = doc[q].id => p = q
Targets(step) == {step.next} \cup {step.branches[l] : l \in Labels}
Closed(doc) == \A p \in DOMAIN doc : Targets(doc[p]) \subseteq IdsOf(doc) \cup {0}
Sound(doc) == UniqueIds(doc) /\ Closed(doc)

\* The step is reached only because it follows in the list.
FallsThroughTo(doc, id, to) ==
    StepOf(doc, id).next = 0 /\ InOrder(doc, id) = to

\* A removed step is bypassed: what ran it runs its next step instead, and
\* nothing else changes.
Bypassed(doc, id) ==
    LET next == StepOf(doc, id).next
        left == Remove(doc, id)
    IN  \A s \in IdsOf(doc) \ {id}, label \in Labels \cup {""} :
            ~FallsThroughTo(doc, s, id) =>
                Successor(left, s, label) = Moved(Successor(doc, s, label), id, next)

\* An inserted step is spliced in: it runs where the step before it led, and
\* nothing else changes.
Spliced(doc, type, after) ==
    LET new == FreshId(doc)
        grown == Insert(doc, type, after)
    IN  /\ InOrder(grown, after) = new
        /\ InOrder(grown, new) = InOrder(doc, after)
        /\ \A s \in IdsOf(doc), label \in Labels \cup {""} :
              /\ BranchTarget(grown, s, label) = BranchTarget(doc, s, label)
              /\ s # after => InOrder(grown, s) = InOrder(doc, s)
=============================================================================
