----------------------- MODULE WorkflowDocumentProofs -----------------------
(***************************************************************************)
(* What the edits of a workflow document do to every document: they give   *)
(* no id twice and leave no reference behind, a removed step is bypassed   *)
(* and an inserted one is spliced into the run.                            *)
(*                                                                         *)
(* Induction is on sets of numbers, through their least element.  A record *)
(* or a map of documents that several facts speak of gets a name of its    *)
(* own, which a proof expands only where it reads the fields.              *)
(***************************************************************************)
EXTENDS WorkflowDocument, TLAPS, FiniteSetTheorems, NaturalsInduction, WellFoundedInduction

-----------------------------------------------------------------------------
(* Numbers.                                                                *)

\* A set of numbers has a least element.
LEMMA LeastElement ==
  ASSUME NEW T, T \subseteq Nat, T # {}
  PROVE \E x \in T : \A y \in T : x <= y
<1> DEFINE R == OpToRel(<, Nat)
<1>1. IsWellFoundedOn(R, Nat)
  BY NatLessThanWellFounded
<1>2. \A a, b \in Nat : a < b => <<a, b>> \in R
  BY DEF OpToRel
<1> HIDE DEF R
<1>3. PICK x \in T : \A y \in T : ~(<<y, x>> \in R)
  BY <1>1, WFMin
<1>4. \A y \in T : ~(y < x)
  BY <1>2, <1>3
<1> QED BY <1>3, <1>4

\* Least is the least element.
LEMMA LeastIs ==
  ASSUME NEW S, S \subseteq Nat, S # {}
  PROVE Least(S) \in S /\ \A q \in S : Least(S) <= q
BY LeastElement DEF Least

\* A finite set of numbers is bounded.
LEMMA FiniteIsBounded ==
  ASSUME NEW S, S \subseteq Nat, IsFiniteSet(S)
  PROVE \E m \in Nat : \A s \in S : s <= m
<1> DEFINE n == Cardinality(S)
<1>1. n \in Nat /\ ExistsBijection(1..n, S)
  BY FS_CardinalityType
<1>2. PICK f \in [1..n -> S] : \A s \in S : \E i \in 1..n : f[i] = s
  BY <1>1 DEF ExistsBijection, Bijection, Injection, Surjection
<1> HIDE DEF n
<1>3. f \in [1..n -> Nat]
  BY <1>2
<1> DEFINE Bounded(k) == \E m \in Nat : \A i \in 1..k : f[i] <= m
           Bad == {k \in 0..n : ~Bounded(k)}
<1>4. Bounded(0)
  OBVIOUS
<1>5. \A k \in 1..n : Bounded(k - 1) => Bounded(k)
  <2> SUFFICES ASSUME NEW k \in 1..n, Bounded(k - 1) PROVE Bounded(k)
    OBVIOUS
  <2>1. PICK m \in Nat : \A i \in 1..(k - 1) : f[i] <= m
    OBVIOUS
  <2>2. f[k] \in Nat
    BY <1>3
  <2>3. PICK b \in Nat : m <= b /\ f[k] <= b
    BY <2>2
  <2>4. \A i \in 1..k : f[i] \in Nat /\ (i = k \/ i \in 1..(k - 1))
    BY <1>1, <1>3
  <2>5. \A i \in 1..k : f[i] <= b
    BY <2>1, <2>3, <2>4
  <2> QED BY <2>5
<1> HIDE DEF Bounded
<1>6. Bad = {}
  <2> SUFFICES ASSUME Bad # {} PROVE FALSE
    OBVIOUS
  <2>1. Bad \subseteq Nat
    BY <1>1
  <2>2. PICK k \in Bad : \A j \in Bad : k <= j
    BY <2>1, LeastElement
  <2>3. k \in 1..n /\ k - 1 \in 0..n /\ ~(k <= k - 1)
    BY <1>1, <1>4, <2>2
  <2> QED BY <1>5, <2>2, <2>3
<1>7. Bounded(n)
  BY <1>1, <1>6
<1>8. PICK m \in Nat : \A i \in 1..n : f[i] <= m
  BY <1>7 DEF Bounded
<1> QED BY <1>2, <1>8

\* Greatest is the greatest element.
LEMMA GreatestIs ==
  ASSUME NEW S, S \subseteq Nat, IsFiniteSet(S), S # {}
  PROVE Greatest(S) \in S /\ \A q \in S : q <= Greatest(S)
<1> DEFINE Bounds == {m \in Nat : \A s \in S : s <= m}
<1>1. Bounds # {} /\ Bounds \subseteq Nat
  BY FiniteIsBounded
<1>2. PICK m \in Bounds : \A b \in Bounds : m <= b
  BY <1>1, LeastElement
<1>3. m \in S
  <2> SUFFICES ASSUME m \notin S PROVE FALSE
    OBVIOUS
  <2>0. m \in Nat /\ \A s \in S : s \in Nat /\ s <= m /\ s # m
    BY <1>2
  <2>a. PICK s \in S : s \in Nat /\ s <= m /\ s # m
    BY <2>0
  <2>b. m # 0
    BY <2>0, <2>a
  <2>1. m # 0 /\ \A t \in S : t <= m - 1
    BY <2>0, <2>b
  <2>2. m - 1 \in Bounds
    BY <1>2, <2>1
  <2> QED BY <1>2, <2>2
<1>4. \A s \in S : s <= m
  BY <1>2
<1> QED BY <1>3, <1>4 DEF Greatest

\* createUniqueStepId finds an id no step has: among one more candidates than
\* there are steps one is free.
THEOREM FreshIdIsFresh ==
  ASSUME NEW doc, IsDocument(doc)
  PROVE FreshId(doc) \in Nat \ {0} /\ FreshId(doc) \notin IdsOf(doc)
<1> DEFINE D == DOMAIN doc
           n == Cardinality(D)
           idOf == [p \in D |-> doc[p].id]
           Free == {i \in 1..(n + 1) : i \notin IdsOf(doc)}
<1>1. IsFiniteSet(D) /\ n \in Nat
  BY FS_CardinalityType DEF IsDocument
<1>2. idOf \in Surjection(D, IdsOf(doc))
  BY DEF Surjection, IdsOf
<1>3. IsFiniteSet(IdsOf(doc)) /\ Cardinality(IdsOf(doc)) <= n
  BY <1>1, <1>2, FS_Surjection
<1>4. Cardinality(IdsOf(doc)) \in Nat
  BY <1>3, FS_CardinalityType
<1>5. Cardinality(1..(n + 1)) = n + 1
  BY <1>1, FS_Interval
<1> HIDE DEF D, n, idOf
<1>6. Free # {}
  <2> SUFFICES ASSUME Free = {} PROVE FALSE
    OBVIOUS
  <2> DEFINE I == 1..(n + 1)
  <2>1. I \in SUBSET IdsOf(doc)
    OBVIOUS
  <2> HIDE DEF I
  <2>2. Cardinality(I) <= Cardinality(IdsOf(doc))
    BY <1>3, <2>1, FS_Subset
  <2>3. n + 1 <= Cardinality(IdsOf(doc))
    BY <1>5, <2>2 DEF I
  <2> QED BY <1>1, <1>3, <1>4, <2>3
<1>0. Free \subseteq Nat
  BY <1>1
<1>7. PICK i \in Free : \A j \in Free : i <= j
  BY <1>0, <1>6, LeastElement
<1>8. i \in 1..(n + 1) /\ i \notin IdsOf(doc) /\ \A m \in 1..(i - 1) : m \in IdsOf(doc)
  BY <1>1, <1>7
<1>9. FreshId(doc) \in 1..(n + 1) /\ FreshId(doc) \notin IdsOf(doc)
  BY <1>8 DEF FreshId, n, D
<1> QED BY <1>1, <1>9

-----------------------------------------------------------------------------
(* Steps and documents.                                                    *)

\* The fields of a step.
LEMMA StepFields ==
  ASSUME NEW step \in Steps
  PROVE /\ step.id \in Nat \ {0} /\ step.type \in Types /\ step.next \in Nat
        /\ step.branches \in [Labels -> Nat]
BY DEF Steps

\* A step is made of its fields.
LEMMA StepMade ==
  ASSUME NEW id \in Nat \ {0}, NEW type \in Types, NEW next \in Nat,
         NEW branches \in [Labels -> Nat]
  PROVE [id |-> id, type |-> type, next |-> next, branches |-> branches] \in Steps
BY DEF Steps

\* The targets of a step, one by one.
LEMMA TargetsWithin ==
  ASSUME NEW step, NEW S
  PROVE Targets(step) \subseteq S <=> step.next \in S /\ \A l \in Labels : step.branches[l] \in S
BY DEF Targets

\* A redirected step is the same step with its targets moved.
LEMMA RedirectedIs ==
  ASSUME NEW step \in Steps, NEW from \in Nat, NEW to \in Nat
  PROVE LET moved == Redirected(step, from, to)
        IN  /\ moved \in Steps /\ moved.id = step.id /\ moved.type = step.type
            /\ moved.next = Moved(step.next, from, to)
            /\ \A l \in Labels : moved.branches[l] = Moved(step.branches[l], from, to)
<1> DEFINE branches == [l \in Labels |-> Moved(step.branches[l], from, to)]
<1>1. /\ Moved(step.next, from, to) \in Nat
      /\ \A l \in Labels : Moved(step.branches[l], from, to) \in Nat
  BY StepFields DEF Moved
<1>2. /\ branches \in [Labels -> Nat]
      /\ \A l \in Labels : branches[l] = Moved(step.branches[l], from, to)
  BY <1>1
<1> HIDE DEF branches
<1>3. Redirected(step, from, to) =
        [id |-> step.id, type |-> step.type, next |-> Moved(step.next, from, to),
         branches |-> branches]
  BY DEF Redirected, branches
<1>4. Redirected(step, from, to) \in Steps
  BY <1>1, <1>2, <1>3, StepFields, StepMade
<1> QED BY <1>2, <1>3, <1>4

\* Redirecting keeps the targets within a set that may lose from.
LEMMA RedirectedWithin ==
  ASSUME NEW step \in Steps, NEW from \in Nat, NEW to \in Nat, NEW S, NEW T,
         Targets(step) \subseteq S, S \ {from} \subseteq T, to \in T
  PROVE Targets(Redirected(step, from, to)) \subseteq T
<1>1. step.next \in S /\ \A l \in Labels : step.branches[l] \in S
  BY TargetsWithin
<1>2. Moved(step.next, from, to) \in T /\ \A l \in Labels : Moved(step.branches[l], from, to) \in T
  BY <1>1 DEF Moved
<1> DEFINE moved == Redirected(step, from, to)
<1>3. moved.next \in T /\ \A l \in Labels : moved.branches[l] \in T
  BY <1>2, RedirectedIs
<1> HIDE DEF moved
<1>4. Targets(moved) \subseteq T
  BY <1>3, TargetsWithin
<1> QED BY <1>4 DEF moved

\* A step told its next step changes in nothing else.
LEMMA WithNextIs ==
  ASSUME NEW step \in Steps, NEW next \in Nat
  PROVE LET told == WithNext(step, next)
        IN  /\ told \in Steps /\ told.id = step.id /\ told.type = step.type
            /\ told.next = next /\ told.branches = step.branches
BY StepFields, StepMade DEF WithNext

\* A position of a document holds a step.
LEMMA StepAt ==
  ASSUME NEW doc, IsDocument(doc), NEW p \in DOMAIN doc
  PROVE /\ p \in Nat \ {0} /\ doc[p] \in Steps /\ doc[p].id \in IdsOf(doc)
        /\ doc[p].id \in Nat \ {0}
BY StepFields DEF IsDocument, IdsOf

\* An id of the document is that of the step found for it.
LEMMA AtIs ==
  ASSUME NEW doc, IsDocument(doc), NEW id \in IdsOf(doc)
  PROVE /\ At(doc, id) \in DOMAIN doc /\ doc[At(doc, id)].id = id
        /\ StepOf(doc, id) = doc[At(doc, id)] /\ StepOf(doc, id) \in Steps
        /\ id \in Nat \ {0}
<1>1. PositionsOf(doc, id) # {} /\ PositionsOf(doc, id) \subseteq Nat
  BY DEF PositionsOf, IdsOf, IsDocument
<1>2. At(doc, id) \in PositionsOf(doc, id)
  BY <1>1, LeastIs DEF At
<1> QED BY <1>2, StepAt DEF PositionsOf, StepOf

\* With unique ids, the position of a step is where its id is found.
LEMMA AtUnique ==
  ASSUME NEW doc, IsDocument(doc), UniqueIds(doc), NEW p \in DOMAIN doc
  PROVE /\ At(doc, doc[p].id) = p /\ StepOf(doc, doc[p].id) = doc[p]
        /\ PositionsOf(doc, doc[p].id) = {p}
<1>1. doc[p].id \in IdsOf(doc)
  BY StepAt
<1>2. At(doc, doc[p].id) = p
  BY <1>1, AtIs DEF UniqueIds
<1> QED BY <1>2 DEF StepOf, PositionsOf, UniqueIds

\* What a map of the positions makes of a document is one.
LEMMA DocumentMade ==
  ASSUME NEW doc, IsDocument(doc), NEW P, P \subseteq DOMAIN doc, NEW f,
         f \in [P -> Steps]
  PROVE IsDocument(f)
<1>1. IsFiniteSet(P)
  BY FS_Subset DEF IsDocument
<1> QED BY <1>1 DEF IsDocument

\* Steps at positions below a bound are a document.
LEMMA DocumentBounded ==
  ASSUME NEW P, P \subseteq Nat \ {0}, NEW m \in Nat, \A p \in P : p <= m, NEW f \in [P -> Steps]
  PROVE IsDocument(f)
<1>1. IsFiniteSet(P)
  BY FS_BoundedSetOfNaturals
<1> QED BY <1>1 DEF IsDocument

\* The positions of a document are bounded.
LEMMA DocumentBound ==
  ASSUME NEW doc, IsDocument(doc)
  PROVE \E m \in Nat : \A p \in DOMAIN doc : p <= m
<1>1. DOMAIN doc \subseteq Nat /\ IsFiniteSet(DOMAIN doc)
  BY DEF IsDocument
<1> QED BY <1>1, FiniteIsBounded

-----------------------------------------------------------------------------
(* removeStep.                                                             *)

\* The document without the step at position p, step by step.
IsWithout(doc, p, left) ==
    /\ IsDocument(left) /\ UniqueIds(left)
    /\ DOMAIN left = DOMAIN doc \ {p}
    /\ \A q \in DOMAIN doc \ {p} :
          left[q] = Redirected(doc[q], doc[p].id, doc[p].next) /\ left[q].id = doc[q].id
    /\ IdsOf(left) = IdsOf(doc) \ {doc[p].id}

\* removeStep takes the one step of that id out and redirects the others.
LEMMA RemoveIs ==
  ASSUME NEW doc, IsDocument(doc), UniqueIds(doc), NEW p \in DOMAIN doc
  PROVE IsWithout(doc, p, Remove(doc, doc[p].id))
<1> DEFINE id == doc[p].id
           next == doc[p].next
           D == DOMAIN doc \ {p}
           left == [q \in D |-> Redirected(doc[q], id, next)]
<1>1. id \in IdsOf(doc) /\ id \in Nat \ {0} /\ next \in Nat
  BY StepAt, StepFields
<1>2. Remove(doc, id) = left
  BY <1>1, AtUnique DEF Remove
<1>3. \A q \in D : doc[q] \in Steps /\ Redirected(doc[q], id, next) \in Steps
                   /\ Redirected(doc[q], id, next).id = doc[q].id
  <2> SUFFICES ASSUME NEW q \in DOMAIN doc
               PROVE doc[q] \in Steps /\ Redirected(doc[q], id, next) \in Steps
                     /\ Redirected(doc[q], id, next).id = doc[q].id
    OBVIOUS
  <2>1. doc[q] \in Steps
    BY StepAt
  <2> HIDE DEF id, next
  <2> QED BY <1>1, <2>1, RedirectedIs
<1>4. left \in [D -> Steps] /\ DOMAIN left = D
      /\ \A q \in D : left[q] = Redirected(doc[q], id, next) /\ left[q].id = doc[q].id
  BY <1>3
<1> HIDE DEF left, next
<1>5. IsDocument(left)
  BY <1>4, DocumentMade
<1>6. UniqueIds(left)
  BY <1>4 DEF UniqueIds
<1>7. IdsOf(left) = {doc[q].id : q \in D}
  BY <1>4 DEF IdsOf
<1>8. IdsOf(left) = IdsOf(doc) \ {id}
  BY <1>7 DEF IdsOf, UniqueIds
<1> QED BY <1>2, <1>4, <1>5, <1>6, <1>8 DEF next, IsWithout

\* removeStep leaves no reference behind, unless the step names itself.
LEMMA RemoveKeepsSound ==
  ASSUME NEW doc, IsDocument(doc), Sound(doc), NEW p \in DOMAIN doc, doc[p].next # doc[p].id
  PROVE Sound(Remove(doc, doc[p].id))
<1> DEFINE id == doc[p].id
           next == doc[p].next
           left == Remove(doc, id)
           S == IdsOf(doc) \cup {0}
           T == IdsOf(left) \cup {0}
<1>1. UniqueIds(doc) /\ Closed(doc)
  BY DEF Sound
<1>2. /\ UniqueIds(left) /\ DOMAIN left = DOMAIN doc \ {p}
      /\ \A q \in DOMAIN left : q \in DOMAIN doc /\ left[q] = Redirected(doc[q], id, next)
      /\ IdsOf(left) = IdsOf(doc) \ {id}
  BY <1>1, RemoveIs DEF IsWithout
<1>3. id \in Nat /\ next \in Nat /\ \A q \in DOMAIN doc : doc[q] \in Steps
  BY StepAt, StepFields
<1>4. \A q \in DOMAIN doc : Targets(doc[q]) \subseteq S
  BY <1>1 DEF Closed
<1>5. next \in S
  BY <1>4, TargetsWithin
<1>6. S \ {id} \subseteq T /\ next \in T
  BY <1>2, <1>5
<1> HIDE DEF id, next, left, S, T
<1>7. \A q \in DOMAIN left : Targets(left[q]) \subseteq T
  BY <1>2, <1>3, <1>4, <1>6, RedirectedWithin
<1> QED BY <1>2, <1>7 DEF Closed, Sound, T, left, id

-----------------------------------------------------------------------------
(* applyStepInspectorDraft and connectStepToTarget.                        *)

\* Redirecting what no target names keeps the targets.
LEMMA RedirectedIdle ==
  ASSUME NEW step \in Steps, NEW from \in Nat, NEW to \in Nat, NEW S,
         Targets(step) \subseteq S, from \notin S
  PROVE Targets(Redirected(step, from, to)) \subseteq S
<1>1. step.next \in S /\ \A l \in Labels : step.branches[l] \in S
  BY TargetsWithin
<1>2. Moved(step.next, from, to) \in S /\ \A l \in Labels : Moved(step.branches[l], from, to) \in S
  BY <1>1 DEF Moved
<1> DEFINE moved == Redirected(step, from, to)
<1>3. moved.next \in S /\ \A l \in Labels : moved.branches[l] \in S
  BY <1>2, RedirectedIs
<1> HIDE DEF moved
<1>4. Targets(moved) \subseteq S
  BY <1>3, TargetsWithin
<1> QED BY <1>4 DEF moved

\* applyStepInspectorDraft, step by step.
LEMMA ApplyIs ==
  ASSUME NEW doc, IsDocument(doc), NEW id \in Nat, NEW draft \in Steps
  PROVE LET new == ApplyDraft(doc, id, draft)
        IN  /\ IsDocument(new) /\ DOMAIN new = DOMAIN doc
            /\ \A p \in DOMAIN doc :
                  /\ doc[p].id = id => new[p] = draft
                  /\ doc[p].id # id => /\ new[p] = Redirected(doc[p], id, draft.id)
                                       /\ new[p].id = doc[p].id
<1> DEFINE new == ApplyDraft(doc, id, draft)
<1>1. \A p \in DOMAIN doc : Redirected(doc[p], id, draft.id) \in Steps
                            /\ Redirected(doc[p], id, draft.id).id = doc[p].id
  <2>1. draft.id \in Nat /\ \A p \in DOMAIN doc : doc[p] \in Steps
    BY StepAt, StepFields
  <2> QED BY <2>1, RedirectedIs
<1>2. new \in [DOMAIN doc -> Steps]
  BY <1>1 DEF ApplyDraft
<1>3. \A p \in DOMAIN doc :
        new[p] = IF doc[p].id = id THEN draft ELSE Redirected(doc[p], id, draft.id)
  BY DEF ApplyDraft
<1> HIDE DEF new
<1>4. IsDocument(new)
  BY <1>2, DocumentMade
<1> QED BY <1>1, <1>2, <1>3, <1>4 DEF new

\* A step is renamed with everything that names it, if the name is free.
THEOREM ApplyKeepsSound ==
  ASSUME NEW doc, IsDocument(doc), Sound(doc), NEW id \in Nat \ {0}, NEW draft \in Steps,
         draft.id \notin IdsOf(doc) \ {id},
         Targets(draft) \subseteq (IdsOf(doc) \ {id}) \cup {0} \cup {draft.id}
  PROVE Sound(ApplyDraft(doc, id, draft))
<1> DEFINE new == ApplyDraft(doc, id, draft)
           S == IdsOf(doc) \cup {0}
           T == IdsOf(new) \cup {0}
<1>1. /\ DOMAIN new = DOMAIN doc
      /\ \A p \in DOMAIN doc :
            /\ doc[p].id = id => new[p] = draft
            /\ doc[p].id # id => new[p] = Redirected(doc[p], id, draft.id) /\ new[p].id = doc[p].id
  BY ApplyIs
<1>2. draft.id \in Nat /\ \A p \in DOMAIN doc : doc[p] \in Steps /\ doc[p].id \in IdsOf(doc)
  BY StepAt, StepFields
<1>3. \A p \in DOMAIN doc : Targets(doc[p]) \subseteq S
  BY DEF Sound, Closed
<1> HIDE DEF new
<1>4. UniqueIds(new)
  BY <1>1, <1>2 DEF UniqueIds, Sound
<1>5. IdsOf(doc) \ {id} \subseteq IdsOf(new)
  BY <1>1 DEF IdsOf
<1>6. CASE id \in IdsOf(doc)
  <2>1. draft.id \in IdsOf(new)
    BY <1>1, <1>6 DEF IdsOf
  <2>2. S \ {id} \subseteq T /\ draft.id \in T /\ Targets(draft) \subseteq T
    BY <1>5, <2>1
  <2> HIDE DEF S, T
  <2>3. \A p \in DOMAIN doc : Targets(new[p]) \subseteq T
    BY <1>1, <1>2, <1>3, <2>2, RedirectedWithin
  <2> QED BY <1>1, <1>4, <2>3 DEF Sound, Closed, T, new
<1>7. CASE id \notin IdsOf(doc)
  <2>1. S \subseteq T /\ id \notin S
    BY <1>5, <1>7
  <2> HIDE DEF S, T
  <2>2. \A p \in DOMAIN doc : Targets(new[p]) \subseteq S
    BY <1>1, <1>2, <1>3, <1>7, <2>1, RedirectedIdle
  <2>3. \A p \in DOMAIN doc : Targets(new[p]) \subseteq T
    BY <2>1, <2>2
  <2> QED BY <1>1, <1>4, <2>3 DEF Sound, Closed, T, new
<1> QED BY <1>6, <1>7

\* What connectStepToTarget makes of the step an edge starts from.
Connected(step, label, to) ==
    IF label = "" THEN WithNext(step, to)
    ELSE [id |-> step.id, type |-> step.type, next |-> step.next,
          branches |-> [step.branches EXCEPT ![label] = to]]

\* Drawing an edge makes one more target of the step it starts from.
LEMMA ConnectedIs ==
  ASSUME NEW step \in Steps, NEW label \in Labels \cup {""}, NEW to \in Nat
  PROVE /\ Connected(step, label, to) \in Steps /\ Connected(step, label, to).id = step.id
        /\ \A S : Targets(step) \subseteq S /\ to \in S
             => Targets(Connected(step, label, to)) \subseteq S
<1>1. CASE label = ""
  <2> DEFINE told == WithNext(step, to)
  <2>1. Connected(step, label, to) = told
    BY <1>1 DEF Connected
  <2>2. told \in Steps /\ told.id = step.id /\ told.next = to /\ told.branches = step.branches
    BY WithNextIs
  <2> HIDE DEF told
  <2>3. ASSUME NEW S, Targets(step) \subseteq S, to \in S PROVE Targets(told) \subseteq S
    <3>1. told.next \in S /\ \A l \in Labels : told.branches[l] \in S
      BY <2>2, <2>3, TargetsWithin
    <3> QED BY <3>1, TargetsWithin
  <2> QED BY <2>1, <2>2, <2>3
<1>2. CASE label \in Labels
  <2> DEFINE branches == [step.branches EXCEPT ![label] = to]
             made == [id |-> step.id, type |-> step.type, next |-> step.next, branches |-> branches]
  <2>1. step.branches \in [Labels -> Nat]
    BY StepFields
  <2>2. branches \in [Labels -> Nat]
        /\ \A l \in Labels : branches[l] = IF l = label THEN to ELSE step.branches[l]
    BY <1>2, <2>1
  <2>3. label # ""
    BY <1>2 DEF Labels
  <2>4. Connected(step, label, to) = made
    BY <2>3 DEF Connected
  <2> HIDE DEF branches
  <2>5. made \in Steps
    BY <2>2, StepFields, StepMade
  <2>6. made.id = step.id /\ made.next = step.next /\ made.branches = branches
    OBVIOUS
  <2> HIDE DEF made
  <2>7. ASSUME NEW S, Targets(step) \subseteq S, to \in S PROVE Targets(made) \subseteq S
    <3>1. step.next \in S /\ \A l \in Labels : step.branches[l] \in S
      BY <2>7, TargetsWithin
    <3>2. made.next \in S /\ \A l \in Labels : made.branches[l] \in S
      BY <2>2, <2>6, <2>7, <3>1
    <3> QED BY <3>2, TargetsWithin
  <2> QED BY <2>4, <2>5, <2>6, <2>7
<1> QED BY <1>1, <1>2

\* connectStepToTarget keeps the references when the target is a step.
LEMMA ConnectIs ==
  ASSUME NEW doc, IsDocument(doc), NEW from, NEW to \in Nat
  PROVE /\ IsDocument(Connect(doc, from, to))
        /\ Sound(doc) /\ to \in IdsOf(doc) => Sound(Connect(doc, from, to))
<1>1. CASE from \notin IdsOf(doc)
  BY <1>1 DEF Connect
<1>2. CASE from \in IdsOf(doc)
  <2> DEFINE label == SuggestedLabel(StepOf(doc, from))
             new == [p \in DOMAIN doc |-> IF doc[p].id # from THEN doc[p]
                                          ELSE Connected(doc[p], label, to)]
  <2>1. label \in Labels \cup {""}
    BY DEF SuggestedLabel, Labels
  <2> HIDE DEF label
  <2>2. Connect(doc, from, to) = new
    BY <1>2 DEF Connect, Connected, label
  <2>3. \A p \in DOMAIN doc : /\ doc[p] \in Steps
                              /\ Connected(doc[p], label, to) \in Steps
                              /\ Connected(doc[p], label, to).id = doc[p].id
    BY <2>1, StepAt, ConnectedIs
  <2>4. /\ new \in [DOMAIN doc -> Steps] /\ DOMAIN new = DOMAIN doc
        /\ \A p \in DOMAIN doc : new[p].id = doc[p].id
        /\ \A p \in DOMAIN doc : new[p] = doc[p] \/ new[p] = Connected(doc[p], label, to)
    BY <2>3
  <2> HIDE DEF new
  <2>5. IsDocument(new)
    BY <2>4, DocumentMade
  <2>6. IdsOf(new) = IdsOf(doc)
    BY <2>4 DEF IdsOf
  <2>7. ASSUME Sound(doc), to \in IdsOf(doc) PROVE Sound(new)
    <3> DEFINE S == IdsOf(doc) \cup {0}
    <3>1. \A p \in DOMAIN doc : Targets(doc[p]) \subseteq S
      BY <2>7 DEF Sound, Closed
    <3>2. to \in S
      BY <2>7
    <3> HIDE DEF S
    <3>3. \A p \in DOMAIN doc : Targets(Connected(doc[p], label, to)) \subseteq S
      BY <2>1, <2>3, <3>1, <3>2, ConnectedIs
    <3>4. \A p \in DOMAIN new : Targets(new[p]) \subseteq S
      BY <2>4, <3>1, <3>3
    <3>5. UniqueIds(new)
      BY <2>4, <2>7 DEF UniqueIds, Sound
    <3> QED BY <2>6, <3>4, <3>5 DEF Sound, Closed, S
  <2> QED BY <2>2, <2>5, <2>7
<1> QED BY <1>1, <1>2

-----------------------------------------------------------------------------
(* insertStepByType.                                                       *)

\* Where a step is after one was inserted behind position p.
Shifted(p, q) == IF q <= p THEN q ELSE q + 1

\* The document with the step behind position p, step by step.
HasBehind(doc, p, step, next, grown) ==
    /\ IsDocument(grown)
    /\ p + 1 \in DOMAIN grown /\ grown[p + 1] = step
    /\ \A q \in DOMAIN doc :
          /\ Shifted(p, q) \in DOMAIN grown /\ Shifted(p, q) # p + 1
          /\ grown[Shifted(p, q)] = IF q = p THEN WithNext(doc[p], next) ELSE doc[q]
          /\ grown[Shifted(p, q)].id = doc[q].id
    /\ \A r \in DOMAIN grown : r = p + 1 \/ \E q \in DOMAIN doc : r = Shifted(p, q)

\* The place insertStepByType makes for a new step.
LEMMA InsertBehindIs ==
  ASSUME NEW doc, IsDocument(doc), NEW p \in DOMAIN doc, NEW step \in Steps, NEW next \in Nat
  PROVE HasBehind(doc, p, step, next, InsertBehind(doc, p, step, next))
<1> DEFINE grown == InsertBehind(doc, p, step, next)
           P == {r \in DOMAIN doc : r <= p} \cup {p + 1} \cup {r + 1 : r \in Following(doc, p)}
           E(q) == IF q < p THEN doc[q]
                   ELSE IF q = p THEN WithNext(doc[p], next)
                   ELSE IF q = p + 1 THEN step ELSE doc[q - 1]
<1>1. \A q \in DOMAIN doc : q \in Nat \ {0} /\ doc[q] \in Steps
  BY StepAt
<1>2. WithNext(doc[p], next) \in Steps /\ WithNext(doc[p], next).id = doc[p].id
  BY <1>1, WithNextIs
<1>3. \A r \in P : \/ r \in DOMAIN doc /\ r <= p
                   \/ r = p + 1
                   \/ r - 1 \in DOMAIN doc /\ r - 1 > p /\ r = (r - 1) + 1
  BY <1>1 DEF Following
<1>4. \A q \in DOMAIN doc : Shifted(p, q) \in P
  BY <1>1 DEF Shifted, Following
<1>5. p + 1 \in P
  OBVIOUS
<1>6. \A r \in P : r \in Nat \ {0}
  BY <1>1, <1>3
<1>7. PICK m \in Nat : \A q \in DOMAIN doc : q <= m
  BY DocumentBound
<1>8. \A r \in P : r <= m + 1
  BY <1>1, <1>3, <1>6, <1>7
<1> HIDE DEF P, grown
<1>9. grown = [q \in P |-> E(q)]
  BY DEF InsertBehind, P, grown
<1>10. \A r \in P : E(r) \in Steps
  BY <1>1, <1>2, <1>3
<1>11. grown \in [P -> Steps] /\ DOMAIN grown = P /\ \A r \in P : grown[r] = E(r)
  BY <1>9, <1>10
<1>12. IsDocument(grown)
  BY <1>6, <1>8, <1>11, DocumentBounded
<1>13. grown[p + 1] = step
  BY <1>1, <1>5, <1>11
<1>14. ASSUME NEW q \in DOMAIN doc
       PROVE /\ Shifted(p, q) # p + 1
             /\ grown[Shifted(p, q)] = IF q = p THEN WithNext(doc[p], next) ELSE doc[q]
             /\ grown[Shifted(p, q)].id = doc[q].id
  <2>1. q \in Nat /\ p \in Nat
    BY <1>1
  <2>2. CASE q < p
    BY <1>4, <1>11, <2>1, <2>2 DEF Shifted
  <2>3. CASE q = p
    BY <1>2, <1>4, <1>11, <2>1, <2>3 DEF Shifted
  <2>4. CASE q > p
    <3>1. Shifted(p, q) = q + 1 /\ (q + 1) - 1 = q
      BY <2>1, <2>4 DEF Shifted
    <3>2. E(q + 1) = doc[q]
      BY <2>1, <2>4, <3>1
    <3> HIDE DEF E
    <3>3. grown[Shifted(p, q)] = doc[q]
      BY <1>4, <1>11, <3>1, <3>2
    <3> QED BY <2>1, <2>4, <3>1, <3>3
  <2> QED BY <2>1, <2>2, <2>3, <2>4
<1>15. \A r \in P : r = p + 1 \/ \E q \in DOMAIN doc : r = Shifted(p, q)
  BY <1>1, <1>3 DEF Shifted
<1> QED BY <1>4, <1>5, <1>11, <1>12, <1>13, <1>14, <1>15 DEF HasBehind, grown

\* A new step with a free id and known targets keeps the references.
LEMMA InsertBehindKeepsSound ==
  ASSUME NEW doc, IsDocument(doc), Sound(doc), NEW p \in DOMAIN doc, NEW step \in Steps,
         step.id \notin IdsOf(doc), Targets(step) \subseteq IdsOf(doc) \cup {0},
         NEW next \in IdsOf(doc) \cup {0, step.id}
  PROVE Sound(InsertBehind(doc, p, step, next))
<1> DEFINE grown == InsertBehind(doc, p, step, next)
           S == IdsOf(doc) \cup {0}
           T == IdsOf(grown) \cup {0}
<1>1. /\ next \in Nat
      /\ \A q \in DOMAIN doc : q \in Nat /\ doc[q] \in Steps /\ doc[q].id \in IdsOf(doc)
  BY StepAt, StepFields, AtIs
<1>0. grown = InsertBehind(doc, p, step, next)
  OBVIOUS
<1> HIDE DEF grown, S, T
<1>a. HasBehind(doc, p, step, next, grown)
  BY <1>0, <1>1, InsertBehindIs
<1>2. /\ IsDocument(grown)
      /\ p + 1 \in DOMAIN grown /\ grown[p + 1] = step
      /\ \A q \in DOMAIN doc :
            /\ Shifted(p, q) \in DOMAIN grown
            /\ grown[Shifted(p, q)] = IF q = p THEN WithNext(doc[p], next) ELSE doc[q]
            /\ grown[Shifted(p, q)].id = doc[q].id
      /\ \A r \in DOMAIN grown : r = p + 1 \/ \E q \in DOMAIN doc : r = Shifted(p, q)
  BY <1>a DEF HasBehind
<1>3. UniqueIds(grown)
  <2> SUFFICES ASSUME NEW r \in DOMAIN grown, NEW s \in DOMAIN grown, grown[r].id = grown[s].id
               PROVE r = s
    BY DEF UniqueIds
  <2>1. CASE r = p + 1 /\ s = p + 1
    BY <2>1
  <2>2. CASE \E q \in DOMAIN doc : r = Shifted(p, q) /\ s = p + 1
    BY <1>1, <1>2, <2>2
  <2>3. CASE \E q \in DOMAIN doc : s = Shifted(p, q) /\ r = p + 1
    BY <1>1, <1>2, <2>3
  <2>4. CASE \E q, t \in DOMAIN doc : r = Shifted(p, q) /\ s = Shifted(p, t)
    BY <1>2, <2>4 DEF UniqueIds, Sound
  <2> QED BY <1>2, <2>1, <2>2, <2>3, <2>4
<1>4. IdsOf(doc) \subseteq IdsOf(grown) /\ step.id \in IdsOf(grown)
  BY <1>2 DEF IdsOf
<1>5. S \subseteq T /\ next \in T
  BY <1>4 DEF S, T
<1>6. \A q \in DOMAIN doc : Targets(doc[q]) \subseteq S
  BY DEF Sound, Closed, S
<1>7. Targets(step) \subseteq T
  BY <1>5 DEF S
<1>8. Targets(WithNext(doc[p], next)) \subseteq T
  <2> DEFINE told == WithNext(doc[p], next)
  <2>1. told.next = next /\ told.branches = doc[p].branches
    BY <1>1, WithNextIs
  <2> HIDE DEF told
  <2>2. \A l \in Labels : doc[p].branches[l] \in S
    BY <1>6, TargetsWithin
  <2>3. told.next \in T /\ \A l \in Labels : told.branches[l] \in T
    BY <1>5, <2>1, <2>2
  <2>4. Targets(told) \subseteq T
    BY <2>3, TargetsWithin
  <2> QED BY <2>4 DEF told
<1>9. \A r \in DOMAIN grown : Targets(grown[r]) \subseteq T
  BY <1>2, <1>5, <1>6, <1>7, <1>8
<1> QED BY <1>3, <1>9 DEF Sound, Closed, T, grown

\* The step insertStepByType makes.
LEMMA NewStepIs ==
  ASSUME NEW doc, IsDocument(doc), NEW type \in Types, NEW next \in Nat
  PROVE LET new == NewStep(doc, type, next)
        IN  /\ new \in Steps /\ new.id = FreshId(doc) /\ new.next = next
            /\ \A l \in Labels : new.branches[l] = 0
<1> DEFINE branches == [l \in Labels |-> 0]
<1>1. branches \in [Labels -> Nat] /\ \A l \in Labels : branches[l] = 0
  OBVIOUS
<1> HIDE DEF branches
<1>2. NewStep(doc, type, next) =
        [id |-> FreshId(doc), type |-> type, next |-> next, branches |-> branches]
  BY DEF NewStep, branches
<1> QED BY <1>1, <1>2, FreshIdIsFresh, StepMade

\* insertStepByType keeps ids unique and leaves no dangling reference.
THEOREM InsertIs ==
  ASSUME NEW doc, IsDocument(doc), NEW type \in Types, NEW after
  PROVE IsDocument(Insert(doc, type, after)) /\ (Sound(doc) => Sound(Insert(doc, type, after)))
<1>1. FreshId(doc) \in Nat \ {0} /\ FreshId(doc) \notin IdsOf(doc)
  BY FreshIdIsFresh
<1>2. \A q \in DOMAIN doc : doc[q] \in Steps /\ doc[q].next \in Nat
  BY StepAt, StepFields
<1>3. \A q \in DOMAIN doc : Sound(doc) => doc[q].next \in IdsOf(doc) \cup {0}
  BY TargetsWithin DEF Sound, Closed
<1>4. ASSUME NEW p \in DOMAIN doc, NEW own \in Nat, NEW next \in Nat,
             Sound(doc) => /\ own \in IdsOf(doc) \cup {0}
                           /\ next \in IdsOf(doc) \cup {0, FreshId(doc)}
      PROVE LET grown == InsertBehind(doc, p, NewStep(doc, type, own), next)
            IN  IsDocument(grown) /\ (Sound(doc) => Sound(grown))
  <2> DEFINE new == NewStep(doc, type, own)
  <2>1. /\ new \in Steps /\ new.id = FreshId(doc) /\ new.next = own
        /\ \A l \in Labels : new.branches[l] = 0
    BY NewStepIs
  <2> HIDE DEF new
  <2>2. IsDocument(InsertBehind(doc, p, new, next))
    BY <2>1, InsertBehindIs DEF HasBehind
  <2>3. ASSUME Sound(doc) PROVE Sound(InsertBehind(doc, p, new, next))
    <3> DEFINE S == IdsOf(doc) \cup {0}
    <3>1. new.next \in S /\ \A l \in Labels : new.branches[l] \in S
      BY <1>4, <2>1, <2>3
    <3>2. Targets(new) \subseteq S
      BY <3>1, TargetsWithin
    <3> QED BY <1>1, <1>4, <2>1, <2>3, <3>2, InsertBehindKeepsSound
  <2> QED BY <2>2, <2>3 DEF new
<1>5. CASE after \in IdsOf(doc)
  <2>1. At(doc, after) \in DOMAIN doc /\ StepOf(doc, after) = doc[At(doc, after)]
    BY <1>5, AtIs
  <2>2. Insert(doc, type, after) =
          InsertBehind(doc, At(doc, after), NewStep(doc, type, StepOf(doc, after).next),
                       FreshId(doc))
    BY <1>5 DEF Insert
  <2> QED BY <1>1, <1>2, <1>3, <1>4, <2>1, <2>2
<1>6. CASE after \notin IdsOf(doc) /\ doc # << >>
  <2>1. Greatest(DOMAIN doc) \in DOMAIN doc
    <3>1. DOMAIN doc # {}
      BY <1>6 DEF IsDocument
    <3> QED BY <3>1, GreatestIs DEF IsDocument
  <2>2. Insert(doc, type, after) =
          InsertBehind(doc, Greatest(DOMAIN doc), NewStep(doc, type, 0),
                       doc[Greatest(DOMAIN doc)].next)
    BY <1>6 DEF Insert
  <2> QED BY <1>1, <1>2, <1>3, <1>4, <2>1, <2>2
<1>7. CASE after \notin IdsOf(doc) /\ doc = << >>
  <2> DEFINE new == NewStep(doc, type, 0)
             one == [p \in {1} |-> new]
  <2>1. Insert(doc, type, after) = one
    BY <1>7 DEF Insert
  <2>2. /\ new \in Steps /\ new.next = 0 /\ \A l \in Labels : new.branches[l] = 0
    BY NewStepIs
  <2> HIDE DEF new
  <2>3. one \in [{1} -> Steps] /\ DOMAIN one = {1} /\ one[1] = new
    BY <2>2
  <2> HIDE DEF one
  <2>4. {1} \subseteq Nat \ {0} /\ 1 \in Nat /\ \A p \in {1} : p <= 1
    OBVIOUS
  <2>5. IsDocument(one)
    BY <2>3, <2>4, DocumentBounded
  <2>6. Targets(new) \subseteq IdsOf(one) \cup {0}
    BY <2>2, TargetsWithin
  <2>7. Sound(one)
    BY <2>3, <2>6 DEF Sound, UniqueIds, Closed
  <2> QED BY <2>1, <2>5, <2>7
<1> QED BY <1>5, <1>6, <1>7

-----------------------------------------------------------------------------
(* removeSteps.                                                            *)

\* removeStep makes a document of a document.
LEMMA RemoveIsDocument ==
  ASSUME NEW doc, IsDocument(doc), NEW id
  PROVE IsDocument(Remove(doc, id))
<1>1. CASE id \notin IdsOf(doc)
  BY <1>1 DEF Remove
<1>2. CASE id \in IdsOf(doc)
  <2> DEFINE next == StepOf(doc, id).next
             P == DOMAIN doc \ PositionsOf(doc, id)
             left == [p \in P |-> Redirected(doc[p], id, next)]
  <2>1. id \in Nat /\ next \in Nat
    BY <1>2, AtIs, StepFields
  <2>2. Remove(doc, id) = left
    BY <1>2 DEF Remove
  <2>3. \A p \in P : doc[p] \in Steps
    BY StepAt
  <2> HIDE DEF next
  <2>4. \A p \in P : Redirected(doc[p], id, next) \in Steps
    BY <2>1, <2>3, RedirectedIs
  <2>5. left \in [P -> Steps] /\ P \subseteq DOMAIN doc
    BY <2>4
  <2> HIDE DEF left, P
  <2>6. IsDocument(left)
    BY <2>5, DocumentMade
  <2> QED BY <2>2, <2>6
<1> QED BY <1>1, <1>2

\* What is left at n, when left[n - 1] was before.
LeftAfter(doc, ids, left, n) ==
    IF n = 0 THEN doc
    ELSE IF n \in DOMAIN doc /\ doc[n].id \in ids
    THEN Remove(left[n - 1], doc[n].id)
    ELSE left[n - 1]

\* The removals of a list are well defined: each is made from the one before.
LEMMA RemovalsFrom ==
  ASSUME NEW doc, NEW ids, NEW g \in Nat
  PROVE \E left : left = [n \in 0..g |-> LeftAfter(doc, ids, left, n)]
<1> DEFINE Defined(k) == \E left : left = [n \in 0..k |-> LeftAfter(doc, ids, left, n)]
           Bad == {k \in 0..g : ~Defined(k)}
<1>1. Defined(0)
  <2> DEFINE left == [n \in 0..0 |-> doc]
  <2>1. \A n \in 0..0 : n = 0
    OBVIOUS
  <2>2. left = [n \in 0..0 |-> LeftAfter(doc, ids, left, n)]
    BY <2>1 DEF LeftAfter
  <2> QED BY <2>2
<1>2. \A k \in 1..g : Defined(k - 1) => Defined(k)
  <2> SUFFICES ASSUME NEW k \in 1..g, Defined(k - 1) PROVE Defined(k)
    OBVIOUS
  <2>1. PICK before : before = [n \in 0..(k - 1) |-> LeftAfter(doc, ids, before, n)]
    OBVIOUS
  <2> DEFINE left == [n \in 0..k |-> LeftAfter(doc, ids, before, n)]
  <2>2. \A n \in 0..(k - 1) : n \in 0..k /\ left[n] = before[n]
    <3>1. \A n \in 0..(k - 1) : n \in 0..k
      OBVIOUS
    <3>2. \A n \in 0..(k - 1) : before[n] = LeftAfter(doc, ids, before, n)
      BY <2>1
    <3> QED BY <3>1, <3>2
  <2>3. \A n \in 0..k : n = 0 \/ n - 1 \in 0..(k - 1)
    OBVIOUS
  <2>4. \A n \in 0..k : n = 0 \/ left[n - 1] = before[n - 1]
    BY <2>2, <2>3
  <2> HIDE DEF left
  <2>5. \A n \in 0..k : LeftAfter(doc, ids, left, n) = LeftAfter(doc, ids, before, n)
    BY <2>4 DEF LeftAfter
  <2>6. left = [n \in 0..k |-> LeftAfter(doc, ids, left, n)]
    BY <2>5 DEF left
  <2> QED BY <2>6
<1> HIDE DEF Defined
<1>3. Bad = {}
  <2> SUFFICES ASSUME Bad # {} PROVE FALSE
    OBVIOUS
  <2>1. Bad \subseteq Nat
    OBVIOUS
  <2>2. PICK k \in Bad : \A j \in Bad : k <= j
    BY <2>1, LeastElement
  <2>3. k \in 1..g /\ k - 1 \in 0..g /\ ~(k <= k - 1)
    BY <1>1, <2>2
  <2> QED BY <1>2, <2>2, <2>3
<1>4. Defined(g)
  BY <1>3
<1> QED BY <1>4 DEF Defined

\* What is left when n positions have been looked at (removeSteps).
LEMMA RemovalsAre ==
  ASSUME NEW doc, IsDocument(doc), NEW ids
  PROVE /\ Greatest(DOMAIN doc \cup {0}) \in Nat
        /\ \A p \in DOMAIN doc : p <= Greatest(DOMAIN doc \cup {0})
        /\ \A n \in 0..Greatest(DOMAIN doc \cup {0}) :
              Removals(doc, ids)[n] = LeftAfter(doc, ids, Removals(doc, ids), n)
<1> DEFINE g == Greatest(DOMAIN doc \cup {0})
<1>1. DOMAIN doc \cup {0} \subseteq Nat /\ IsFiniteSet(DOMAIN doc \cup {0})
  BY FS_AddElement DEF IsDocument
<1>2. g \in Nat /\ \A p \in DOMAIN doc : p <= g
  BY <1>1, GreatestIs
<1> HIDE DEF g
<1>3. \E left : left = [n \in 0..g |-> LeftAfter(doc, ids, left, n)]
  BY <1>2, RemovalsFrom
<1> DEFINE chosen == CHOOSE left : left = [n \in 0..g |-> LeftAfter(doc, ids, left, n)]
<1>4. Removals(doc, ids) = chosen
  BY DEF Removals, LeftAfter, g
<1>5. chosen = [n \in 0..g |-> LeftAfter(doc, ids, chosen, n)]
  BY <1>3
<1> HIDE DEF chosen
<1>6. \A n \in 0..g : chosen[n] = LeftAfter(doc, ids, chosen, n)
  BY <1>5
<1> QED BY <1>2, <1>4, <1>6 DEF g

\* Induction up to a bound, for a set.
LEMMA UpTo ==
  ASSUME NEW g \in Nat, NEW Good, 0 \in Good, \A k \in 1..g : k - 1 \in Good => k \in Good
  PROVE \A n \in 0..g : n \in Good
<1> DEFINE Bad == {n \in 0..g : n \notin Good}
<1> SUFFICES ASSUME Bad # {} PROVE FALSE
  OBVIOUS
<1>1. Bad \subseteq Nat
  OBVIOUS
<1>2. PICK k \in Bad : \A j \in Bad : k <= j
  BY <1>1, LeastElement
<1>3. k \in 1..g /\ k - 1 \in 0..g /\ ~(k <= k - 1)
  BY <1>2
<1> QED BY <1>2, <1>3

\* removeSteps keeps a document one.
LEMMA RemoveAllIsDocument ==
  ASSUME NEW doc, IsDocument(doc), NEW ids
  PROVE IsDocument(RemoveAll(doc, ids))
<1> DEFINE g == Greatest(DOMAIN doc \cup {0})
           left == Removals(doc, ids)
           Good == {n \in 0..g : IsDocument(left[n])}
<1>1. g \in Nat /\ \A n \in 0..g : left[n] = LeftAfter(doc, ids, left, n)
  BY RemovalsAre
<1>0. RemoveAll(doc, ids) = left[g]
  BY DEF RemoveAll
<1> HIDE DEF g, left
<1>2. 0 \in Good
  BY <1>1 DEF LeftAfter
<1>3. \A k \in 1..g : k - 1 \in Good => k \in Good
  <2> SUFFICES ASSUME NEW k \in 1..g, k - 1 \in Good PROVE k \in Good
    OBVIOUS
  <2>1. k # 0 /\ k \in 0..g /\ IsDocument(left[k - 1])
    BY <1>1
  <2>2. left[k] = left[k - 1] \/ left[k] = Remove(left[k - 1], doc[k].id)
    BY <1>1, <2>1 DEF LeftAfter
  <2>3. IsDocument(left[k])
    BY <2>1, <2>2, RemoveIsDocument
  <2> QED BY <2>1, <2>3
<1> HIDE DEF Good
<1>4. g \in Good
  BY <1>1, <1>2, <1>3, UpTo
<1> QED BY <1>0, <1>4 DEF Good

\* removeSteps leaves no reference behind, unless a step it comes to names
\* itself by then.
THEOREM RemoveAllKeepsSound ==
  ASSUME NEW doc, IsDocument(doc), Sound(doc), NEW ids,
         \A p \in DOMAIN doc : doc[p].id \in ids => Removals(doc, ids)[p - 1][p].next # doc[p].id
  PROVE Sound(RemoveAll(doc, ids))
<1> DEFINE g == Greatest(DOMAIN doc \cup {0})
           left == Removals(doc, ids)
           D(n) == {q \in DOMAIN doc : ~(q <= n /\ doc[q].id \in ids)}
           Good == {n \in 0..g : /\ IsDocument(left[n]) /\ Sound(left[n]) /\ DOMAIN left[n] = D(n)
                                 /\ \A q \in D(n) : left[n][q].id = doc[q].id}
<1>1. g \in Nat /\ \A n \in 0..g : left[n] = LeftAfter(doc, ids, left, n)
  BY RemovalsAre
<1>2. \A p \in DOMAIN doc : p \in Nat \ {0}
  BY StepAt
<1>3. \A p \in DOMAIN doc : doc[p].id \in ids => left[p - 1][p].next # doc[p].id
  OBVIOUS
<1>0. RemoveAll(doc, ids) = left[g]
  BY DEF RemoveAll
<1> HIDE DEF g, left
<1>4. 0 \in Good
  <2>1. 0 \in 0..g /\ left[0] = doc
    BY <1>1 DEF LeftAfter
  <2>a. \A q \in DOMAIN doc : ~(q <= 0)
    BY <1>2
  <2>2. D(0) = DOMAIN doc
    BY <2>a
  <2> QED BY <2>1, <2>2
<1>5. \A k \in 1..g : k - 1 \in Good => k \in Good
  <2> SUFFICES ASSUME NEW k \in 1..g, k - 1 \in Good PROVE k \in Good
    OBVIOUS
  <2> DEFINE before == left[k - 1]
  <2>1. k # 0 /\ k \in 0..g /\ k \in Nat
    BY <1>1
  <2>2. /\ IsDocument(before) /\ Sound(before) /\ DOMAIN before = D(k - 1)
        /\ \A q \in D(k - 1) : before[q].id = doc[q].id
    OBVIOUS
  <2>3. left[k] = IF k \in DOMAIN doc /\ doc[k].id \in ids THEN Remove(before, doc[k].id)
                  ELSE before
    BY <1>1, <2>1 DEF LeftAfter
  <2>4. CASE k \in DOMAIN doc /\ doc[k].id \in ids
    <3>1. k \in D(k - 1) /\ D(k - 1) \ {k} = D(k)
      BY <1>2, <2>1, <2>4
    <3>2. /\ before[k].id = doc[k].id /\ before[k].next # before[k].id
          /\ left[k] = Remove(before, before[k].id)
      BY <1>3, <2>2, <2>3, <2>4, <3>1
    <3> HIDE DEF before, D
    <3>3. UniqueIds(before) /\ k \in DOMAIN before
      BY <2>2, <3>1 DEF Sound
    <3>a. IsWithout(before, k, left[k])
      BY <2>2, <3>2, <3>3, RemoveIs
    <3>4. /\ IsDocument(left[k]) /\ DOMAIN left[k] = DOMAIN before \ {k}
          /\ \A q \in DOMAIN before \ {k} : left[k][q].id = before[q].id
      BY <3>a DEF IsWithout
    <3>5. Sound(left[k])
      BY <2>2, <3>2, <3>3, RemoveKeepsSound
    <3> QED BY <2>1, <2>2, <3>1, <3>4, <3>5
  <2>5. CASE ~(k \in DOMAIN doc /\ doc[k].id \in ids)
    <3>1. D(k - 1) = D(k)
      BY <1>2, <2>1, <2>5
    <3>2. left[k] = before
      BY <2>3, <2>5
    <3> HIDE DEF D
    <3> QED BY <2>1, <2>2, <3>1, <3>2
  <2> QED BY <2>4, <2>5
<1>6. g \in Good
  <2> HIDE DEF Good
  <2> QED BY <1>1, <1>4, <1>5, UpTo
<1> QED BY <1>0, <1>6

-----------------------------------------------------------------------------
(* The order of the run.                                                   *)

\* An element below all others is what Least finds.
LEMMA LeastUnique ==
  ASSUME NEW S, S \subseteq Nat, NEW x \in S, \A y \in S : x <= y
  PROVE Least(S) = x
<1>1. Least(S) \in S /\ Least(S) <= x
  BY LeastIs
<1>2. x <= Least(S) /\ x \in Nat /\ Least(S) \in Nat
  BY <1>1
<1> QED BY <1>1, <1>2

\* GetNextStep without a branch, for the step at position q.
LEMMA InOrderIs ==
  ASSUME NEW doc, IsDocument(doc), UniqueIds(doc), NEW q \in DOMAIN doc
  PROVE /\ doc[q].next # 0 => InOrder(doc, doc[q].id) = Present(doc, doc[q].next)
        /\ doc[q].next = 0 /\ Following(doc, q) = {} => InOrder(doc, doc[q].id) = 0
        /\ \A r \in Following(doc, q) :
              doc[q].next = 0 /\ (\A t \in Following(doc, q) : r <= t)
              => InOrder(doc, doc[q].id) = doc[r].id
<1>1. At(doc, doc[q].id) = q /\ StepOf(doc, doc[q].id) = doc[q]
  BY AtUnique
<1>2. Following(doc, q) \subseteq Nat
  BY StepAt DEF Following
<1>3. \A r \in Following(doc, q) :
         (\A t \in Following(doc, q) : r <= t) => Least(Following(doc, q)) = r
  BY <1>2, LeastUnique
<1> QED BY <1>1, <1>3 DEF InOrder

\* GetNextStep's branch, for the step at position q.
LEMMA BranchTargetIs ==
  ASSUME NEW doc, IsDocument(doc), UniqueIds(doc), NEW q \in DOMAIN doc
  PROVE /\ BranchTarget(doc, doc[q].id, "") = 0
        /\ \A l \in Labels : BranchTarget(doc, doc[q].id, l) =
              IF doc[q].branches[l] \in IdsOf(doc) THEN doc[q].branches[l]
              ELSE Present(doc, doc[q].branches["_default"])
<1>1. StepOf(doc, doc[q].id) = doc[q]
  BY AtUnique
<1>2. \A l \in Labels : l # ""
  BY DEF Labels
<1> QED BY <1>1, <1>2 DEF BranchTarget

\* Removing a step that names its next step takes it out of the run and
\* changes nothing else (removeStep, GetNextStep).
THEOREM RemovalBypasses ==
  ASSUME NEW doc, IsDocument(doc), Sound(doc), NEW id \in IdsOf(doc),
         StepOf(doc, id).next \notin {0, id}
  PROVE Bypassed(doc, id)
<1> DEFINE p == At(doc, id)
           next == doc[p].next
           left == Remove(doc, id)
<1>1. p \in DOMAIN doc /\ doc[p].id = id /\ StepOf(doc, id) = doc[p] /\ id \in Nat \ {0}
  BY AtIs
<1>2. UniqueIds(doc) /\ Closed(doc)
  BY DEF Sound
<1>3. \A q \in DOMAIN doc : doc[q] \in Steps /\ doc[q].id \in IdsOf(doc) /\ q \in Nat
  BY StepAt
<1>4. next \in IdsOf(doc) /\ next # id /\ next \in Nat \ {0}
  <2>1. next \notin {0, id}
    BY <1>1
  <2>2. next \in IdsOf(doc) \cup {0}
    BY <1>1, <1>2, TargetsWithin DEF Closed
  <2>3. next \in Nat
    BY <1>1, <1>3, StepFields
  <2> QED BY <2>1, <2>2, <2>3
<1> HIDE DEF p
<1>5. IsWithout(doc, p, left)
  BY <1>1, <1>2, RemoveIs
<1> HIDE DEF left
<1>6. /\ IsDocument(left) /\ UniqueIds(left) /\ DOMAIN left = DOMAIN doc \ {p}
      /\ \A q \in DOMAIN doc \ {p} :
            left[q] = Redirected(doc[q], id, next) /\ left[q].id = doc[q].id
      /\ IdsOf(left) = IdsOf(doc) \ {id}
  BY <1>1, <1>5 DEF IsWithout
<1>7. \A t : Present(left, Moved(t, id, next)) = Moved(Present(doc, t), id, next)
  BY <1>1, <1>4, <1>6 DEF Present, Moved
<1>8. \A t : /\ t \in IdsOf(doc) <=> Moved(t, id, next) \in IdsOf(left)
             /\ t = 0 <=> Moved(t, id, next) = 0
  BY <1>1, <1>4, <1>6 DEF Moved
<1>9. ASSUME NEW q \in DOMAIN left
      PROVE /\ q \in DOMAIN doc /\ q # p /\ left[q].id = doc[q].id
            /\ left[q].next = Moved(doc[q].next, id, next)
            /\ \A l \in Labels : left[q].branches[l] = Moved(doc[q].branches[l], id, next)
  <2>1. q \in DOMAIN doc /\ q # p /\ left[q].id = doc[q].id
    BY <1>6
  <2>2. left[q] = Redirected(doc[q], id, next)
    BY <1>6
  <2> HIDE DEF next
  <2> DEFINE moved == Redirected(doc[q], id, next)
  <2>3. moved.next = Moved(doc[q].next, id, next)
        /\ \A l \in Labels : moved.branches[l] = Moved(doc[q].branches[l], id, next)
    BY <1>1, <1>3, <1>4, <2>1, RedirectedIs
  <2> QED BY <2>1, <2>2, <2>3
<1>10. ASSUME NEW q \in DOMAIN left, NEW label \in Labels \cup {""}
       PROVE BranchTarget(left, doc[q].id, label)
               = Moved(BranchTarget(doc, doc[q].id, label), id, next)
  <2>1. CASE label = ""
    <3>1. BranchTarget(left, left[q].id, "") = 0 /\ BranchTarget(doc, doc[q].id, "") = 0
      BY <1>2, <1>6, <1>9, BranchTargetIs
    <3> QED BY <1>8, <1>9, <2>1, <3>1
  <2>2. CASE label \in Labels
    <3> DEFINE b == doc[q].branches[label]
               d == doc[q].branches["_default"]
    <3>0. "_default" \in Labels
      BY DEF Labels
    <3>1. /\ left[q].branches[label] = Moved(b, id, next)
          /\ left[q].branches["_default"] = Moved(d, id, next)
      BY <1>9, <2>2, <3>0
    <3>2. BranchTarget(left, left[q].id, label) =
            IF left[q].branches[label] \in IdsOf(left) THEN left[q].branches[label]
            ELSE Present(left, left[q].branches["_default"])
      BY <1>6, <2>2, BranchTargetIs
    <3>3. BranchTarget(doc, doc[q].id, label) = IF b \in IdsOf(doc) THEN b ELSE Present(doc, d)
      BY <1>2, <1>9, <2>2, BranchTargetIs
    <3> HIDE DEF b, d
    <3> QED BY <1>7, <1>8, <1>9, <3>1, <3>2, <3>3
  <2> QED BY <2>1, <2>2
<1>11. ASSUME NEW q \in DOMAIN left, ~FallsThroughTo(doc, doc[q].id, id)
       PROVE InOrder(left, doc[q].id) = Moved(InOrder(doc, doc[q].id), id, next)
  <2>0. q \in DOMAIN doc /\ q # p /\ left[q].id = doc[q].id
        /\ left[q].next = Moved(doc[q].next, id, next)
    BY <1>9
  <2>1. CASE doc[q].next # 0
    <3>1. InOrder(doc, doc[q].id) = Present(doc, doc[q].next)
      BY <1>2, <2>0, <2>1, InOrderIs
    <3>2. left[q].next # 0
      BY <1>8, <2>0, <2>1
    <3>3. InOrder(left, left[q].id) = Present(left, left[q].next)
      BY <1>6, <3>2, InOrderIs
    <3> QED BY <1>7, <2>0, <3>1, <3>3
  <2>2. CASE doc[q].next = 0
    <3>1. left[q].next = 0
      BY <1>8, <2>0, <2>2
    <3>2. Following(left, q) = Following(doc, q) \ {p}
      BY <1>6 DEF Following
    <3>3. CASE Following(doc, q) = {}
      <4>1. InOrder(doc, doc[q].id) = 0 /\ InOrder(left, left[q].id) = 0
        BY <1>2, <1>6, <2>0, <2>2, <3>1, <3>2, <3>3, InOrderIs
      <4> QED BY <1>8, <2>0, <4>1
    <3>4. CASE Following(doc, q) # {}
      <4>1. Following(doc, q) \subseteq Nat
        BY <1>3 DEF Following
      <4>2. PICK r \in Following(doc, q) : \A t \in Following(doc, q) : r <= t
        BY <3>4, <4>1, LeastElement
      <4>3. InOrder(doc, doc[q].id) = doc[r].id /\ r \in DOMAIN doc
        BY <1>2, <2>0, <2>2, <4>2, InOrderIs DEF Following
      <4>4. StepOf(doc, doc[q].id) = doc[q]
        BY <1>2, <2>0, AtUnique
      <4>5. doc[r].id # id /\ r # p
        BY <1>1, <1>11, <2>2, <4>3, <4>4 DEF FallsThroughTo
      <4>6. r \in Following(left, q) /\ \A t \in Following(left, q) : r <= t
        BY <3>2, <4>2, <4>5
      <4>7. InOrder(left, left[q].id) = left[r].id
        BY <1>6, <3>1, <4>6, InOrderIs
      <4>8. left[r].id = doc[r].id
        BY <1>6, <4>3, <4>5
      <4> QED BY <2>0, <4>3, <4>5, <4>7, <4>8 DEF Moved
    <3> QED BY <3>3, <3>4
  <2> QED BY <2>1, <2>2
<1>12. ASSUME NEW s \in IdsOf(doc) \ {id}, NEW label \in Labels \cup {""},
              ~FallsThroughTo(doc, s, id)
       PROVE Successor(left, s, label) = Moved(Successor(doc, s, label), id, next)
  <2>1. PICK q \in DOMAIN left : left[q].id = s
    BY <1>6 DEF IdsOf
  <2>2. doc[q].id = s
    BY <1>9, <2>1
  <2>3. BranchTarget(left, s, label) = Moved(BranchTarget(doc, s, label), id, next)
    BY <1>10, <2>2
  <2>4. InOrder(left, s) = Moved(InOrder(doc, s), id, next)
    BY <1>11, <1>12, <2>2
  <2> QED BY <1>8, <2>3, <2>4 DEF Successor
<1> QED BY <1>1, <1>12 DEF Bypassed, left

\* Inserting a step behind another splices it into the run and changes
\* nothing else (insertStepByType, GetNextStep).
THEOREM InsertionSplices ==
  ASSUME NEW doc, IsDocument(doc), Sound(doc), NEW type \in Types, NEW after \in IdsOf(doc)
  PROVE Spliced(doc, type, after)
<1> DEFINE p == At(doc, after)
           new == FreshId(doc)
           next == doc[p].next
           step == NewStep(doc, type, next)
           grown == Insert(doc, type, after)
<1>1. p \in DOMAIN doc /\ doc[p].id = after /\ StepOf(doc, after) = doc[p]
  BY AtIs
<1>2. UniqueIds(doc) /\ Closed(doc)
  BY DEF Sound
<1>3. \A q \in DOMAIN doc : doc[q] \in Steps /\ doc[q].id \in IdsOf(doc) /\ q \in Nat
                            /\ doc[q].id \in Nat \ {0}
  BY StepAt
<1>4. new \in Nat \ {0} /\ new \notin IdsOf(doc)
  BY FreshIdIsFresh
<1>5. \A q \in DOMAIN doc : /\ doc[q].next \in IdsOf(doc) \cup {0}
                            /\ \A l \in Labels : doc[q].branches[l] \in IdsOf(doc) \cup {0}
  BY <1>2, TargetsWithin DEF Closed
<1> HIDE DEF p
<1>6. next \in Nat
  BY <1>1, <1>3, StepFields
<1>7. grown = InsertBehind(doc, p, step, new)
  BY <1>1 DEF Insert, p
<1> HIDE DEF new
<1>8. step \in Steps /\ step.id = new /\ step.next = next
  BY <1>6, NewStepIs DEF new
<1> HIDE DEF step
<1>9. HasBehind(doc, p, step, new, grown)
  BY <1>1, <1>4, <1>7, <1>8, InsertBehindIs
<1>10. UniqueIds(grown)
  BY InsertIs DEF Sound
<1> HIDE DEF grown
<1>11. /\ IsDocument(grown) /\ p + 1 \in DOMAIN grown
       /\ grown[p + 1].id = new /\ grown[p + 1].next = next
       /\ \A r \in DOMAIN grown : r = p + 1 \/ \E q \in DOMAIN doc : r = Shifted(p, q)
  BY <1>8, <1>9 DEF HasBehind
<1>12. \A q \in DOMAIN doc :
         /\ Shifted(p, q) \in DOMAIN grown /\ grown[Shifted(p, q)].id = doc[q].id
         /\ grown[Shifted(p, q)].branches = doc[q].branches
         /\ grown[Shifted(p, q)].next = IF q = p THEN new ELSE doc[q].next
  <2> SUFFICES ASSUME NEW q \in DOMAIN doc
               PROVE /\ Shifted(p, q) \in DOMAIN grown /\ grown[Shifted(p, q)].id = doc[q].id
                     /\ grown[Shifted(p, q)].branches = doc[q].branches
                     /\ grown[Shifted(p, q)].next = IF q = p THEN new ELSE doc[q].next
    OBVIOUS
  <2>1. /\ Shifted(p, q) \in DOMAIN grown /\ grown[Shifted(p, q)].id = doc[q].id
        /\ grown[Shifted(p, q)] = IF q = p THEN WithNext(doc[p], new) ELSE doc[q]
    BY <1>9 DEF HasBehind
  <2> DEFINE told == WithNext(doc[p], new)
  <2>2. told.next = new /\ told.branches = doc[p].branches
    BY <1>1, <1>3, <1>4, WithNextIs
  <2> HIDE DEF told
  <2>3. grown[Shifted(p, q)] = IF q = p THEN told ELSE doc[q]
    BY <2>1 DEF told
  <2> QED BY <2>1, <2>2, <2>3
<1>13. /\ IdsOf(grown) = IdsOf(doc) \cup {new} /\ 0 \notin IdsOf(grown)
  <2>1. IdsOf(doc) \cup {new} \subseteq IdsOf(grown)
    BY <1>11, <1>12 DEF IdsOf
  <2>2. IdsOf(grown) \subseteq IdsOf(doc) \cup {new}
    BY <1>11, <1>12 DEF IdsOf
  <2>3. 0 \notin IdsOf(doc)
    BY <1>3 DEF IdsOf
  <2> QED BY <1>4, <2>1, <2>2, <2>3
<1>14. \A t \in IdsOf(doc) \cup {0} : Present(grown, t) = Present(doc, t)
  BY <1>13 DEF Present
<1>15. ASSUME NEW q \in DOMAIN doc, NEW label \in Labels \cup {""}
       PROVE BranchTarget(grown, doc[q].id, label) = BranchTarget(doc, doc[q].id, label)
  <2>1. CASE label = ""
    <3>1. BranchTarget(doc, doc[q].id, "") = 0
      BY <1>2, BranchTargetIs
    <3>2. BranchTarget(grown, grown[Shifted(p, q)].id, "") = 0
      BY <1>10, <1>11, <1>12, BranchTargetIs
    <3> QED BY <1>12, <2>1, <3>1, <3>2
  <2>2. CASE label \in Labels
    <3> DEFINE b == doc[q].branches[label]
               d == doc[q].branches["_default"]
    <3>0. "_default" \in Labels
      BY DEF Labels
    <3>1. BranchTarget(doc, doc[q].id, label) = IF b \in IdsOf(doc) THEN b ELSE Present(doc, d)
      BY <1>2, <2>2, BranchTargetIs
    <3>2. BranchTarget(grown, grown[Shifted(p, q)].id, label) =
            IF grown[Shifted(p, q)].branches[label] \in IdsOf(grown)
            THEN grown[Shifted(p, q)].branches[label]
            ELSE Present(grown, grown[Shifted(p, q)].branches["_default"])
      BY <1>10, <1>11, <1>12, <2>2, BranchTargetIs
    <3>3. b \in IdsOf(doc) \cup {0} /\ d \in IdsOf(doc) \cup {0}
      BY <1>5, <2>2, <3>0
    <3>4. BranchTarget(grown, doc[q].id, label)
            = IF b \in IdsOf(grown) THEN b ELSE Present(grown, d)
      BY <1>12, <3>2
    <3>5. b \in IdsOf(grown) <=> b \in IdsOf(doc)
      BY <1>13, <3>3
    <3>6. Present(grown, d) = Present(doc, d)
      BY <1>14, <3>3
    <3> HIDE DEF b, d
    <3>7. CASE b \in IdsOf(doc)
      <4>1. BranchTarget(grown, doc[q].id, label) = b
        BY <3>4, <3>5, <3>7
      <4> QED BY <3>1, <3>7, <4>1
    <3>8. CASE b \notin IdsOf(doc)
      <4>1. BranchTarget(grown, doc[q].id, label) = Present(grown, d)
        BY <3>4, <3>5, <3>8
      <4> QED BY <3>1, <3>6, <3>8, <4>1
    <3> QED BY <3>7, <3>8
  <2> QED BY <2>1, <2>2
<1>16. \A q, t \in DOMAIN doc : /\ q < t <=> Shifted(p, q) < Shifted(p, t)
                                /\ q <= t <=> Shifted(p, q) <= Shifted(p, t)
                                /\ t > p => Shifted(p, t) > p + 1
                                /\ t <= p => Shifted(p, t) < p + 1
                                /\ Shifted(p, t) \in Nat
  BY <1>1, <1>3 DEF Shifted
<1>17. ASSUME NEW q \in DOMAIN doc, NEW s \in DOMAIN grown, grown[s].next = doc[q].next,
              \A t \in DOMAIN doc : t > q <=> Shifted(p, t) > s,
              p + 1 > s => p \in Following(doc, q)
       PROVE InOrder(grown, grown[s].id) = InOrder(doc, doc[q].id)
  <2>1. CASE doc[q].next # 0
    <3>1. InOrder(doc, doc[q].id) = Present(doc, doc[q].next)
      BY <1>2, <2>1, InOrderIs
    <3>2. InOrder(grown, grown[s].id) = Present(grown, grown[s].next)
      BY <1>10, <1>11, <1>17, <2>1, InOrderIs
    <3> QED BY <1>5, <1>14, <1>17, <3>1, <3>2
  <2>2. CASE doc[q].next = 0 /\ Following(doc, q) = {}
    <3>1. InOrder(doc, doc[q].id) = 0
      BY <1>2, <2>2, InOrderIs
    <3>2. Following(grown, s) = {}
      BY <1>11, <1>17, <2>2 DEF Following
    <3> QED BY <1>10, <1>11, <1>17, <2>2, <3>1, <3>2, InOrderIs
  <2>3. CASE doc[q].next = 0 /\ Following(doc, q) # {}
    <3>1. Following(doc, q) \subseteq Nat
      BY <1>3 DEF Following
    <3>2. PICK r \in Following(doc, q) : \A t \in Following(doc, q) : r <= t
      BY <2>3, <3>1, LeastElement
    <3>3. InOrder(doc, doc[q].id) = doc[r].id /\ r \in DOMAIN doc /\ r > q
      BY <1>2, <2>3, <3>2, InOrderIs DEF Following
    <3>4. Shifted(p, r) \in Following(grown, s)
      BY <1>12, <1>17, <3>3 DEF Following
    <3>5. ASSUME NEW t \in Following(grown, s) PROVE Shifted(p, r) <= t
      <4>1. t \in DOMAIN grown /\ t > s
        BY DEF Following
      <4>2. CASE t = p + 1
        <5>1. r <= p
          BY <1>17, <3>2, <4>1, <4>2
        <5> QED BY <1>1, <1>3, <1>16, <3>3, <4>2, <5>1
      <4>3. CASE \E u \in DOMAIN doc : t = Shifted(p, u)
        <5>1. PICK u \in DOMAIN doc : t = Shifted(p, u)
          BY <4>3
        <5>2. u \in Following(doc, q)
          BY <1>17, <4>1, <5>1 DEF Following
        <5> QED BY <1>16, <3>2, <3>3, <5>1, <5>2
      <4> QED BY <1>11, <4>1, <4>2, <4>3
    <3>6. InOrder(grown, grown[s].id) = grown[Shifted(p, r)].id
      BY <1>10, <1>11, <1>17, <2>3, <3>4, <3>5, InOrderIs
    <3> QED BY <1>12, <3>3, <3>6
  <2> QED BY <2>1, <2>2, <2>3
<1>18. InOrder(grown, after) = new
  <2>1. /\ Shifted(p, p) \in DOMAIN grown /\ grown[Shifted(p, p)].id = after
        /\ grown[Shifted(p, p)].next = new
    BY <1>1, <1>12
  <2>2. InOrder(grown, grown[Shifted(p, p)].id) = Present(grown, new)
    BY <1>4, <1>10, <1>11, <2>1, InOrderIs
  <2> QED BY <1>13, <2>1, <2>2 DEF Present
<1>19. InOrder(grown, new) = InOrder(doc, after)
  <2>1. \A t \in DOMAIN doc : t > p <=> Shifted(p, t) > p + 1
    BY <1>1, <1>3, <1>16
  <2>2. ~(p + 1 > p + 1)
    BY <1>1, <1>3
  <2>3. InOrder(grown, grown[p + 1].id) = InOrder(doc, doc[p].id)
    BY <1>1, <1>11, <1>17, <2>1, <2>2
  <2> QED BY <1>1, <1>11, <2>3
<1>20. ASSUME NEW q \in DOMAIN doc, q # p
       PROVE InOrder(grown, doc[q].id) = InOrder(doc, doc[q].id)
  <2> DEFINE s == Shifted(p, q)
  <2>1. s \in DOMAIN grown /\ grown[s].id = doc[q].id /\ grown[s].next = doc[q].next
    BY <1>12, <1>20
  <2>2. \A t \in DOMAIN doc : t > q <=> Shifted(p, t) > s
    BY <1>3, <1>16
  <2>3. p + 1 > s => p \in Following(doc, q)
    BY <1>1, <1>3, <1>20 DEF Following, Shifted
  <2> HIDE DEF s
  <2>4. InOrder(grown, grown[s].id) = InOrder(doc, doc[q].id)
    BY <1>17, <2>1, <2>2, <2>3
  <2> QED BY <2>1, <2>4
<1>21. ASSUME NEW s \in IdsOf(doc), NEW label \in Labels \cup {""}
       PROVE /\ BranchTarget(grown, s, label) = BranchTarget(doc, s, label)
             /\ s # after => InOrder(grown, s) = InOrder(doc, s)
  <2>1. PICK q \in DOMAIN doc : doc[q].id = s
    BY DEF IdsOf
  <2>2. s # after => q # p
    BY <1>1, <2>1
  <2> QED BY <1>15, <1>20, <2>1, <2>2
<1> QED BY <1>18, <1>19, <1>21 DEF Spliced, new, grown
=============================================================================
