-------------------------- MODULE ScriptBuildProofs --------------------------
(***************************************************************************)
(* Safety of ScriptBuild for any scripts and sources, any number of saves, *)
(* edits and peers, and answers in any order.                              *)
(*                                                                         *)
(* Three inductive invariants.  IInv: the revisions that the catalog, the  *)
(* listing and the page point to are promoted; the stored drafts are the   *)
(* page's; the editor was filled with what is shown; and a save names a    *)
(* base together with the source of that base.  TokenInv: a call the user  *)
(* has left behind holds an earlier token than the one of now.  RestInv    *)
(* types what neither speaks of.                                           *)
(***************************************************************************)
EXTENDS ScriptBuild, TLAPS

-----------------------------------------------------------------------------
(* The invariant.                                                          *)

\* A revision of the script that the catalog actor made active.
Promoted(s, r) ==
    /\ r \in 1..decided /\ accepted[r].script = s
    /\ [script |-> s, rev |-> r, text |-> accepted[r].text] \in heads

\* The revisions: where the catalog, its read model and the page's listing
\* point to is a promoted revision of that script.
ServerInv ==
    /\ accepted \in Seq(Saves) /\ decided \in Nat /\ decided <= Len(accepted)
    /\ heads \subseteq [script : Scripts, rev : 1..decided, text : Texts]
    /\ \A m \in {head, catalog, view} :
         m \in [Scripts -> Nat] /\ \A s \in Scripts : m[s] # 0 => Promoted(s, m[s])

ObservedInv ==
    observed # NotObserved =>
        /\ observed \in [script : Scripts, rev : Nat, text : Texts]
        /\ Promoted(observed.script, observed.rev) /\ observed.text = TextOf(observed.rev)

\* What a draft is stored under, and that the draft of the page is stored.
DraftInv ==
    /\ selected \in Scripts /\ pending \in Drafts /\ stored \in [Scripts -> Drafts]
    /\ \A s \in Scripts : stored[s] = NoDraft \/ stored[s].script = s
    /\ pending # NoDraft => stored[pending.script] = pending

\* What a base revision and the source seen with it are to each other.
BasedOn(save, script, n) ==
    save.base # 0 =>
        /\ save.base \in 1..n /\ accepted[save.base].script = script
        /\ save.seen = TextOf(save.base)

GoodFlight(f) ==
    /\ f \in Flights
    /\ f.phase # "post" => /\ f.rev \in 1..Len(accepted)
                           /\ accepted[f.rev].script = f.script /\ accepted[f.rev].text = f.text
    /\ f.phase = "applied" => Promoted(f.script, f.rev)
    /\ BasedOn(f, f.script, Len(accepted))
    /\ f.phase = "timer" => f.attempt < PollLimit
FlightsInv == \A f \in flights : GoodFlight(f)
SavesInv == \A r \in 1..Len(accepted) : BasedOn(accepted[r], accepted[r].script, r - 1)

\* What the page shows.
ActiveOK ==
    \/ Active.kind = "none" /\ Active = Shown("none", None, 0, None)
    \/ /\ Active.kind \in {"catalog", "observed"} /\ Active.script \in Scripts
       /\ Active.rev \in Nat /\ Promoted(Active.script, Active.rev)
       /\ Active.text = TextOf(Active.rev)
    \/ /\ Active.kind = "draft" /\ Active.script = selected /\ Active.rev = 0
       /\ pending.script = selected /\ Active.text = pending.text

\* The editor was filled with the source of what is shown, and holds that of a
\* draft itself.
EditorInv ==
    Active.kind # "none" =>
        /\ loaded = SourceOf(Active) /\ pkg \in Texts
        /\ Active.kind = "draft" => pkg = SourceOf(Active)

Base == ServerInv /\ ObservedInv /\ DraftInv
IInv == Base /\ FlightsInv /\ SavesInv /\ EditorInv

-----------------------------------------------------------------------------
(* What is shown.                                                          *)

\* The fields of what is shown.
LEMMA ShownFields ==
  ASSUME NEW k, NEW s, NEW r, NEW t
  PROVE /\ Shown(k, s, r, t).kind = k /\ Shown(k, s, r, t).script = s
        /\ Shown(k, s, r, t).rev = r /\ Shown(k, s, r, t).text = t
BY DEF Shown

\* A promoted revision is an accepted save with a source.
LEMMA PromotedIs ==
  ASSUME ServerInv, NEW s \in Scripts, NEW r, Promoted(s, r)
  PROVE /\ r \in Nat \ {0} /\ r \in 1..Len(accepted) /\ accepted[r] \in Saves
        /\ accepted[r].script = s /\ TextOf(r) \in Texts
<1>1. decided \in Nat /\ Len(accepted) \in Nat /\ decided <= Len(accepted)
  BY DEF ServerInv
<1>2. r \in 1..decided /\ accepted[r].script = s
  BY DEF Promoted
<1>3. r \in 1..Len(accepted) /\ r \in Nat \ {0}
  BY <1>1, <1>2
<1>4. accepted[r] \in Saves
  BY <1>3 DEF ServerInv
<1>5. accepted[r].text \in Texts
  BY <1>4 DEF Saves
<1> QED BY <1>2, <1>3, <1>4, <1>5 DEF TextOf

\* A listed script is shown at a promoted revision.
LEMMA CatalogScriptIs ==
  ASSUME ServerInv, NEW s \in Scripts, Listed(s)
  PROVE /\ CatalogScript(s).kind = "catalog" /\ CatalogScript(s).script = s
        /\ CatalogScript(s).rev \in Nat /\ Promoted(s, CatalogScript(s).rev)
        /\ CatalogScript(s).text = TextOf(CatalogScript(s).rev)
BY DEF CatalogScript, Shown, ServerInv, Listed

\* Whatever is shown is a promoted revision or the draft of the page.
LEMMA ActiveIs == Base => ActiveOK
<1> SUFFICES ASSUME Base PROVE ActiveOK
  OBVIOUS
<1> USE DEF Base
<1>1. CASE Listed(selected)
  <2>1. Active = CatalogScript(selected) /\ selected \in Scripts
    BY <1>1 DEF Active, DraftInv
  <2> QED BY <1>1, <2>1, CatalogScriptIs DEF ActiveOK
<1>2. CASE ~Listed(selected) /\ observed.script = selected
  <2>1. Active = Shown("observed", selected, observed.rev, observed.text)
    BY <1>2 DEF Active
  <2>2. observed # NotObserved
    BY <1>2, ConstantsAssumption DEF NotObserved, DraftInv
  <2> QED BY <1>2, <2>1, <2>2, ShownFields DEF ObservedInv, ActiveOK
<1>3. CASE ~Listed(selected) /\ observed.script # selected /\ pending.script = selected
  <2>1. Active = Shown("draft", selected, 0, pending.text)
    BY <1>3 DEF Active
  <2> QED BY <1>3, <2>1, ShownFields DEF ActiveOK
<1>4. CASE /\ ~Listed(selected) /\ observed.script # selected /\ pending.script # selected
           /\ \E s \in Scripts : Listed(s)
  <2> DEFINE s == CHOOSE s \in Scripts : Listed(s)
  <2>1. s \in Scripts /\ Listed(s)
    BY <1>4
  <2>2. Active = CatalogScript(s)
    BY <1>4 DEF Active
  <2> HIDE DEF s
  <2> QED BY <2>1, <2>2, CatalogScriptIs DEF ActiveOK
<1>5. CASE /\ ~Listed(selected) /\ observed.script # selected /\ pending.script # selected
           /\ ~\E s \in Scripts : Listed(s)
  <2>1. Active = Shown("none", None, 0, None)
    BY <1>5 DEF Active
  <2> QED BY <2>1, ShownFields DEF ActiveOK
<1> QED BY <1>1, <1>2, <1>3, <1>4, <1>5

\* The same after a step.
LEMMA ActiveIsNext == Base' => ActiveOK'
<1>1. (Base => ActiveOK)'
  BY ActiveIs, PTL
<1> QED BY <1>1

\* The source the editor is filled with.
LEMMA SourceIs ==
  Base => (Active.kind # "none" => SourceOf(Active) \in Texts /\ Active.script \in Scripts)
<1> SUFFICES ASSUME Base, Active.kind # "none"
             PROVE SourceOf(Active) \in Texts /\ Active.script \in Scripts
  OBVIOUS
<1>1. ActiveOK
  BY ActiveIs
<1>2. CASE Active.kind = "draft"
  <2>1. pending \in Drafts /\ pending.script \in Scripts
    BY <1>1, <1>2 DEF Base, DraftInv, ActiveOK
  <2>2. pending.text \in Texts \cup {None}
    BY <2>1 DEF Drafts, NoDraft
  <2> QED BY <1>1, <1>2, <2>1, <2>2, ConstantsAssumption DEF ActiveOK, SourceOf
<1>3. CASE Active.kind # "draft"
  <2>1. Active.script \in Scripts /\ Promoted(Active.script, Active.rev)
        /\ Active.text = TextOf(Active.rev)
    BY <1>1, <1>3 DEF ActiveOK
  <2>2. TextOf(Active.rev) \in Texts
    BY <2>1, PromotedIs DEF Base
  <2> QED BY <1>3, <2>1, <2>2 DEF SourceOf
<1> QED BY <1>2, <1>3

-----------------------------------------------------------------------------
(* The revisions only grow.                                                *)

Grown ==
    /\ decided <= decided' /\ Len(accepted) <= Len(accepted')
    /\ \A r \in 1..Len(accepted) : accepted'[r] = accepted[r]
    /\ heads \subseteq heads'

\* The types of the revisions.
LEMMA ServerTypes ==
  ServerInv => /\ accepted \in Seq(Saves) /\ Len(accepted) \in Nat /\ decided \in Nat
               /\ decided <= Len(accepted)
               /\ view \in [Scripts -> Nat] /\ catalog \in [Scripts -> Nat] /\ head \in [Scripts -> Nat]
BY DEF ServerInv

\* A step that accepts nothing keeps the revisions.
LEMMA SameGrows ==
  ASSUME ServerInv, UNCHANGED <<accepted, decided, heads>>
  PROVE Grown
BY ServerTypes DEF Grown

\* An accepted save is a revision of its own.
LEMMA AppendGrows ==
  ASSUME ServerInv, NEW x, x \in Saves, accepted' = Append(accepted, x),
         UNCHANGED <<decided, heads>>
  PROVE /\ Grown /\ accepted' \in Seq(Saves) /\ Len(accepted') = Len(accepted) + 1
        /\ accepted'[Len(accepted) + 1] = x
BY ServerTypes DEF Grown

\* A promoted revision stays promoted.
LEMMA PromotedStays ==
  ASSUME ServerInv, ServerInv', Grown, NEW s, NEW r, Promoted(s, r)
  PROVE /\ r \in 1..decided' /\ accepted'[r].script = s /\ accepted'[r] = accepted[r]
        /\ r \in 1..Len(accepted) /\ Promoted(s, r)'
<1>1. decided \in Nat /\ decided <= Len(accepted) /\ decided <= decided' /\ Len(accepted) \in Nat
      /\ decided' \in Nat
  BY DEF ServerInv, Grown
<1>2. r \in 1..decided /\ accepted[r].script = s
  BY DEF Promoted
<1>3. r \in 1..Len(accepted) /\ r \in 1..decided'
  BY <1>1, <1>2
<1>4. accepted'[r] = accepted[r]
  BY <1>3 DEF Grown
<1> QED BY <1>2, <1>3, <1>4 DEF Grown, Promoted

\* A base revision stays what it was.
LEMMA BasedStays ==
  ASSUME ServerInv, Grown, NEW save, NEW s, NEW n \in 0..Len(accepted), NEW m \in Nat, n <= m,
         BasedOn(save, s, n)
  PROVE save.base # 0 => /\ save.base \in 1..m /\ accepted'[save.base].script = s
                         /\ save.seen = accepted'[save.base].text
<1> SUFFICES ASSUME save.base # 0
             PROVE /\ save.base \in 1..m /\ accepted'[save.base].script = s
                   /\ save.seen = accepted'[save.base].text
  OBVIOUS
<1> DEFINE b == save.base
<1>1. b \in 1..n /\ accepted[b].script = s /\ save.seen = accepted[b].text
  BY DEF BasedOn, TextOf
<1>2. Len(accepted) \in Nat /\ b \in 1..Len(accepted) /\ b \in 1..m
  <2> HIDE DEF b
  <2> QED BY <1>1, ServerTypes
<1>3. accepted'[b] = accepted[b]
  BY <1>2 DEF Grown
<1> QED BY <1>1, <1>2, <1>3

\* A call stays good while the revisions grow.
LEMMA GoodStays ==
  ASSUME ServerInv, ServerInv', Grown, NEW f, GoodFlight(f)
  PROVE GoodFlight(f)'
<1>1. BasedOn(f, f.script, Len(accepted))'
  <2>1. Len(accepted) \in Nat /\ Len(accepted') \in Nat /\ Len(accepted) <= Len(accepted')
    BY DEF ServerInv, Grown
  <2>2. BasedOn(f, f.script, Len(accepted))
    BY DEF GoodFlight
  <2>3. f.base # 0 => /\ f.base \in 1..Len(accepted') /\ accepted'[f.base].script = f.script
                      /\ f.seen = accepted'[f.base].text
    BY <2>1, <2>2, BasedStays
  <2> QED BY <2>3 DEF BasedOn, TextOf
<1>2. (f.phase = "applied" => Promoted(f.script, f.rev))'
  BY PromotedStays DEF GoodFlight
<1>3. f.phase # "post" => /\ f.rev \in 1..Len(accepted')
                          /\ accepted'[f.rev].script = f.script /\ accepted'[f.rev].text = f.text
  BY ServerTypes DEF GoodFlight, Grown, ServerInv
<1> QED BY <1>1, <1>2, <1>3 DEF GoodFlight

\* All the calls stay good while the revisions grow.
LEMMA FlightsStay ==
  ASSUME ServerInv, ServerInv', Grown, FlightsInv
  PROVE \A f \in flights : GoodFlight(f)'
<1> SUFFICES ASSUME NEW f \in flights PROVE GoodFlight(f)'
  OBVIOUS
<1> QED BY GoodStays DEF FlightsInv

\* A step that accepts nothing keeps the accepted saves.
LEMMA SavesStay ==
  ASSUME SavesInv, UNCHANGED accepted
  PROVE SavesInv'
BY DEF SavesInv, BasedOn, TextOf

\* A save whose base is right can be accepted.
LEMMA SavesGrow ==
  ASSUME ServerInv, ServerInv', SavesInv, NEW x, x \in Saves, accepted' = Append(accepted, x),
         UNCHANGED <<decided, heads>>, BasedOn(x, x.script, Len(accepted))
  PROVE SavesInv'
<1> DEFINE n == Len(accepted)
<1>0. n \in Nat
  BY ServerTypes
<1>1. Grown /\ Len(accepted') = n + 1 /\ accepted'[n + 1] = x
  BY AppendGrows
<1> SUFFICES ASSUME NEW r \in 1..(n + 1)
             PROVE BasedOn(accepted[r], accepted[r].script, r - 1)'
  BY <1>1 DEF SavesInv
<1>2. CASE r = n + 1
  <2>1. x.base # 0 => /\ x.base \in 1..n /\ accepted'[x.base].script = x.script
                      /\ x.seen = accepted'[x.base].text
    BY <1>0, <1>1, BasedStays
  <2>2. r - 1 = n
    BY <1>0, <1>2
  <2> QED BY <1>1, <1>2, <2>1, <2>2 DEF BasedOn, TextOf
<1>3. CASE r \in 1..n
  <2>1. BasedOn(accepted[r], accepted[r].script, r - 1) /\ r - 1 \in 0..n /\ r - 1 \in Nat
    BY <1>0, <1>3 DEF SavesInv
  <2>2. accepted[r].base # 0 =>
           /\ accepted[r].base \in 1..(r - 1)
           /\ accepted'[accepted[r].base].script = accepted[r].script
           /\ accepted[r].seen = accepted'[accepted[r].base].text
    BY <1>0, <1>1, <2>1, BasedStays
  <2>3. accepted'[r] = accepted[r]
    BY <1>1, <1>3 DEF Grown
  <2> QED BY <2>2, <2>3 DEF BasedOn, TextOf
<1> QED BY <1>0, <1>2, <1>3

\* A step of the page keeps what the server holds, and a new listing points to
\* promoted revisions.
LEMMA ServerStays ==
  ASSUME ServerInv, UNCHANGED server, view' \in {view, catalog}
  PROVE ServerInv' /\ Grown
<1>1. Grown
  BY SameGrows DEF server
<1>2. ServerInv'
  BY DEF ServerInv, server, Promoted
<1> QED BY <1>1, <1>2

\* Accepting a save promotes nothing.
LEMMA ServerAppends ==
  ASSUME ServerInv, NEW x, x \in Saves, accepted' = Append(accepted, x),
         UNCHANGED <<decided, head, catalog, heads, view>>
  PROVE ServerInv' /\ Grown
<1>1. Grown /\ accepted' \in Seq(Saves) /\ Len(accepted') = Len(accepted) + 1
  BY AppendGrows
<1>2. decided \in Nat /\ decided <= Len(accepted) /\ Len(accepted) \in Nat
  BY ServerTypes
<1>3. \A s, r : Promoted(s, r) => Promoted(s, r)'
  <2> SUFFICES ASSUME NEW s, NEW r, Promoted(s, r) PROVE Promoted(s, r)'
    OBVIOUS
  <2> QED BY <1>1, <1>2 DEF Promoted, Grown
<1> QED BY <1>1, <1>2, <1>3 DEF ServerInv

-----------------------------------------------------------------------------
(* What is shown after a step.                                             *)

\* A save that is accepted does not change what is shown.
LEMMA ActiveSame ==
  ASSUME ServerInv, Grown, selected \in Scripts,
         UNCHANGED <<view, selected, pending, observed>>
  PROVE Active' = Active
<1>1. \A s \in Scripts : Listed(s) => CatalogScript(s)' = CatalogScript(s)
  <2> SUFFICES ASSUME NEW s \in Scripts, Listed(s) PROVE CatalogScript(s)' = CatalogScript(s)
    OBVIOUS
  <2>1. view[s] \in 1..Len(accepted)
    BY PromotedIs DEF ServerInv, Listed
  <2>2. accepted'[view[s]] = accepted[view[s]]
    BY <2>1 DEF Grown
  <2> QED BY <2>2 DEF CatalogScript, Shown, TextOf
<1>2. \A s : Listed(s)' <=> Listed(s)
  BY DEF Listed
<1>3. CASE Listed(selected)
  <2>1. CatalogScript(selected)' = CatalogScript(selected)
    BY <1>1, <1>3 DEF CatalogScript, Shown, TextOf
  <2> QED BY <1>3, <2>1 DEF Active, Listed
<1>4. CASE ~Listed(selected) /\ (observed.script = selected \/ pending.script = selected)
  BY <1>4 DEF Active, Listed, Shown
<1>5. CASE /\ ~Listed(selected) /\ observed.script # selected /\ pending.script # selected
           /\ \E s \in Scripts : Listed(s)
  <2> DEFINE s == CHOOSE t \in Scripts : Listed(t)
  <2>1. s \in Scripts /\ Listed(s)
    BY <1>5
  <2>2. s' = s
    BY DEF Listed
  <2>3. Active = CatalogScript(s)
    BY <1>5 DEF Active
  <2>4. Active' = CatalogScript(s)'
    BY <1>5 DEF Active, Listed
  <2>5. CatalogScript(s)' = CatalogScript(s)
    <3>1. accepted'[view[s]] = accepted[view[s]]
      <4> HIDE DEF s
      <4>1. view[s] \in 1..Len(accepted)
        BY <2>1, PromotedIs DEF ServerInv, Listed
      <4> QED BY <4>1 DEF Grown
    <3> HIDE DEF s
    <3> QED BY <2>2, <3>1 DEF CatalogScript, Shown, TextOf
  <2> QED BY <2>3, <2>4, <2>5
<1>6. CASE /\ ~Listed(selected) /\ observed.script # selected /\ pending.script # selected
           /\ ~\E s \in Scripts : Listed(s)
  BY <1>6 DEF Active, Listed, Shown
<1> QED BY <1>3, <1>4, <1>5, <1>6

\* The same after a step.
LEMMA SourceIsNext ==
  Base' => (Active'.kind # "none" => SourceOf(Active') \in Texts /\ Active'.script \in Scripts)
<1>1. (Base => (Active.kind # "none" => SourceOf(Active) \in Texts /\ Active.script \in Scripts))'
  BY SourceIs, PTL
<1> QED BY <1>1 DEF SourceOf

\* A render that shows something else fills the editor, and any other leaves
\* it with what the action put there.
LEMMA RenderKeeps ==
  ASSUME Base, Base', EditorInv, NEW STATE p, NEW STATE v, NEW STATE o, NEW STATE s,
         Render(p, v, o, s), Active.kind # "none" => p \in Texts,
         Active.kind = "draft" /\ Identity(Active') = Identity(Active) => p = pkg
  PROVE EditorInv'
<1> SUFFICES ASSUME Active'.kind # "none"
             PROVE /\ loaded' = SourceOf(Active') /\ pkg' \in Texts
                   /\ Active'.kind = "draft" => pkg' = SourceOf(Active')
  BY DEF EditorInv, SourceOf
<1>1. SourceOf(Active') \in Texts /\ Active'.script \in Scripts
  BY SourceIsNext
<1>2. CASE Identity(Active') # Identity(Active)
  BY <1>1, <1>2 DEF Render
<1>3. CASE Identity(Active') = Identity(Active)
  <2>1. /\ Active'.script = Active.script /\ Active'.text = Active.text
        /\ (Active'.kind = "draft") = (Active.kind = "draft")
    BY <1>3 DEF Identity
  <2>2. Active.kind # "none"
    <3>1. ActiveOK
      BY ActiveIs
    <3> QED BY <1>1, <2>1, <3>1, ShownFields, ConstantsAssumption DEF ActiveOK
  <2>3. SourceOf(Active') = SourceOf(Active)
    BY <2>1 DEF SourceOf
  <2>4. loaded' = loaded /\ pkg' = p
    BY <1>3 DEF Render
  <2> QED BY <1>3, <2>1, <2>2, <2>3, <2>4 DEF EditorInv
<1> QED BY <1>2, <1>3

\* The observed revision stays promoted.
LEMMA ObservedStays ==
  ASSUME ServerInv, ServerInv', Grown, ObservedInv, UNCHANGED observed
  PROVE ObservedInv'
<1> SUFFICES ASSUME observed # NotObserved
             PROVE /\ observed \in [script : Scripts, rev : Nat, text : Texts]
                   /\ Promoted(observed.script, observed.rev)'
                   /\ observed.text = accepted'[observed.rev].text
  BY DEF ObservedInv, NotObserved, Promoted, TextOf
<1>1. /\ observed \in [script : Scripts, rev : Nat, text : Texts] /\ observed.script \in Scripts
      /\ Promoted(observed.script, observed.rev) /\ observed.text = TextOf(observed.rev)
  BY DEF ObservedInv
<1>2. /\ Promoted(observed.script, observed.rev)'
      /\ accepted'[observed.rev] = accepted[observed.rev]
  BY <1>1, PromotedStays
<1> QED BY <1>1, <1>2 DEF TextOf

\* A step that touches neither the page nor the editor.
LEMMA QuietStep ==
  ASSUME Base, EditorInv, ServerInv', Grown, UNCHANGED <<parent, pkg, loaded, observed>>
  PROVE Base' /\ EditorInv'
<1>1. ObservedInv'
  BY ObservedStays DEF Base
<1>2. DraftInv'
  BY DEF Base, DraftInv, parent
<1>3. Active' = Active
  BY ActiveSame DEF Base, DraftInv, parent
<1>4. EditorInv'
  BY <1>3 DEF EditorInv, SourceOf
<1> QED BY <1>1, <1>2, <1>4 DEF Base

-----------------------------------------------------------------------------
(* The calls after a step.                                                 *)

\* A good call in another phase is good.
LEMMA PhaseGood ==
  ASSUME NEW f, NEW phase \in Phases, NEW b \in BOOLEAN, GoodFlight(f)',
         f.phase = "post" => phase = "post", phase = "post" => f.phase = "post",
         phase = "applied" => Promoted(f.script, f.rev)',
         phase = "timer" => f.attempt < PollLimit
  PROVE GoodFlight(Flight(f, phase, b))'
<1> DEFINE g == Flight(f, phase, b)
<1>1. /\ g.script = f.script /\ g.text = f.text /\ g.base = f.base /\ g.seen = f.seen
      /\ g.drafted = f.drafted /\ g.rev = f.rev /\ g.token = f.token
      /\ g.attempt = f.attempt /\ g.phase = phase /\ g.stale = b
  BY DEF Flight
<1>2. g \in Flights
  BY DEF GoodFlight, Flights, Flight
<1>3. GoodFlight(g)'
  <2> HIDE DEF g
  <2> QED BY <1>1, <1>2 DEF GoodFlight, BasedOn, TextOf, Promoted
<1> QED BY <1>3

\* Replacing one call by a good one keeps the calls good.
LEMMA ReplacedGood ==
  ASSUME \A f \in flights : GoodFlight(f)', NEW f, NEW g, GoodFlight(g)'
  PROVE \A h \in Replace(f, g) : GoodFlight(h)'
BY DEF Replace

\* Cancelling the timers keeps the other calls good.
LEMMA TimersGood ==
  ASSUME NEW STATE fs, \A f \in fs : GoodFlight(f)', NEW b \in BOOLEAN
  PROVE \A g \in WithoutTimers(fs, b) : GoodFlight(g)'
<1> SUFFICES ASSUME NEW g \in WithoutTimers(fs, b) PROVE GoodFlight(g)'
  OBVIOUS
<1>1. PICK f \in fs : f.phase # "timer" /\ g = Flight(f, f.phase, f.stale \/ (b /\ f.phase # "post"))
  BY DEF WithoutTimers
<1>2. GoodFlight(f)'
  BY <1>1
<1>3. f.phase \in Phases /\ (f.phase = "applied" => Promoted(f.script, f.rev)') /\ f.stale \in BOOLEAN
  BY <1>2 DEF GoodFlight, Flights, Promoted
<1>4. (f.stale \/ (b /\ f.phase # "post")) \in BOOLEAN
  OBVIOUS
<1> QED BY <1>1, <1>2, <1>3, <1>4, PhaseGood

\* So does showing another script.
LEMMA MovedGood ==
  ASSUME NEW STATE fs, \A f \in fs : GoodFlight(f)', CancelIfMoved(fs)
  PROVE FlightsInv'
<1>1. \A f \in WithoutTimers(fs, TRUE) : GoodFlight(f)'
  BY TimersGood
<1>2. flights' = fs \/ flights' = WithoutTimers(fs, TRUE)
  BY DEF CancelIfMoved
<1> QED BY <1>1, <1>2 DEF FlightsInv

\* A step that leaves the revisions, the page and the editor alone.
LEMMA QuietAll ==
  ASSUME IInv, UNCHANGED <<parent, pkg, loaded, observed, server>>
  PROVE /\ Base' /\ EditorInv' /\ SavesInv' /\ Grown
        /\ \A f \in flights : GoodFlight(f)'
<1>1. ServerInv' /\ Grown
  <2>1. view' \in {view, catalog} /\ UNCHANGED server
    BY DEF parent
  <2> QED BY <2>1, ServerStays DEF IInv, Base
<1>2. Base' /\ EditorInv'
  BY <1>1, QuietStep DEF IInv, Base
<1>3. SavesInv'
  BY SavesStay DEF IInv, server
<1>4. \A f \in flights : GoodFlight(f)'
  BY <1>1, FlightsStay DEF IInv, Base
<1> QED BY <1>1, <1>2, <1>3, <1>4

\* A step that gives the call another phase, or ends it.
LEMMA QuietPhase ==
  ASSUME IInv, UNCHANGED <<parent, pkg, loaded, observed, server>>, NEW f \in flights,
         \/ flights' = flights \ {f}
         \/ \E phase \in Phases, b \in BOOLEAN :
              /\ flights' = Replace(f, Flight(f, phase, b))
              /\ f.phase # "post" /\ phase # "post"
              /\ phase = "applied" => Promoted(f.script, f.rev)
              /\ phase = "timer" => f.attempt < PollLimit
  PROVE IInv'
<1>1. /\ Base' /\ EditorInv' /\ SavesInv' /\ Grown
      /\ \A g \in flights : GoodFlight(g)'
  BY QuietAll
<1>2. CASE flights' = flights \ {f}
  BY <1>1, <1>2 DEF IInv, FlightsInv
<1>3. ASSUME NEW phase \in Phases, NEW b \in BOOLEAN,
             flights' = Replace(f, Flight(f, phase, b)),
             f.phase # "post", phase # "post", phase = "applied" => Promoted(f.script, f.rev),
             phase = "timer" => f.attempt < PollLimit
      PROVE IInv'
  <2>1. phase = "applied" => Promoted(f.script, f.rev)'
    BY <1>3 DEF Promoted, server
  <2>2. GoodFlight(Flight(f, phase, b))'
    BY <1>1, <1>3, <2>1, PhaseGood
  <2>3. \A h \in Replace(f, Flight(f, phase, b)) : GoodFlight(h)'
    BY <1>1, <2>2, ReplacedGood
  <2> QED BY <1>1, <1>3, <2>3 DEF IInv, FlightsInv
<1> QED BY <1>2, <1>3

-----------------------------------------------------------------------------
(* The steps that keep the page and the editor.                            *)

\* Validation and the leave dialog.
LEMMA ValidateStep ==
  ASSUME IInv, Validate \/ ValidateAnswer \/ Stay
  PROVE IInv'
<1>1. UNCHANGED <<parent, pkg, loaded, observed, server, flights>>
  BY DEF Validate, ValidateAnswer, Stay, panel
<1> QED BY <1>1, QuietAll DEF IInv, FlightsInv

\* A save is sent with the base it shows and the source the editor was filled
\* with.
LEMMA SaveStep ==
  ASSUME IInv, Save
  PROVE IInv'
<1> DEFINE g == [script |-> Active.script, text |-> pkg, base |-> Active.rev, seen |-> loaded,
                 drafted |-> pending.script = Active.script,
                 rev |-> 0, token |-> 0, attempt |-> 0, phase |-> "post", stale |-> FALSE]
<1>1. /\ Active.kind # "none" /\ flights' = WithoutTimers(flights, FALSE) \cup {g}
      /\ UNCHANGED <<parent, pkg, loaded, observed, server>>
  BY DEF Save, CanSave, panel
<1>2. /\ Base' /\ EditorInv' /\ SavesInv' /\ Grown
      /\ \A f \in flights : GoodFlight(f)'
  BY <1>1, QuietAll
<1>3. \A f \in WithoutTimers(flights, FALSE) : GoodFlight(f)'
  BY <1>2, TimersGood
<1>4. loaded = SourceOf(Active) /\ pkg \in Texts /\ loaded \in Texts /\ Active.script \in Scripts
  BY <1>1, SourceIs DEF IInv, EditorInv
<1>5. Active.rev \in Nat /\ (Active.rev # 0 => /\ Active.rev \in 1..Len(accepted)
                                               /\ accepted[Active.rev].script = Active.script
                                               /\ loaded = accepted[Active.rev].text)
  <2>1. ActiveOK
    BY ActiveIs DEF IInv
  <2>2. CASE Active.kind = "draft"
    BY <2>1, <2>2 DEF ActiveOK
  <2>3. CASE Active.kind # "draft"
    <3>1. Active.rev \in Nat /\ Promoted(Active.script, Active.rev) /\ Active.text = TextOf(Active.rev)
      BY <1>1, <2>1, <2>3 DEF ActiveOK
    <3>2. Active.rev \in 1..Len(accepted) /\ accepted[Active.rev].script = Active.script
      BY <1>4, <3>1, PromotedIs DEF IInv, Base
    <3>3. loaded = Active.text
      BY <1>4, <2>3 DEF SourceOf
    <3> QED BY <3>1, <3>2, <3>3 DEF TextOf
  <2> QED BY <2>2, <2>3
<1>6. /\ g.script = Active.script /\ g.text = pkg /\ g.base = Active.rev /\ g.seen = loaded
      /\ g.rev = 0 /\ g.phase = "post" /\ g.attempt = 0
  OBVIOUS
<1>7. g \in Flights
  <2>1. (pending.script = Active.script) \in BOOLEAN /\ 0 \in 0..PollLimit
    BY ConstantsAssumption
  <2> QED BY <1>4, <1>5, <2>1 DEF Flights, Phases
<1>8. accepted' = accepted
  BY <1>1 DEF server
<1>9. \A h : h = g => GoodFlight(h)'
  <2> SUFFICES ASSUME NEW h, h = g PROVE GoodFlight(h)'
    OBVIOUS
  <2> HIDE DEF g
  <2> QED BY <1>5, <1>6, <1>7, <1>8 DEF GoodFlight, BasedOn, TextOf
<1>10. \A h \in flights' : GoodFlight(h)'
  BY <1>1, <1>3, <1>9
<1> QED BY <1>2, <1>10 DEF IInv, FlightsInv

\* An observation answers applied for a promoted revision only.
LEMMA ObserveStep ==
  ASSUME IInv, NEW f \in flights, Observe(f)
  PROVE IInv'
<1>1. /\ f.phase = "observe" /\ UNCHANGED <<parent, pkg, loaded, observed, server>>
      /\ \E answer \in {Status(f), "error"} : flights' = Replace(f, Flight(f, answer, f.stale))
  BY DEF Observe, panel
<1>2. GoodFlight(f)
  BY DEF IInv, FlightsInv
<1>3. f.stale \in BOOLEAN /\ f.script \in Scripts /\ f.rev \in 1..Len(accepted) /\ f.rev # 0
  BY <1>1, <1>2, ServerTypes DEF GoodFlight, Flights, IInv, Base
<1>4. Status(f) \in {"applied", "rejected", "pending"}
      /\ (Status(f) = "applied" => Promoted(f.script, f.rev))
  BY <1>3 DEF Status, IInv, Base, ServerInv
<1>5. PICK answer \in {Status(f), "error"} : flights' = Replace(f, Flight(f, answer, f.stale))
  BY <1>1
<1>6. /\ answer \in Phases /\ answer # "post" /\ answer # "timer"
      /\ answer = "applied" => Promoted(f.script, f.rev)
  BY <1>4, <1>5 DEF Phases
<1> HIDE DEF Phases
<1> QED BY <1>1, <1>3, <1>5, <1>6, QuietPhase

\* The answers that end a call or give it another phase.
LEMMA PhaseStep ==
  ASSUME IInv, NEW f \in flights,
         Ignored(f) \/ Rejected(f) \/ NotYet(f) \/ ObservationFails(f) \/ Conclude(f)
  PROVE IInv'
<1>1. UNCHANGED <<parent, pkg, loaded, observed, server>>
  BY DEF Ignored, Rejected, NotYet, ObservationFails, Conclude, panel
<1>2. f.stale \in BOOLEAN /\ f.attempt \in 0..PollLimit
  BY DEF IInv, FlightsInv, GoodFlight, Flights
<1>3. CASE Ignored(f) \/ ObservationFails(f) \/ Conclude(f)
  <2>1. flights' = flights \ {f}
    BY <1>3 DEF Ignored, ObservationFails, Conclude
  <2> QED BY <1>1, <2>1, QuietPhase
<1>4. CASE Rejected(f)
  <2>1. f.phase = "rejected" /\ flights' = Replace(f, Flight(f, "refreshRejected", f.stale))
    BY <1>4 DEF Rejected
  <2>2. "refreshRejected" \in Phases
    BY DEF Phases
  <2> QED BY <1>1, <1>2, <2>1, <2>2, QuietPhase
<1>5. CASE NotYet(f)
  <2>1. f.phase = "pending"
        /\ flights' = IF f.attempt >= PollLimit THEN flights \ {f}
                      ELSE Replace(f, Flight(f, "timer", f.stale))
    BY <1>5 DEF NotYet
  <2>2. "timer" \in Phases
    BY DEF Phases
  <2>3. CASE f.attempt >= PollLimit
    BY <1>1, <2>1, <2>3, QuietPhase
  <2>4. CASE ~(f.attempt >= PollLimit)
    <3>1. f.attempt < PollLimit
      BY <1>2, <2>4, ConstantsAssumption
    <3> QED BY <1>1, <1>2, <2>1, <2>2, <2>4, <3>1, QuietPhase
  <2> QED BY <2>3, <2>4
<1> QED BY <1>3, <1>4, <1>5

\* A timer starts the next observation, within the limit.
LEMMA TimerStep ==
  ASSUME IInv, NEW f \in flights, Timer(f)
  PROVE IInv'
<1> DEFINE g == [script |-> f.script, text |-> f.text, base |-> f.base, seen |-> f.seen,
                 drafted |-> f.drafted, rev |-> f.rev, token |-> f.token,
                 attempt |-> f.attempt + 1, phase |-> "observe", stale |-> f.stale]
<1>1. /\ f.phase = "timer" /\ UNCHANGED <<parent, pkg, loaded, observed, server>>
      /\ flights' = Replace(f, g)
  BY DEF Timer, panel
<1>2. /\ Base' /\ EditorInv' /\ SavesInv' /\ Grown
      /\ \A h \in flights : GoodFlight(h)'
  BY <1>1, QuietAll
<1>3. f \in Flights /\ f.attempt < PollLimit
  BY <1>1 DEF IInv, FlightsInv, GoodFlight
<1>4. f.attempt + 1 \in 0..PollLimit
  BY <1>3, ConstantsAssumption DEF Flights
<1>5. g \in Flights
  BY <1>3, <1>4 DEF Flights, Phases
<1>6. /\ g.script = f.script /\ g.text = f.text /\ g.base = f.base /\ g.seen = f.seen
      /\ g.rev = f.rev /\ g.phase = "observe"
  OBVIOUS
<1>7. GoodFlight(f)'
  BY <1>2
<1>8. GoodFlight(g)'
  <2> HIDE DEF g
  <2> QED BY <1>1, <1>5, <1>6, <1>7 DEF GoodFlight, BasedOn, TextOf
<1>9. \A h \in Replace(f, g) : GoodFlight(h)'
  <2> HIDE DEF g
  <2> QED BY <1>2, <1>8, ReplacedGood
<1> QED BY <1>1, <1>2, <1>9 DEF IInv, FlightsInv

-----------------------------------------------------------------------------
(* The steps of the server.                                                *)

\* One more save, of a source seen at its base revision.
LEMMA AcceptKeeps ==
  ASSUME IInv, NEW x, x \in Saves, accepted' = Append(accepted, x),
         BasedOn(x, x.script, Len(accepted)),
         UNCHANGED <<parent, pkg, loaded, observed, decided, head, catalog, heads>>
  PROVE /\ Base' /\ EditorInv' /\ SavesInv' /\ Grown
        /\ \A f \in flights : GoodFlight(f)'
<1>1. ServerInv /\ SavesInv /\ UNCHANGED view
  BY DEF IInv, Base, parent
<1>2. ServerInv' /\ Grown
  BY <1>1, ServerAppends
<1>3. Base' /\ EditorInv'
  BY <1>2, QuietStep DEF IInv, Base
<1>4. SavesInv'
  BY <1>1, <1>2, SavesGrow
<1>5. \A f \in flights : GoodFlight(f)'
  BY <1>1, <1>2, FlightsStay DEF IInv
<1> QED BY <1>2, <1>3, <1>4, <1>5

\* What a call sends is a save whose base is right.
LEMMA FlightSave ==
  ASSUME IInv, NEW f \in flights
  PROVE LET x == [script |-> f.script, text |-> f.text, base |-> f.base, seen |-> f.seen]
        IN  x \in Saves /\ BasedOn(x, x.script, Len(accepted))
<1>1. GoodFlight(f)
  BY DEF IInv, FlightsInv
<1> DEFINE x == [script |-> f.script, text |-> f.text, base |-> f.base, seen |-> f.seen]
<1>2. x.script = f.script /\ x.base = f.base /\ x.seen = f.seen
  OBVIOUS
<1>3. x \in Saves
  BY <1>1 DEF GoodFlight, Flights, Saves
<1>4. BasedOn(x, x.script, Len(accepted))
  <2> HIDE DEF x
  <2> QED BY <1>1, <1>2 DEF GoodFlight, BasedOn
<1> QED BY <1>3, <1>4

\* The server answers a save.
LEMMA SaveAcceptedStep ==
  ASSUME IInv, token \in Nat, NEW f \in flights, SaveAccepted(f)
  PROVE IInv'
<1> DEFINE x == [script |-> f.script, text |-> f.text, base |-> f.base, seen |-> f.seen]
           g == [script |-> f.script, text |-> f.text, base |-> f.base, seen |-> f.seen,
                 drafted |-> f.drafted, rev |-> Len(accepted) + 1, token |-> token,
                 attempt |-> 0, phase |-> "observe", stale |-> FALSE]
<1>1. /\ accepted' = Append(accepted, x) /\ flights' = Replace(f, g)
      /\ UNCHANGED <<parent, pkg, loaded, observed, decided, head, catalog, heads>>
  BY DEF SaveAccepted, Accept
<1>2. x \in Saves /\ BasedOn(x, x.script, Len(accepted))
  BY FlightSave
<1>3. /\ Base' /\ EditorInv' /\ SavesInv' /\ Grown
      /\ \A h \in flights : GoodFlight(h)'
  <2> HIDE DEF x
  <2> QED BY <1>1, <1>2, AcceptKeeps
<1>4. /\ Len(accepted) \in Nat /\ Len(accepted') = Len(accepted) + 1
      /\ accepted'[Len(accepted) + 1] = x
  <2> HIDE DEF x
  <2> QED BY <1>1, <1>2, AppendGrows, ServerTypes DEF IInv, Base
<1>5. GoodFlight(f)' /\ f \in Flights
  BY <1>3 DEF IInv, FlightsInv, GoodFlight
<1>6. /\ g.script = f.script /\ g.text = f.text /\ g.base = f.base /\ g.seen = f.seen
      /\ g.rev = Len(accepted) + 1 /\ g.phase = "observe" /\ x.script = f.script /\ x.text = f.text
  OBVIOUS
<1>7. g \in Flights
  <2>1. 0 \in 0..PollLimit
    BY ConstantsAssumption
  <2> QED BY <1>4, <1>5, <2>1 DEF Flights, Phases
<1>8. \A h : h = g => GoodFlight(h)'
  <2> SUFFICES ASSUME NEW h, h = g PROVE GoodFlight(h)'
    OBVIOUS
  <2> HIDE DEF g, x
  <2>1. Len(accepted) + 1 \in 1..(Len(accepted) + 1)
    BY <1>4
  <2> QED BY <1>4, <1>5, <1>6, <1>7, <2>1 DEF GoodFlight, BasedOn, TextOf
<1>9. \A h \in flights' : GoodFlight(h)'
  <2> HIDE DEF g
  <2> QED BY <1>1, <1>3, <1>8 DEF Replace
<1> QED BY <1>1, <1>3, <1>9 DEF IInv, FlightsInv

\* A save fails, whether or not it was accepted.
LEMMA SaveFailsStep ==
  ASSUME IInv, NEW f \in flights, SaveFails(f)
  PROVE IInv'
<1> DEFINE x == [script |-> f.script, text |-> f.text, base |-> f.base, seen |-> f.seen]
<1>1. /\ accepted' = Append(accepted, x) \/ UNCHANGED accepted
      /\ flights' = flights \ {f}
      /\ UNCHANGED <<parent, pkg, loaded, observed, token, decided, head, catalog, heads>>
  BY DEF SaveFails, Accept
<1>2. x \in Saves /\ BasedOn(x, x.script, Len(accepted))
  BY FlightSave
<1>3. /\ Base' /\ EditorInv' /\ SavesInv'
      /\ \A h \in flights : GoodFlight(h)'
  <2>1. CASE accepted' = Append(accepted, x)
    <3> HIDE DEF x
    <3> QED BY <1>1, <1>2, <2>1, AcceptKeeps
  <2>2. CASE UNCHANGED accepted
    <3>1. UNCHANGED server
      BY <1>1, <2>2 DEF server
    <3> QED BY <1>1, <3>1, QuietAll
  <2> QED BY <1>1, <2>1, <2>2
<1> QED BY <1>1, <1>3 DEF IInv, FlightsInv

\* Another page saves.
LEMMA PeerStep ==
  ASSUME IInv, NEW s \in Scripts, NEW text \in Texts, PeerSave(s, text)
  PROVE IInv'
<1> DEFINE r == catalog[s]
           x == [script |-> s, text |-> text, base |-> r, seen |-> TextOf(r)]
<1>1. /\ catalog[s] # 0 /\ accepted' = Append(accepted, x)
      /\ UNCHANGED <<parent, pkg, loaded, observed, token, flights, decided, head, catalog, heads>>
  BY DEF PeerSave, panel
<1>2. /\ r \in 1..Len(accepted) /\ r \in Nat /\ accepted[r].script = s /\ TextOf(r) \in Texts
  <2>1. Promoted(s, r)
    BY <1>1 DEF IInv, Base, ServerInv
  <2> QED BY <2>1, PromotedIs DEF IInv, Base
<1>3. x \in Saves /\ BasedOn(x, x.script, Len(accepted))
  <2>1. x.script = s /\ x.base = r /\ x.seen = TextOf(r)
    OBVIOUS
  <2> HIDE DEF r
  <2>2. x \in Saves
    BY <1>2 DEF Saves
  <2> HIDE DEF x
  <2> QED BY <1>2, <2>1, <2>2 DEF BasedOn
<1>4. /\ Base' /\ EditorInv' /\ SavesInv'
      /\ \A h \in flights : GoodFlight(h)'
  <2> HIDE DEF x
  <2> QED BY <1>1, <1>3, AcceptKeeps
<1> QED BY <1>1, <1>4 DEF IInv, FlightsInv

\* The catalog actor and its read model.
LEMMA PromoteStep ==
  ASSUME IInv, Promote \/ \E s \in Scripts : Project(s)
  PROVE IInv'
<1>1. UNCHANGED <<parent, pkg, loaded, observed, token, flights, accepted>>
  BY DEF Promote, Project, panel
<1>2. ServerInv' /\ Grown
  <2>1. ServerInv /\ view' = view
    BY <1>1 DEF IInv, Base, parent
  <2>2. CASE Promote
    <3> DEFINE r == decided + 1
    <3>1. /\ decided < Len(accepted) /\ decided' = r /\ catalog' = catalog
          /\ \/ head' = head /\ heads' = heads
             \/ /\ head' = [head EXCEPT ![accepted[r].script] = r]
                /\ heads' = heads \cup {[script |-> accepted[r].script, rev |-> r,
                                          text |-> accepted[r].text]}
      BY <2>2 DEF Promote
    <3>2. /\ decided \in Nat /\ Len(accepted) \in Nat /\ r \in 1..Len(accepted) /\ r \in Nat /\ r # 0
          /\ r <= Len(accepted) /\ decided <= r
      BY <2>1, <3>1, ServerTypes
    <3>3. accepted[r] \in Saves
      BY <2>1, <3>2 DEF ServerInv
    <3>4. accepted[r].script \in Scripts /\ accepted[r].text \in Texts
      BY <3>3 DEF Saves
    <3> HIDE DEF r
    <3> DEFINE P(s, q) == /\ q \in 1..decided' /\ accepted'[q].script = s
                          /\ [script |-> s, rev |-> q, text |-> accepted'[q].text] \in heads'
    <3>a. heads \subseteq heads' /\ accepted' = accepted
      BY <1>1, <3>1
    <3>5. \A s, q : Promoted(s, q) => P(s, q)
      BY <3>a, <3>1, <3>2 DEF Promoted
    <3>6. head' # head => P(accepted[r].script, r)
      BY <3>a, <3>1, <3>2
    <3>b. heads' \subseteq [script : Scripts, rev : 1..decided', text : Texts]
      <4>1. heads \subseteq [script : Scripts, rev : 1..r, text : Texts]
        BY <2>1, <3>2 DEF ServerInv
      <4>2. [script |-> accepted[r].script, rev |-> r, text |-> accepted[r].text]
              \in [script : Scripts, rev : 1..r, text : Texts]
        BY <3>2, <3>4
      <4> QED BY <3>1, <4>1, <4>2
    <3>7. head' \in [Scripts -> Nat] /\ \A s \in Scripts : head'[s] # 0 => P(s, head'[s])
      <4> HIDE DEF P
      <4>1. head \in [Scripts -> Nat] /\ \A s \in Scripts : head[s] # 0 => P(s, head[s])
        BY <2>1, <3>5 DEF ServerInv
      <4> QED BY <3>1, <3>2, <3>4, <3>6, <4>1
    <3>8. /\ catalog' \in [Scripts -> Nat] /\ \A s \in Scripts : catalog'[s] # 0 => P(s, catalog'[s])
          /\ view' \in [Scripts -> Nat] /\ \A s \in Scripts : view'[s] # 0 => P(s, view'[s])
      <4> HIDE DEF P
      <4> QED BY <2>1, <3>1, <3>5 DEF ServerInv
    <3>9. ServerInv'
      <4>1. \A q, n : P(q, n) <=> Promoted(q, n)'
        BY DEF Promoted
      <4>2. accepted' \in Seq(Saves) /\ decided' \in Nat /\ decided' <= Len(accepted')
        BY <2>1, <3>a, <3>1, <3>2 DEF ServerInv
      <4> HIDE DEF P
      <4> QED BY <3>b, <3>7, <3>8, <4>1, <4>2 DEF ServerInv
    <3>10. Grown
      BY <3>a, <3>1, <3>2 DEF Grown
    <3> QED BY <3>9, <3>10
  <2>3. CASE \E s \in Scripts : Project(s)
    <3>1. PICK s \in Scripts : /\ catalog' = [catalog EXCEPT ![s] = head[s]]
                               /\ UNCHANGED <<decided, head, heads>>
      BY <2>3 DEF Project
    <3>2. \A q, n : Promoted(q, n)' <=> Promoted(q, n)
      BY <1>1, <3>1 DEF Promoted
    <3>3. catalog' \in [Scripts -> Nat] /\ \A q \in Scripts : catalog'[q] \in {catalog[q], head[q]}
      BY <2>1, <3>1 DEF ServerInv
    <3>4. \A q \in Scripts : catalog'[q] # 0 => Promoted(q, catalog'[q])
      BY <2>1, <3>3 DEF ServerInv
    <3>5. ServerInv'
      <4>1. \A m \in {head', catalog', view'} :
              m \in [Scripts -> Nat] /\ \A q \in Scripts : m[q] # 0 => Promoted(q, m[q])'
        BY <2>1, <3>1, <3>2, <3>3, <3>4 DEF ServerInv
      <4> QED BY <1>1, <2>1, <3>1, <4>1 DEF ServerInv
    <3> QED BY <1>1, <2>1, <3>1, <3>5, SameGrows
  <2> QED BY <2>2, <2>3
<1>3. Base' /\ EditorInv'
  BY <1>1, <1>2, QuietStep DEF IInv, Base
<1>4. SavesInv'
  BY <1>1, SavesStay DEF IInv
<1>5. \A f \in flights : GoodFlight(f)'
  BY <1>2, FlightsStay DEF IInv, Base
<1> QED BY <1>1, <1>3, <1>4, <1>5 DEF IInv, FlightsInv

-----------------------------------------------------------------------------
(* The steps after which the page shows something else.                    *)

\* A draft is shown when nothing else of the selected script is.
LEMMA DraftShown ==
  ASSUME Base, Active.kind = "draft"
  PROVE /\ ~Listed(selected) /\ observed.script # selected /\ pending.script = selected
        /\ pending # NoDraft /\ pending.text \in Texts \cup {None} /\ Active.text = pending.text
        /\ Active.script = selected
<1>1. selected \in Scripts /\ pending \in Drafts
  BY DEF Base, DraftInv
<1>2. \A s : CatalogScript(s).kind = "catalog"
  BY DEF CatalogScript, Shown
<1>3. ~Listed(selected) /\ observed.script # selected /\ pending.script = selected
  BY <1>2, ShownFields DEF Active
<1>4. pending # NoDraft
  BY <1>1, <1>3, ConstantsAssumption DEF NoDraft
<1>5. pending.text \in Texts \cup {None}
  BY <1>1, <1>4 DEF Drafts
<1>6. Active.text = pending.text /\ Active.script = selected
  BY <1>3, ShownFields DEF Active
<1> QED BY <1>3, <1>4, <1>5, <1>6

\* A step of the page that ends in a render of what the editor holds.
LEMMA SettledKeeps ==
  ASSUME IInv, Base', Grown, UNCHANGED accepted, Render(pkg, verdict, obs, saveStatus),
         FlightsInv'
  PROVE IInv'
<1>1. SavesInv'
  BY SavesStay DEF IInv
<1>2. EditorInv'
  <2>1. Active.kind # "none" => pkg \in Texts
    BY DEF IInv, EditorInv
  <2> QED BY <2>1, RenderKeeps DEF IInv
<1> QED BY <1>1, <1>2 DEF IInv

\* The same where the calls are those of before.
LEMMA SettledStep ==
  ASSUME IInv, Base', Grown, UNCHANGED accepted, Settled
  PROVE IInv'
<1>1. \A f \in flights : GoodFlight(f)'
  BY FlightsStay DEF IInv, Base
<1>2. FlightsInv'
  BY <1>1, MovedGood DEF Settled
<1> QED BY <1>2, SettledKeeps DEF Settled

\* An edit of a draft fills the editor again with what was typed.
LEMMA EditStep ==
  ASSUME IInv, NEW text \in Texts, Edit(text)
  PROVE IInv'
<1>1. /\ Active.kind # "none" /\ text # pkg
      /\ UNCHANGED <<selected, view, observed, server>>
      /\ flights' = WithoutTimers(flights, TRUE)
      /\ Render(text, "unknown", "idle", "idle")
  BY DEF Edit, Cancel
<1>2. ServerInv' /\ Grown /\ ObservedInv'
  <2>1. ServerInv' /\ Grown
    BY <1>1, ServerStays DEF IInv, Base
  <2> QED BY <1>1, <2>1, ObservedStays DEF IInv, Base
<1>3. DraftInv' /\ (Active.kind = "draft" => Identity(Active') # Identity(Active))
  <2>1. CASE Active.kind = "draft"
    <3>1. /\ ~Listed(selected) /\ observed.script # selected /\ pending.script = selected
          /\ pending # NoDraft /\ pending.text \in Texts \cup {None} /\ Active.text = pending.text
      BY <2>1, DraftShown DEF IInv
    <3>2. /\ pending' = [script |-> selected, text |-> text]
          /\ stored' = [stored EXCEPT ![selected] = pending']
      BY <2>1, <3>1 DEF Edit
    <3>3. selected \in Scripts /\ stored \in [Scripts -> Drafts]
      BY DEF IInv, Base, DraftInv
    <3>4. pending' \in Drafts /\ pending'.script = selected /\ pending'.text = text
      BY <3>2, <3>3 DEF Drafts
    <3>5. stored' \in [Scripts -> Drafts] /\ stored'[selected] = pending'
          /\ \A s \in Scripts : s # selected => stored'[s] = stored[s]
      BY <3>2, <3>3, <3>4
    <3>6. DraftInv'
      BY <1>1, <3>3, <3>4, <3>5 DEF IInv, Base, DraftInv, NoDraft
    <3>7. Active' = Shown("draft", selected, 0, text)
      BY <1>1, <3>1, <3>4 DEF Active, Listed
    <3>8. pending.text # text
      <4> SUFFICES ASSUME pending.text = text PROVE FALSE
        OBVIOUS
      <4>1. pkg = SourceOf(Active)
        BY <2>1 DEF IInv, EditorInv
      <4>2. text # None
        BY ConstantsAssumption
      <4> QED BY <1>1, <3>1, <4>1, <4>2 DEF SourceOf
    <3>9. Active'.text = text
      BY <3>7, ShownFields
    <3> QED BY <3>1, <3>6, <3>8, <3>9 DEF Identity
  <2>2. CASE Active.kind # "draft"
    <3>1. UNCHANGED <<pending, stored>>
      BY <2>2 DEF Edit
    <3> QED BY <1>1, <2>2, <3>1 DEF IInv, Base, DraftInv
  <2> QED BY <2>1, <2>2
<1>4. Base'
  BY <1>2, <1>3 DEF Base
<1>5. EditorInv'
  BY <1>1, <1>3, <1>4, RenderKeeps DEF IInv
<1>6. SavesInv'
  BY <1>1, SavesStay DEF IInv, server
<1>7. \A f \in flights : GoodFlight(f)'
  BY <1>2, FlightsStay DEF IInv, Base
<1>8. FlightsInv'
  <2>1. \A f \in WithoutTimers(flights, TRUE) : GoodFlight(f)'
    BY <1>7, TimersGood
  <2> QED BY <1>1, <2>1 DEF FlightsInv
<1> QED BY <1>4, <1>5, <1>6, <1>8 DEF IInv

\* Another script is picked.
LEMMA PickStep ==
  ASSUME IInv, NEW s \in Scripts, PickScript(s)
  PROVE IInv'
<1>1. /\ selected' = s /\ pending' = stored[s] /\ Settled
      /\ UNCHANGED <<stored, view, observed, server>>
  BY DEF PickScript, LoadDraft
<1>2. ServerInv' /\ Grown
  BY <1>1, ServerStays DEF IInv, Base
<1>3. DraftInv'
  BY <1>1 DEF IInv, Base, DraftInv
<1>4. Base'
  BY <1>1, <1>2, <1>3, ObservedStays DEF IInv, Base
<1> QED BY <1>1, <1>2, <1>4, SettledStep DEF server

\* Another script is opened or created.
LEMMA GoStep ==
  ASSUME IInv, NEW to, NEW s \in Scripts, Go(to, s)
  PROVE IInv'
<1>1. Settled /\ UNCHANGED <<view, observed, server>>
  BY DEF Go
<1>2. ServerInv' /\ Grown
  BY <1>1, ServerStays DEF IInv, Base
<1>3. DraftInv'
  <2>1. CASE to = "create"
    <3>1. /\ selected' = s /\ pending' = [script |-> s, text |-> None]
          /\ stored' = [stored EXCEPT ![s] = pending']
      BY <2>1 DEF Go, Create
    <3>2. pending' \in Drafts /\ pending'.script = s
      BY <3>1 DEF Drafts
    <3>3. stored \in [Scripts -> Drafts]
      BY DEF IInv, Base, DraftInv
    <3>4. stored' \in [Scripts -> Drafts] /\ stored'[s] = pending'
          /\ \A t \in Scripts : t # s => stored'[t] = stored[t]
      BY <3>1, <3>2, <3>3
    <3> QED BY <3>1, <3>2, <3>4 DEF IInv, Base, DraftInv, NoDraft
  <2>2. CASE to # "create"
    <3>1. selected' = s /\ UNCHANGED <<pending, stored>>
      BY <2>2 DEF Go, Open
    <3> QED BY <3>1 DEF IInv, Base, DraftInv
  <2> QED BY <2>1, <2>2
<1>4. Base'
  BY <1>1, <1>2, <1>3, ObservedStays DEF IInv, Base
<1> QED BY <1>1, <1>2, <1>4, SettledStep DEF server

\* The leave guard.
LEMMA NavigateStep ==
  ASSUME IInv, NEW to, NEW s \in Scripts, Navigate(to, s)
  PROVE IInv'
<1>1. CASE Dirty
  <2>1. UNCHANGED <<parent, pkg, loaded, observed, token, flights, server>>
    BY <1>1 DEF Navigate, panel
  <2> QED BY <2>1, QuietAll DEF IInv, FlightsInv
<1>2. CASE ~Dirty
  <2>1. Go(to, s)
    BY <1>2 DEF Navigate
  <2> QED BY <2>1, GoStep
<1> QED BY <1>1, <1>2

\* The page is loaded again.
LEMMA ReloadStep ==
  ASSUME IInv, Reload
  PROVE IInv'
<1>1. /\ UNCHANGED <<selected, stored, server>> /\ pending' = stored[selected]
      /\ view' = catalog /\ observed' = NotObserved /\ flights' = {}
      /\ pkg' = SourceOf(Active') /\ loaded' = pkg'
  BY DEF Reload, LoadDraft
<1>2. ServerInv' /\ Grown
  BY <1>1, ServerStays DEF IInv, Base
<1>3. DraftInv'
  BY <1>1 DEF IInv, Base, DraftInv
<1>4. Base'
  BY <1>1, <1>2, <1>3 DEF Base, ObservedInv, NotObserved
<1>5. EditorInv'
  <2>1. Active'.kind # "none" => SourceOf(Active') \in Texts
    BY <1>4, SourceIsNext
  <2> QED BY <1>1, <2>1 DEF EditorInv, SourceOf
<1>6. SavesInv'
  BY <1>1, SavesStay DEF IInv, server
<1> QED BY <1>1, <1>4, <1>5, <1>6 DEF IInv, FlightsInv

\* A save is applied: its revision is shown and its draft is gone.
LEMMA AppliedStep ==
  ASSUME IInv, NEW f \in flights, Applied(f)
  PROVE IInv'
<1> DEFINE g == Flight(f, "refreshApplied", f.stale)
<1>1. /\ f.phase = "applied" /\ observed' = [script |-> f.script, rev |-> f.rev, text |-> f.text]
      /\ \/ pending' = NoDraft /\ stored' = [stored EXCEPT ![f.script] = NoDraft]
         \/ UNCHANGED <<pending, stored>>
      /\ UNCHANGED <<selected, view, server>>
      /\ CancelIfMoved(Replace(f, g)) /\ Render(pkg, verdict, obs, saveStatus)
  BY DEF Applied
<1>2. ServerInv' /\ Grown
  BY <1>1, ServerStays DEF IInv, Base
<1>3. \A h \in flights : GoodFlight(h)'
  BY <1>2, FlightsStay DEF IInv, Base
<1>4. GoodFlight(f) /\ GoodFlight(f)'
  BY <1>3 DEF IInv, FlightsInv
<1>5. GoodFlight(g)'
  <2>1. "refreshApplied" \in Phases
    BY DEF Phases
  <2>2. f.stale \in BOOLEAN
    BY <1>4 DEF GoodFlight, Flights
  <2> QED BY <1>1, <1>4, <2>1, <2>2, PhaseGood
<1>6. FlightsInv'
  <2> HIDE DEF g
  <2>1. \A h \in Replace(f, g) : GoodFlight(h)'
    BY <1>3, <1>5 DEF Replace
  <2> QED BY <1>1, <2>1, MovedGood
<1>7. ObservedInv'
  <2>1. /\ f.script \in Scripts /\ f.rev \in Nat /\ f.text \in Texts /\ Promoted(f.script, f.rev)'
        /\ f.text = accepted'[f.rev].text
    BY <1>1, <1>4 DEF GoodFlight, Flights
  <2>2. /\ observed' \in [script : Scripts, rev : Nat, text : Texts]
        /\ observed'.script = f.script /\ observed'.rev = f.rev /\ observed'.text = f.text
    BY <1>1, <2>1
  <2> QED BY <2>1, <2>2 DEF ObservedInv, Promoted, TextOf
<1>8. DraftInv'
  <2>1. f.script \in Scripts
    BY <1>4 DEF GoodFlight, Flights
  <2>2. CASE pending' = NoDraft /\ stored' = [stored EXCEPT ![f.script] = NoDraft]
    <3>1. NoDraft \in Drafts
      BY DEF Drafts
    <3> QED BY <1>1, <2>1, <2>2, <3>1 DEF IInv, Base, DraftInv
  <2>3. CASE UNCHANGED <<pending, stored>>
    BY <1>1, <2>3 DEF IInv, Base, DraftInv
  <2> QED BY <1>1, <2>2, <2>3
<1>9. Base'
  BY <1>2, <1>7, <1>8 DEF Base
<1> QED BY <1>1, <1>2, <1>6, <1>9, SettledKeeps DEF server

\* The listing is fetched after an answer.
LEMMA RefreshedStep ==
  ASSUME IInv, NEW f \in flights, Refreshed(f)
  PROVE IInv'
<1>1. PICK phase \in {"concludeApplied", "concludeRejected"} :
        CancelIfMoved(Replace(f, Flight(f, phase, f.stale)))
  BY DEF Refreshed, After
<1>2. /\ f.phase \in {"refreshApplied", "refreshRejected"} /\ view' \in {view, catalog}
      /\ UNCHANGED <<selected, pending, stored, observed, server>>
      /\ Render(pkg, verdict, obs, saveStatus)
  BY DEF Refreshed, After
<1>3. ServerInv' /\ Grown
  BY <1>2, ServerStays DEF IInv, Base
<1>4. \A h \in flights : GoodFlight(h)'
  BY <1>3, FlightsStay DEF IInv, Base
<1>5. GoodFlight(Flight(f, phase, f.stale))'
  <2>1. phase \in Phases /\ phase # "post" /\ phase # "applied" /\ phase # "timer"
    BY DEF Phases
  <2>2. GoodFlight(f)' /\ f.stale \in BOOLEAN
    BY <1>4 DEF GoodFlight, Flights
  <2> QED BY <1>2, <2>1, <2>2, PhaseGood
<1>6. FlightsInv'
  <2> DEFINE g == Flight(f, phase, f.stale)
  <2>1. GoodFlight(g)'
    BY <1>5
  <2> HIDE DEF g
  <2>2. \A h \in Replace(f, g) : GoodFlight(h)'
    BY <1>4, <2>1 DEF Replace
  <2> USE DEF g
  <2> QED BY <1>1, <2>2, MovedGood
<1>7. Base'
  <2>1. DraftInv'
    BY <1>2 DEF IInv, Base, DraftInv
  <2> QED BY <1>2, <1>3, <2>1, ObservedStays DEF IInv, Base
<1> QED BY <1>2, <1>3, <1>6, <1>7, SettledKeeps DEF server

\* The listing is fetched by itself.
LEMMA RefetchStep ==
  ASSUME IInv, Refetch
  PROVE IInv'
<1>1. /\ view' = catalog /\ UNCHANGED <<selected, pending, stored, observed, server>> /\ Settled
  BY DEF Refetch
<1>2. ServerInv' /\ Grown
  BY <1>1, ServerStays DEF IInv, Base
<1>3. Base'
  <2>1. DraftInv'
    BY <1>1 DEF IInv, Base, DraftInv
  <2> QED BY <1>1, <1>2, <2>1, ObservedStays DEF IInv, Base
<1> QED BY <1>1, <1>2, <1>3, SettledStep DEF server

-----------------------------------------------------------------------------
(* The tokens.                                                             *)

\* A call was given the token of its time, and one the user has left behind
\* an earlier token than the one of now.
Ticket(f, n) ==
    f.phase # "post" => f.token \in Nat /\ f.token <= n /\ (f.stale => f.token < n)
TokenInv == token \in Nat /\ \A f \in flights : Ticket(f, token)

\* The fields of a call in another phase.
LEMMA FlightFields ==
  ASSUME NEW f, NEW phase, NEW b
  PROVE /\ Flight(f, phase, b).phase = phase /\ Flight(f, phase, b).stale = b
        /\ Flight(f, phase, b).token = f.token
BY DEF Flight

\* Cancelling the timers makes every earlier token an old one.
LEMMA TimersTicket ==
  ASSUME NEW STATE fs, NEW b, NEW n \in Nat, \A f \in fs : Ticket(f, n)
  PROVE \A g \in WithoutTimers(fs, b) : Ticket(g, n + 1)
<1> SUFFICES ASSUME NEW g \in WithoutTimers(fs, b) PROVE Ticket(g, n + 1)
  OBVIOUS
<1>1. PICK f \in fs : g = Flight(f, f.phase, f.stale \/ (b /\ f.phase # "post"))
  BY DEF WithoutTimers
<1>2. g.phase = f.phase /\ g.token = f.token
  BY <1>1, FlightFields
<1> QED BY <1>1, <1>2 DEF Ticket

\* So does showing another script.
LEMMA MovedTicket ==
  ASSUME NEW STATE fs, token \in Nat, \A f \in fs : Ticket(f, token), CancelIfMoved(fs)
  PROVE TokenInv'
<1>1. \A g \in WithoutTimers(fs, TRUE) : Ticket(g, token + 1)
  BY TimersTicket
<1>2. \/ token' = token /\ flights' = fs
      \/ token' = token + 1 /\ flights' = WithoutTimers(fs, TRUE)
  BY DEF CancelIfMoved
<1>3. CASE token' = token /\ flights' = fs
  <2>1. \A g \in flights' : Ticket(g, token')
    BY <1>3
  <2> QED BY <1>3, <2>1 DEF TokenInv, Ticket
<1>4. CASE token' = token + 1 /\ flights' = WithoutTimers(fs, TRUE)
  <2>1. \A g \in flights' : Ticket(g, token')
    BY <1>1, <1>4
  <2>2. token' \in Nat
    BY <1>4
  <2> QED BY <2>1, <2>2 DEF TokenInv, Ticket
<1> QED BY <1>2, <1>3, <1>4

\* A call keeps its token in another phase.
LEMMA PhaseTicket ==
  ASSUME TokenInv, NEW f \in flights, f.phase # "post", NEW phase
  PROVE \A h \in Replace(f, Flight(f, phase, f.stale)) : Ticket(h, token)
<1> DEFINE g == Flight(f, phase, f.stale)
<1>1. g.token = f.token /\ g.stale = f.stale
  BY FlightFields
<1>2. Ticket(f, token)
  BY DEF TokenInv
<1> HIDE DEF g
<1>3. Ticket(g, token)
  BY <1>1, <1>2 DEF Ticket
<1>4. \A h \in Replace(f, g) : Ticket(h, token)
  BY <1>3 DEF TokenInv, Replace
<1> QED BY <1>4 DEF g

\* A render keeps the tokens right.
LEMMA SettledTicket ==
  ASSUME TokenInv, Settled
  PROVE TokenInv'
BY MovedTicket DEF TokenInv, Settled

\* The steps of the user keep the tokens right.
LEMMA UserTicket ==
  ASSUME TokenInv, User
  PROVE TokenInv'
<1>1. ASSUME NEW text \in Texts, Edit(text) PROVE TokenInv'
  <2>1. token' = token + 1 /\ flights' = WithoutTimers(flights, TRUE)
    BY <1>1 DEF Edit, Cancel
  <2>2. \A h \in WithoutTimers(flights, TRUE) : Ticket(h, token + 1)
    BY TimersTicket DEF TokenInv
  <2>3. token' \in Nat
    BY <2>1 DEF TokenInv
  <2>4. \A h \in flights' : Ticket(h, token')
    BY <2>1, <2>2
  <2> QED BY <2>3, <2>4 DEF TokenInv, Ticket
<1>2. CASE Validate \/ Stay
  BY <1>2 DEF Validate, Stay, TokenInv
<1>3. CASE Save
  <2> DEFINE g == [script |-> Active.script, text |-> pkg, base |-> Active.rev, seen |-> loaded,
                   drafted |-> pending.script = Active.script,
                   rev |-> 0, token |-> 0, attempt |-> 0, phase |-> "post", stale |-> FALSE]
  <2>1. token' = token + 1 /\ flights' = WithoutTimers(flights, FALSE) \cup {g}
    BY <1>3 DEF Save
  <2>2. \A h \in WithoutTimers(flights, FALSE) : Ticket(h, token + 1)
    BY TimersTicket DEF TokenInv
  <2>3. g.phase = "post"
    OBVIOUS
  <2> HIDE DEF g
  <2>4. Ticket(g, token + 1)
    BY <2>3 DEF Ticket
  <2>5. token' \in Nat
    BY <2>1 DEF TokenInv
  <2>6. \A h \in flights' : Ticket(h, token')
    BY <2>1, <2>2, <2>4
  <2> QED BY <2>5, <2>6 DEF TokenInv, Ticket
<1>4. ASSUME NEW s \in Scripts, PickScript(s) PROVE TokenInv'
  BY <1>4, SettledTicket DEF PickScript
<1>5. ASSUME NEW to, NEW s, Go(to, s) PROVE TokenInv'
  BY <1>5, SettledTicket DEF Go
<1>6. ASSUME NEW to, NEW s, Navigate(to, s) PROVE TokenInv'
  <2>1. CASE Dirty
    BY <1>6, <2>1 DEF Navigate, TokenInv
  <2>2. CASE ~Dirty
    BY <1>5, <1>6, <2>2 DEF Navigate
  <2> QED BY <2>1, <2>2
<1>7. CASE Leave
  BY <1>5, <1>7 DEF Leave
<1>8. CASE Reload
  BY <1>8 DEF Reload, TokenInv
<1> QED BY <1>1, <1>2, <1>3, <1>4, <1>6, <1>7, <1>8 DEF User

\* The answers keep the tokens right.
LEMMA AnswerTicket ==
  ASSUME TokenInv, NEW f \in flights, Answer(f)
  PROVE TokenInv'
<1>1. CASE \E g : /\ flights' = Replace(f, g) /\ token' = token
                  /\ \/ g.phase # "post" /\ g.token = token /\ ~g.stale
                     \/ f.phase # "post" /\ g.token = f.token /\ g.stale = f.stale
  <2>1. PICK g : /\ flights' = Replace(f, g) /\ token' = token
                 /\ \/ g.phase # "post" /\ g.token = token /\ ~g.stale
                    \/ f.phase # "post" /\ g.token = f.token /\ g.stale = f.stale
    BY <1>1
  <2>2. Ticket(g, token)
    BY <2>1 DEF TokenInv, Ticket
  <2> QED BY <2>1, <2>2 DEF TokenInv, Replace
<1>2. CASE SaveAccepted(f)
  <2> DEFINE g == [script |-> f.script, text |-> f.text, base |-> f.base, seen |-> f.seen,
                   drafted |-> f.drafted, rev |-> Len(accepted) + 1, token |-> token,
                   attempt |-> 0, phase |-> "observe", stale |-> FALSE]
  <2>1. flights' = Replace(f, g) /\ token' = token
    BY <1>2 DEF SaveAccepted
  <2>2. g.phase # "post" /\ g.token = token /\ ~g.stale
    OBVIOUS
  <2> HIDE DEF g
  <2> QED BY <1>1, <2>1, <2>2
<1>3. CASE Timer(f)
  <2> DEFINE g == [script |-> f.script, text |-> f.text, base |-> f.base, seen |-> f.seen,
                   drafted |-> f.drafted, rev |-> f.rev, token |-> f.token,
                   attempt |-> f.attempt + 1, phase |-> "observe", stale |-> f.stale]
  <2>1. flights' = Replace(f, g) /\ token' = token /\ f.phase = "timer"
    BY <1>3 DEF Timer
  <2>2. g.token = f.token /\ g.stale = f.stale
    OBVIOUS
  <2> HIDE DEF g
  <2> QED BY <1>1, <2>1, <2>2
<1>4. CASE \/ SaveFails(f) \/ Ignored(f) \/ ObservationFails(f) \/ Conclude(f)
  <2>1. flights' = flights \ {f} /\ token' = token
    BY <1>4 DEF SaveFails, Ignored, ObservationFails, Conclude
  <2> QED BY <2>1 DEF TokenInv
<1>5. CASE Observe(f) \/ Rejected(f) \/ NotYet(f)
  <2>1. \/ flights' = flights \ {f}
        \/ \E phase : flights' = Replace(f, Flight(f, phase, f.stale))
    BY <1>5 DEF Observe, Rejected, NotYet
  <2>2. token' = token /\ f.phase # "post"
    BY <1>5 DEF Observe, Rejected, NotYet
  <2> QED BY <2>1, <2>2, PhaseTicket DEF TokenInv
<1>6. CASE Applied(f) \/ Refreshed(f)
  <2>1. f.phase # "post" /\ \E phase : CancelIfMoved(Replace(f, Flight(f, phase, f.stale)))
    BY <1>6 DEF Applied, Refreshed, After
  <2>2. PICK phase : CancelIfMoved(Replace(f, Flight(f, phase, f.stale)))
    BY <2>1
  <2>3. \A h \in Replace(f, Flight(f, phase, f.stale)) : Ticket(h, token)
    BY <2>1, PhaseTicket
  <2> QED BY <2>2, <2>3, MovedTicket DEF TokenInv
<1> QED BY <1>2, <1>3, <1>4, <1>5, <1>6 DEF Answer

\* Every step keeps TokenInv.
LEMMA TokenStep == TokenInv /\ [Next]_vars => TokenInv'
<1> SUFFICES ASSUME TokenInv, [Next]_vars PROVE TokenInv'
  OBVIOUS
<1>1. CASE User
  BY <1>1, UserTicket
<1>2. CASE Answers
  BY <1>2, AnswerTicket DEF Answers
<1>3. CASE Refetch
  BY <1>3, SettledTicket DEF Refetch
<1>4. CASE ValidateAnswer \/ Promote \/ (\E s \in Scripts : Project(s)) \/ Peer
  <2>1. UNCHANGED <<token, flights>>
    BY <1>4 DEF ValidateAnswer, Promote, Project, Peer, PeerSave
  <2> QED BY <2>1 DEF TokenInv
<1>5. CASE UNCHANGED vars
  BY <1>5 DEF vars, TokenInv
<1> QED BY <1>1, <1>2, <1>3, <1>4, <1>5 DEF Next

-----------------------------------------------------------------------------
(* The types of the variables the invariant says nothing of.               *)

RestInv ==
    /\ pkg \in Texts \cup {None} /\ loaded \in Texts \cup {None}
    /\ verdict \in {"unknown", "valid", "invalid", "error"}
    /\ checking \in [text : Texts, dirty : BOOLEAN] \cup {NotChecking}
    /\ obs \in {"idle", "accepted", "applied", "pending", "rejected", "failed"}
    /\ saveStatus \in {"idle", "accepted", "applied", "failed"}
    /\ savePending \in BOOLEAN /\ strayed \in BOOLEAN
    /\ leaving \in ({"open", "create"} \X Scripts) \cup {<<>>}
    /\ acts \in 0..MaxActs /\ moves \in 0..MaxMoves

\* What a render makes of the editor is of its type.
LEMMA RenderTypes ==
  ASSUME Base', RestInv, NEW STATE p, NEW STATE v, NEW STATE o, NEW STATE s, Render(p, v, o, s),
         p \in Texts \cup {None}, v \in {"unknown", "valid", "invalid", "error"},
         o \in {"idle", "accepted", "applied", "pending", "rejected", "failed"},
         s \in {"idle", "accepted", "applied", "failed"}
  PROVE /\ pkg' \in Texts \cup {None} /\ loaded' \in Texts \cup {None}
        /\ verdict' \in {"unknown", "valid", "invalid", "error"}
        /\ obs' \in {"idle", "accepted", "applied", "pending", "rejected", "failed"}
        /\ saveStatus' \in {"idle", "accepted", "applied", "failed"}
<1>1. CASE Identity(Active') = Identity(Active) \/ Active'.kind = "none"
  BY <1>1 DEF Render, RestInv
<1>2. CASE ~(Identity(Active') = Identity(Active) \/ Active'.kind = "none")
  <2>1. SourceOf(Active') \in Texts
    BY <1>2, SourceIsNext
  <2>2. /\ pkg' = SourceOf(Active') /\ loaded' = SourceOf(Active') /\ verdict' = "unknown"
        /\ obs' = IF Active'.kind = "observed" THEN "applied" ELSE "idle"
        /\ saveStatus' = obs'
    BY <1>2 DEF Render
  <2>3. obs' \in {"applied", "idle"}
    BY <2>2
  <2> QED BY <2>1, <2>2, <2>3
<1> QED BY <1>1, <1>2

\* The same for a render that starts from what the editor holds.
LEMMA SettledTypes ==
  ASSUME Base', RestInv, Render(pkg, verdict, obs, saveStatus)
  PROVE /\ pkg' \in Texts \cup {None} /\ loaded' \in Texts \cup {None}
        /\ verdict' \in {"unknown", "valid", "invalid", "error"}
        /\ obs' \in {"idle", "accepted", "applied", "pending", "rejected", "failed"}
        /\ saveStatus' \in {"idle", "accepted", "applied", "failed"}
BY RenderTypes DEF RestInv

\* The steps of the user keep the types.
LEMMA UserTypes ==
  ASSUME IInv, Base', RestInv, User
  PROVE RestInv'
<1>0. MaxActs \in Nat /\ MaxMoves \in Nat
  BY ConstantsAssumption
<1>1. ASSUME NEW text \in Texts, Edit(text) PROVE RestInv'
  <2>1. Render(text, "unknown", "idle", "idle") /\ Acted
        /\ UNCHANGED <<checking, savePending, leaving, strayed, moves>>
    BY <1>1 DEF Edit
  <2>2. /\ pkg' \in Texts \cup {None} /\ loaded' \in Texts \cup {None}
        /\ verdict' \in {"unknown", "valid", "invalid", "error"}
        /\ obs' \in {"idle", "accepted", "applied", "pending", "rejected", "failed"}
        /\ saveStatus' \in {"idle", "accepted", "applied", "failed"}
    BY <2>1, RenderTypes
  <2> QED BY <1>0, <2>1, <2>2 DEF RestInv, Acted, NotChecking
<1>2. CASE Validate
  <2>1. pkg \in Texts /\ Dirty \in BOOLEAN
    BY <1>2 DEF Validate, IInv, EditorInv, Dirty
  <2> QED BY <1>2, <2>1 DEF Validate, RestInv, NotChecking
<1>3. CASE Save
  BY <1>0, <1>3 DEF Save, Acted, RestInv, NotChecking, panel
<1>4. ASSUME NEW s \in Scripts, PickScript(s) PROVE RestInv'
  <2>1. /\ Render(pkg, verdict, obs, saveStatus) /\ Moved
        /\ UNCHANGED <<checking, savePending, leaving, strayed, acts>>
    BY <1>4 DEF PickScript, Settled
  <2> QED BY <1>0, <2>1, SettledTypes DEF RestInv, Moved, NotChecking
<1>5. ASSUME NEW to, NEW s \in Scripts, Go(to, s),
             leaving' \in ({"open", "create"} \X Scripts) \cup {<<>>}, moves' \in 0..MaxMoves
      PROVE RestInv'
  <2>1. /\ Render(pkg, verdict, obs, saveStatus)
        /\ UNCHANGED <<checking, savePending, strayed, acts>>
    BY <1>5 DEF Go, Settled
  <2> QED BY <1>5, <2>1, SettledTypes DEF RestInv, NotChecking
<1>6. ASSUME NEW to \in {"open", "create"}, NEW s \in Scripts, Navigate(to, s) PROVE RestInv'
  <2>1. moves' \in 0..MaxMoves
    BY <1>0, <1>6 DEF Navigate, Moved, RestInv
  <2>2. CASE Dirty
    BY <1>6, <2>1, <2>2 DEF Navigate, RestInv, NotChecking, panel
  <2>3. CASE ~Dirty
    <3>1. Go(to, s) /\ leaving' = leaving
      BY <1>6, <2>3 DEF Navigate
    <3> QED BY <1>5, <2>1, <3>1 DEF RestInv
  <2> QED BY <2>2, <2>3
<1>7. CASE Stay
  BY <1>7 DEF Stay, RestInv, NotChecking, panel
<1>8. CASE Leave
  <2>1. PICK to \in {"open", "create"}, s \in Scripts : leaving = <<to, s>>
    BY <1>8 DEF Leave, RestInv
  <2>2. Go(to, s) /\ leaving' = <<>> /\ moves' = moves
    BY <1>8, <2>1 DEF Leave
  <2> QED BY <1>5, <2>2 DEF RestInv
<1>9. CASE Reload
  <2>1. /\ acts' = acts /\ Moved /\ checking' = NotChecking /\ savePending' = FALSE
        /\ leaving' = <<>> /\ strayed' = FALSE
        /\ verdict' = "unknown" /\ obs' = "idle" /\ saveStatus' = "idle"
        /\ pkg' = SourceOf(Active') /\ loaded' = pkg'
    BY <1>9 DEF Reload
  <2>2. SourceOf(Active') \in Texts \cup {None}
    <3>1. ActiveOK'
      BY ActiveIsNext
    <3>2. CASE Active'.kind # "none"
      BY <3>2, SourceIsNext
    <3>3. CASE Active'.kind = "none"
      <4>1. Active' = Shown("none", None, 0, None)
        BY <3>1, <3>3 DEF ActiveOK
      <4> QED BY <4>1, ShownFields DEF SourceOf
    <3> QED BY <3>2, <3>3
  <2>3. moves' \in 0..MaxMoves /\ acts' \in 0..MaxActs
    BY <1>0, <2>1 DEF Moved, RestInv
  <2>4. pkg' \in Texts \cup {None} /\ loaded' \in Texts \cup {None}
    BY <2>1, <2>2
  <2> QED BY <2>1, <2>3, <2>4 DEF RestInv, NotChecking
<1> QED BY <1>1, <1>2, <1>3, <1>4, <1>6, <1>7, <1>8, <1>9 DEF User

\* The answers keep the types.
LEMMA AnswerTypes ==
  ASSUME Base', RestInv, NEW f \in flights, Answer(f)
  PROVE RestInv'
<1>1. CASE Release(f) /\ UNCHANGED <<pkg, verdict, loaded, checking, leaving, acts, moves>>
           /\ \/ UNCHANGED <<obs, saveStatus>>
              \/ obs' = "pending" /\ UNCHANGED saveStatus
              \/ /\ obs' \in {"failed", "applied", "rejected"}
                 /\ saveStatus' \in {"failed", "applied"}
  <2>1. savePending' \in BOOLEAN /\ strayed' \in BOOLEAN
    BY <1>1 DEF Release, RestInv
  <2>2. /\ obs' \in {"idle", "accepted", "applied", "pending", "rejected", "failed"}
        /\ saveStatus' \in {"idle", "accepted", "applied", "failed"}
    BY <1>1 DEF RestInv
  <2> QED BY <1>1, <2>1, <2>2 DEF RestInv, NotChecking
<1>2. CASE SaveFails(f) \/ Ignored(f) \/ NotYet(f) \/ ObservationFails(f) \/ Conclude(f)
  BY <1>1, <1>2 DEF SaveFails, Ignored, NotYet, ObservationFails, Conclude, panel
<1>3. CASE SaveAccepted(f) \/ Observe(f) \/ Rejected(f) \/ Timer(f)
  BY <1>3 DEF SaveAccepted, Observe, Rejected, Timer, panel, RestInv, NotChecking
<1>4. CASE Applied(f) \/ Refreshed(f)
  <2>1. /\ Render(pkg, verdict, obs, saveStatus)
        /\ UNCHANGED <<checking, savePending, leaving, strayed, acts, moves>>
    BY <1>4 DEF Applied, Refreshed
  <2> QED BY <2>1, SettledTypes DEF RestInv, NotChecking
<1> QED BY <1>2, <1>3, <1>4 DEF Answer

\* Every step keeps RestInv.
LEMMA RestStep == IInv /\ Base' /\ RestInv /\ [Next]_vars => RestInv'
<1> SUFFICES ASSUME IInv, Base', RestInv, [Next]_vars PROVE RestInv'
  OBVIOUS
<1>1. CASE User
  BY <1>1, UserTypes
<1>2. CASE Answers
  BY <1>2, AnswerTypes DEF Answers
<1>3. CASE Refetch
  BY <1>3, SettledTypes DEF Refetch, Settled, RestInv, NotChecking
<1>4. CASE ValidateAnswer
  BY <1>4 DEF ValidateAnswer, RestInv, NotChecking
<1>5. CASE Promote \/ (\E s \in Scripts : Project(s)) \/ Peer
  <2>1. UNCHANGED <<panel, checking, savePending, leaving, strayed, acts, moves>>
    BY <1>5 DEF Promote, Project, Peer, PeerSave
  <2> QED BY <2>1 DEF panel, RestInv, NotChecking
<1>6. CASE UNCHANGED vars
  BY <1>6 DEF vars, panel, RestInv, NotChecking
<1> QED BY <1>1, <1>2, <1>3, <1>4, <1>5, <1>6 DEF Next

-----------------------------------------------------------------------------
(* The theorems.                                                           *)

\* A page that opens satisfies the invariants.
LEMMA InitInv == Init => IInv /\ TokenInv
<1> SUFFICES ASSUME Init PROVE IInv /\ TokenInv
  OBVIOUS
<1>1. PICK draft \in [script : Scripts \ {Known}, text : Kept] \cup {NoDraft} :
        stored = [s \in Scripts |-> IF s = draft.script THEN draft ELSE NoDraft]
  BY DEF Init
<1>2. draft \in Drafts
  BY ConstantsAssumption DEF Drafts
<1>3. stored \in [Scripts -> Drafts]
  <2>1. NoDraft \in Drafts
    BY DEF Drafts
  <2> QED BY <1>1, <1>2, <2>1
<1>4. DraftInv
  <2>1. selected \in Scripts /\ pending = stored[selected]
    BY DEF Init
  <2>2. \A s \in Scripts : stored[s] = NoDraft \/ stored[s].script = s
    BY <1>1
  <2>3. pending \in Drafts
    BY <1>3, <2>1
  <2> QED BY <1>3, <2>1, <2>2, <2>3 DEF DraftInv
<1>5. ServerInv
  <2> DEFINE x == [script |-> Known, text |-> Saved, base |-> 0, seen |-> None]
  <2>1. x \in Saves /\ x.script = Known /\ x.text = Saved
    BY ConstantsAssumption DEF Saves
  <2>2. accepted = <<x>> /\ decided = 1 /\ head = [s \in Scripts |-> IF s = Known THEN 1 ELSE 0]
        /\ catalog = head /\ view = head
        /\ heads = {[script |-> Known, rev |-> 1, text |-> Saved]}
    BY DEF Init
  <2> HIDE DEF x
  <2>3. accepted \in Seq(Saves) /\ Len(accepted) = 1 /\ accepted[1] = x
    BY <2>1, <2>2
  <2>4. Promoted(Known, 1)
    BY <2>1, <2>2, <2>3 DEF Promoted
  <2>5. head \in [Scripts -> Nat] /\ \A s \in Scripts : head[s] # 0 => Promoted(s, head[s])
    BY <2>2, <2>4
  <2>6. heads \subseteq [script : Scripts, rev : 1..decided, text : Texts]
    BY <2>2, ConstantsAssumption
  <2> QED BY <2>2, <2>3, <2>5, <2>6 DEF ServerInv
<1>6. Base
  BY <1>4, <1>5 DEF Init, Base, ObservedInv
<1>7. EditorInv
  <2>1. pkg = SourceOf(Active) /\ loaded = pkg
    BY DEF Init
  <2> QED BY <1>6, <2>1, SourceIs DEF EditorInv
<1>8. SavesInv
  <2>1. Len(accepted) = 1 /\ accepted[1].base = 0
    BY DEF Init
  <2> QED BY <2>1 DEF SavesInv, BasedOn
<1>9. FlightsInv /\ TokenInv
  BY DEF Init, FlightsInv, TokenInv
<1> QED BY <1>6, <1>7, <1>8, <1>9 DEF IInv

\* Every step keeps IInv.
LEMMA NextInv == IInv /\ TokenInv /\ RestInv /\ [Next]_vars => IInv'
<1> SUFFICES ASSUME IInv, TokenInv, RestInv, [Next]_vars PROVE IInv'
  OBVIOUS
<1>1. CASE User
  <2>2. CASE Leave
    <3>1. PICK to \in {"open", "create"}, s \in Scripts : leaving = <<to, s>>
      BY <2>2 DEF Leave, RestInv
    <3>2. Go(to, s)
      BY <2>2, <3>1 DEF Leave
    <3> QED BY <3>2, GoStep
  <2> QED BY <1>1, <2>2, EditStep, ValidateStep, SaveStep, PickStep, NavigateStep, ReloadStep DEF User
<1>2. CASE Answers
  <2>1. PICK f \in flights : Answer(f)
    BY <1>2 DEF Answers
  <2>2. token \in Nat
    BY DEF TokenInv
  <2> QED BY <2>1, <2>2, SaveAcceptedStep, SaveFailsStep, ObserveStep, PhaseStep, AppliedStep,
             TimerStep, RefreshedStep DEF Answer
<1>3. CASE ValidateAnswer
  BY <1>3, ValidateStep
<1>4. CASE Refetch
  BY <1>4, RefetchStep
<1>5. CASE Promote \/ \E s \in Scripts : Project(s)
  BY <1>5, PromoteStep
<1>6. CASE Peer
  BY <1>6, PeerStep DEF Peer
<1>7. CASE UNCHANGED vars
  <2>1. UNCHANGED <<parent, pkg, loaded, observed, server, flights>>
    BY <1>7 DEF vars, panel
  <2> QED BY <2>1, QuietAll DEF IInv, FlightsInv
<1> QED BY <1>1, <1>2, <1>3, <1>4, <1>5, <1>6, <1>7 DEF Next

\* A page that opens is of its types.
LEMMA InitRest == Init => RestInv
<1> SUFFICES ASSUME Init PROVE RestInv
  OBVIOUS
<1>1. pkg \in Texts \cup {None} /\ loaded = pkg
  <2>1. pkg = SourceOf(Active) /\ loaded = pkg
    BY DEF Init
  <2>2. Base
    BY InitInv DEF IInv
  <2>3. CASE Active.kind # "none"
    BY <2>1, <2>2, <2>3, SourceIs
  <2>4. CASE Active.kind = "none"
    <3>1. Active = Shown("none", None, 0, None)
      BY <2>2, <2>4, ActiveIs DEF ActiveOK
    <3> QED BY <2>1, <3>1, ShownFields DEF SourceOf
  <2> QED BY <2>1, <2>3, <2>4
<1>2. acts \in 0..MaxActs /\ moves \in 0..MaxMoves
  BY ConstantsAssumption DEF Init
<1>3. /\ verdict = "unknown" /\ checking = NotChecking /\ obs = "idle" /\ saveStatus = "idle"
      /\ savePending = FALSE /\ strayed = FALSE /\ leaving = <<>>
  BY DEF Init
<1> QED BY <1>1, <1>2, <1>3 DEF RestInv

\* The invariant.
LEMMA SpecInv == Spec => [](IInv /\ TokenInv /\ RestInv)
<1>1. Init => IInv /\ TokenInv /\ RestInv
  BY InitInv, InitRest
<1>2. IInv /\ TokenInv /\ RestInv /\ [Next]_vars => (IInv /\ TokenInv /\ RestInv)'
  <2> SUFFICES ASSUME IInv, TokenInv, RestInv, [Next]_vars
               PROVE IInv' /\ TokenInv' /\ RestInv'
    OBVIOUS
  <2>1. IInv'
    BY NextInv
  <2>2. TokenInv'
    BY TokenStep
  <2>3. RestInv'
    BY <2>1, RestStep DEF IInv
  <2> QED BY <2>1, <2>2, <2>3
<1> QED BY <1>1, <1>2, PTL DEF Spec

\* The variables are of their types: in particular no revision number points
\* beyond the accepted saves.
THEOREM TypeOKHolds == Spec => []TypeOK
<1>1. IInv /\ TokenInv /\ RestInv => TypeOK
  <2> SUFFICES ASSUME IInv, TokenInv, RestInv PROVE TypeOK
    OBVIOUS
  <2>1. ServerInv /\ ObservedInv /\ DraftInv /\ FlightsInv
    BY DEF IInv, Base
  <2>2. accepted \in Seq(Saves) /\ Len(accepted) \in Nat /\ decided \in 0..Len(accepted)
    BY <2>1, ServerTypes
  <2>3. ASSUME NEW m \in {head, catalog, view} PROVE m \in [Scripts -> 0..Len(accepted)]
    <3>1. m \in [Scripts -> Nat] /\ \A s \in Scripts : m[s] # 0 => Promoted(s, m[s])
      BY <2>1 DEF ServerInv
    <3>2. \A s \in Scripts : m[s] \in 0..Len(accepted)
      <4> SUFFICES ASSUME NEW s \in Scripts PROVE m[s] \in 0..Len(accepted)
        OBVIOUS
      <4>1. CASE m[s] = 0
        BY <2>2, <4>1
      <4>2. CASE m[s] # 0
        <5>1. Promoted(s, m[s])
          BY <3>1, <4>2
        <5> QED BY <2>1, <2>2, <5>1, PromotedIs
      <4> QED BY <4>1, <4>2
    <3> QED BY <3>1, <3>2
  <2>4. observed \in [script : Scripts, rev : 1..Len(accepted), text : Texts] \cup {NotObserved}
    <3> SUFFICES ASSUME observed # NotObserved
                 PROVE observed \in [script : Scripts, rev : 1..Len(accepted), text : Texts]
      OBVIOUS
    <3>1. /\ observed \in [script : Scripts, rev : Nat, text : Texts]
          /\ observed.script \in Scripts /\ Promoted(observed.script, observed.rev)
          /\ observed.text = TextOf(observed.rev)
      BY <2>1 DEF ObservedInv
    <3>2. observed.rev \in 1..Len(accepted) /\ observed.text \in Texts
      BY <2>1, <3>1, PromotedIs
    <3> QED BY <3>1, <3>2
  <2>5. flights \subseteq Flights
    BY <2>1 DEF FlightsInv, GoodFlight
  <2>6. {head, catalog, view} \subseteq [Scripts -> 0..Len(accepted)]
    BY <2>3
  <2>7. selected \in Scripts /\ pending \in Drafts /\ stored \in [Scripts -> Drafts]
    BY <2>1 DEF DraftInv
  <2>8. token \in Nat
    BY DEF TokenInv
  <2> HIDE DEF RestInv
  <2>9. heads \subseteq [script : Scripts, rev : 1..decided, text : Texts]
    BY <2>1 DEF ServerInv
  <2> QED BY <2>2, <2>4, <2>5, <2>6, <2>7, <2>8, <2>9 DEF TypeOK, RestInv
<1> QED BY <1>1, SpecInv, PTL

\* What Bind is offered under a revision id is a revision of the selected script
\* that the catalog actor made active, with the source the editor shows
\* (buildPendingBindCandidate).
THEOREM BindsWhatIsShownHolds == Spec => []BindsWhatIsShown
<1>1. IInv => BindsWhatIsShown
  <2> SUFFICES ASSUME IInv, Bindable, Active.rev # 0
               PROVE [script |-> selected, rev |-> Active.rev, text |-> pkg] \in heads
    BY DEF BindsWhatIsShown
  <2>1. Active.kind # "none" /\ Active.script = selected /\ pkg = Active.text
    BY DEF Bindable, Dirty
  <2>2. ActiveOK
    BY ActiveIs DEF IInv
  <2>3. Promoted(Active.script, Active.rev) /\ Active.text = TextOf(Active.rev)
    BY <2>1, <2>2 DEF ActiveOK
  <2> QED BY <2>1, <2>3 DEF Promoted, TextOf
<1> QED BY <1>1, SpecInv, PTL

\* The draft the editor shows is the one in the local storage
\* (commitScriptPackage and the ways to another script).
THEOREM DraftSurvivesReloadHolds == Spec => []DraftSurvivesReload
<1>1. IInv => DraftSurvivesReload
  <2> SUFFICES ASSUME IInv, Active.kind = "draft"
               PROVE stored[selected] = pending /\ pkg = SourceOf(Active)
    BY DEF DraftSurvivesReload
  <2>1. pending.script = selected /\ pending # NoDraft
    BY DraftShown DEF IInv
  <2>2. pkg = SourceOf(Active)
    BY DEF IInv, EditorInv
  <2> QED BY <2>1, <2>2 DEF IInv, Base, DraftInv
<1> QED BY <1>1, SpecInv, PTL

\* A save that names a base revision was edited from the source of that revision
\* (handleSave and the effect that refills the editor).
THEOREM NoBlindSaveHolds == Spec => []NoBlindSave
<1>1. IInv => NoBlindSave
  <2> SUFFICES ASSUME IInv, NEW r \in 1..Len(accepted), accepted[r].base # 0
               PROVE /\ accepted[r].base < r
                     /\ accepted[accepted[r].base].script = accepted[r].script
                     /\ accepted[r].seen = TextOf(accepted[r].base)
    BY DEF NoBlindSave
  <2> DEFINE b == accepted[r].base
  <2>1. /\ b \in 1..(r - 1) /\ accepted[b].script = accepted[r].script
        /\ accepted[r].seen = TextOf(b)
    BY DEF IInv, SavesInv, BasedOn
  <2>2. r \in Nat
    BY ServerTypes DEF IInv, Base
  <2>3. b < r
    <3> HIDE DEF b
    <3> QED BY <2>1, <2>2
  <2> QED BY <2>1, <2>3
<1> QED BY <1>1, SpecInv, PTL

\* An answer to an observation from before an edit or another script changes
\* nothing the user sees (saveObservationTokenRef).
THEOREM LateAnswerIgnoredHolds == Spec => LateAnswerIgnored
<1>1. TokenInv =>
        \A f \in flights :
          f.stale /\ (Ignored(f) \/ Applied(f) \/ Rejected(f) \/ NotYet(f) \/ ObservationFails(f))
             => UNCHANGED <<parent, panel, observed>>
  <2> SUFFICES ASSUME TokenInv, NEW f \in flights, f.stale,
                      Ignored(f) \/ Applied(f) \/ Rejected(f) \/ NotYet(f) \/ ObservationFails(f)
               PROVE UNCHANGED <<parent, panel, observed>>
    OBVIOUS
  <2>1. CASE Ignored(f)
    BY <2>1 DEF Ignored
  <2>2. CASE Applied(f) \/ Rejected(f) \/ NotYet(f) \/ ObservationFails(f)
    <3>1. f.phase # "post" /\ token = f.token
      BY <2>2 DEF Applied, Rejected, NotYet, ObservationFails, Current
    <3>2. Ticket(f, token)
      BY DEF TokenInv
    <3>3. f.token < token /\ f.token \in Nat
      BY <3>1, <3>2 DEF Ticket
    <3> QED BY <3>1, <3>3
  <2> QED BY <2>1, <2>2
<1>2. TokenInv /\ [Next]_vars =>
        [\A f \in flights :
           f.stale /\ (Ignored(f) \/ Applied(f) \/ Rejected(f) \/ NotYet(f) \/ ObservationFails(f))
              => UNCHANGED <<parent, panel, observed>>]_vars
  BY <1>1
<1> QED BY <1>2, SpecInv, PTL DEF Spec, LateAnswerIgnored
==============================================================================
