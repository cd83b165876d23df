------------------------ MODULE RuntimeCallbacksProofs ------------------------
(***************************************************************************)
(* Safety of RuntimeCallbacks for any set of callback ids, any number of   *)
(* schedulings and any number of failed awaits and crashes.                *)
(*                                                                         *)
(* The inductive invariant follows a call from await to await: which entry *)
(* it has put into or taken out of the memory, and where the memory has    *)
(* just been written.  A scheduling that ended is in neither copy of the   *)
(* state, so no later tick, reload or write can bring it back; one that    *)
(* was granted and is untouched is in both.                                *)
(***************************************************************************)
EXTENDS RuntimeCallbacks, TLAPS

\* An entry that is there has a number and a generation.
WellFormed(e) == e = NoEntry \/ (e.n >= 1 /\ e.gen >= 1)

Counted ==
    /\ \A id \in Ids : /\ WellFormed(memory[id]) /\ memory[id].n <= last
                       /\ WellFormed(stored[id]) /\ stored[id].n <= last
    /\ call.entry.n <= last
    /\ \A n \in ended \cup call.ending : n <= last
    /\ 0 \notin ended
    /\ call.ending \subseteq touched

\* One scheduling belongs to one callback id.
Distinct ==
    /\ \A i, j \in Ids : memory[i].n = memory[j].n /\ memory[i].n >= 1 => i = j
    /\ \A i, j \in Ids : stored[i].n = stored[j].n /\ stored[i].n >= 1 => i = j

\* Between the removal of an entry and that of its reminder.
Removing == call.at \in {"removalWrite", "unregister"}
\* The new entry waits until the one it replaces is gone.
Replacing == call.at \in {"resetWrite", "resetUnregister"}
\* The entry the call is about is the one in memory.
Present == call.at \in {"entryWrite", "register", "publish"}
\* The memory has just been written.
JustWritten == call.at \in {"resetUnregister", "register", "unregister"}

CallShape ==
    /\ call.at = "idle" => call = Idle
    /\ Replacing => /\ call.id \in Ids /\ memory[call.id] = NoEntry
                    /\ call.entry # NoEntry /\ WellFormed(call.entry)
                    /\ call.entry.n \notin ended \cup call.ending
                    /\ \A id \in Ids : memory[id].n # call.entry.n
    /\ Present => call.id \in Ids /\ call.entry # NoEntry /\ memory[call.id] = call.entry
    /\ Removing => \A id \in call.ids : memory[id] = NoEntry
    /\ call.at = "undoWrite" => call.id \in Ids /\ memory[call.id] = NoEntry
    /\ call.at = "indexWrite" => call.id \in Ids /\ call.entry.periodic
    /\ JustWritten => stored = memory

\* What has ended, or is about to, is not in memory; what has ended is not
\* stored either.
EndedIsGone ==
    \A id \in Ids : /\ memory[id].n \notin ended \cup call.ending
                    /\ stored[id].n \notin ended

\* A granted scheduling nothing has touched: both copies of the state hold it,
\* and a reminder of its kind is to come, or has just ticked for the call, unless
\* the tick was missed.
Durable(l) ==
    /\ memory[l.id].n = l.n /\ stored[l.id].n = l.n
    /\ memory[l.id].periodic = stored[l.id].periodic
    /\ memory[l.id].periodic => reminders[l.id] = "periodic"
    /\ \/ reminders[l.id] \in {"once", "periodic"}
       \/ At("publish") /\ call.id = l.id
       \/ l.n \in missed

UntouchedIsDurable == \A l \in leases : l.n \notin touched => Durable(l)

IInv ==
    /\ TypeOK /\ Counted /\ Distinct /\ CallShape /\ EndedIsGone
    /\ UntouchedIsDurable

-----------------------------------------------------------------------------
(* Type correctness of one step                                            *)

USE DEF At, NoEntry

\* The empty call, the empty entry and a new entry are well-typed.
LEMMA ConstantTypes == Idle \in CallType /\ NoEntry \in EntryType
BY BoundsAssumption DEF Idle, CallType, EntryType, Steps

\* A new scheduling takes the next number and a generation of its own.
LEMMA NewEntryType ==
    ASSUME TypeOK, last < MaxSchedulings, NEW id \in Ids, NEW periodic \in BOOLEAN
    PROVE  /\ NewEntry(id, periodic) \in EntryType
           /\ NewEntry(id, periodic).n = last + 1
           /\ NewEntry(id, periodic).gen >= 1
<1>1. memory[id].gen \in Nat /\ last \in Nat /\ MaxSchedulings \in Nat
  BY BoundsAssumption DEF TypeOK, EntryType
<1> QED BY <1>1 DEF NewEntry, EntryType

\* Taking entries out of the memory leaves it well-typed.
LEMMA RemoveType ==
    ASSUME TypeOK, NEW ids, Remove(ids)
    PROVE  /\ memory' \in [Ids -> EntryType]
           /\ ids \subseteq Ids => touched' \subseteq 0 .. MaxSchedulings
           /\ touched \subseteq touched'
           /\ Ending(ids) \subseteq touched'
<1>1. NoEntry \in EntryType
  BY ConstantTypes
<1>2. memory' \in [Ids -> EntryType]
  BY <1>1 DEF Remove, TypeOK
<1>3. \A id \in Ids : memory[id].n \in 0 .. MaxSchedulings
  BY DEF TypeOK, EntryType
<1>4. ids \subseteq Ids => touched' \subseteq 0 .. MaxSchedulings
  BY <1>3 DEF Remove, TypeOK
<1> QED BY <1>2, <1>4 DEF Remove, Ending

\* The schedulings of entries that are there have numbers from 1.
LEMMA EndingType ==
    ASSUME TypeOK, Counted, NEW ids \in SUBSET Held
    PROVE  Ending(ids) \subseteq 1 .. MaxSchedulings
<1>1. \A id \in Held : memory[id].n \in 1 .. MaxSchedulings
  BY BoundsAssumption DEF Held, TypeOK, EntryType, Counted, WellFormed
<1> QED BY <1>1 DEF Ending

\* A call that goes on keeps its type.
LEMMA GoOnType ==
    ASSUME TypeOK, NEW step \in Steps
    PROVE  GoOn(step) \in CallType
BY DEF TypeOK, GoOn, CallType

\* So does one that has taken entries out.
LEMMA RemovalType ==
    ASSUME TypeOK, NEW ids \in SUBSET Ids, NEW ending \in SUBSET (1 .. MaxSchedulings)
    PROVE  Removal(ids, ending) \in CallType
BY DEF TypeOK, Removal, CallType, Steps

\* An entry that is there makes a lease with a number and a generation.
LEMMA LeaseTyped ==
    ASSUME TypeOK, NEW id \in Ids, NEW e \in EntryType, e # NoEntry, WellFormed(e)
    PROVE  Lease(id, e) \in LeaseType
BY DEF Lease, LeaseType, EntryType, WellFormed

\* A missed tick leaves the reminders well-typed.
LEMMA MissingType ==
    ASSUME TypeOK, NEW ids \in SUBSET OneShots, Missing(ids)
    PROVE  /\ reminders' \in [Ids -> {"none", "once", "periodic", "spent"}]
           /\ missed' \subseteq 0 .. MaxSchedulings
           /\ missed \subseteq missed'
           /\ \A id \in Ids : reminders'[id] # reminders[id] =>
                 reminders[id] = "once" /\ stored[id].n \in missed'
           /\ \A id \in Ids : reminders[id] = "periodic" => reminders'[id] = "periodic"
<1>1. ids \subseteq Ids /\ \A id \in ids : reminders[id] = "once"
  BY DEF OneShots
<1>2. \A id \in Ids : stored[id].n \in 0 .. MaxSchedulings
  BY DEF TypeOK, EntryType
<1>3. missed' \subseteq 0 .. MaxSchedulings
  BY <1>1, <1>2 DEF Missing, TypeOK
<1> QED BY <1>1, <1>3 DEF Missing, TypeOK

\* Every step leaves every variable in its type.
LEMMA TypeStep == ASSUME IInv, Next PROVE TypeOK'
<1> USE DEF IInv
<1>1. ASSUME NEW id \in Ids, NEW periodic \in BOOLEAN, Schedule(id, periodic)
      PROVE  TypeOK'
  <2> DEFINE e == NewEntry(id, periodic)
  <2>1. e \in EntryType
    BY <1>1, NewEntryType DEF Schedule
  <2>2. last' \in 0 .. MaxSchedulings
    BY <1>1, BoundsAssumption DEF Schedule, TypeOK
  <2>3. CASE id \in Held
    <3>1. Remove({id}) /\ call' = [at |-> "resetWrite", id |-> id, entry |-> e,
                                   ids |-> {}, ending |-> Ending({id})]
      BY <1>1, <2>3 DEF Schedule
    <3>2. Ending({id}) \subseteq 1 .. MaxSchedulings
      BY <2>3, EndingType
    <3> HIDE DEF e
    <3>3. call' \in CallType
      BY <2>1, <3>1, <3>2 DEF CallType, Steps
    <3> QED BY <1>1, <2>2, <3>1, <3>3, RemoveType DEF Schedule, TypeOK
  <2>4. CASE id \notin Held
    <3>1. /\ memory' = [memory EXCEPT ![id] = e]
          /\ call' = [at |-> "entryWrite", id |-> id, entry |-> e, ids |-> {}, ending |-> {}]
          /\ touched' = touched
      BY <1>1, <2>4 DEF Schedule
    <3> HIDE DEF e
    <3>2. call' \in CallType
      BY <2>1, <3>1 DEF CallType, Steps
    <3>3. memory' \in [Ids -> EntryType]
      BY <2>1, <3>1 DEF TypeOK
    <3> QED BY <1>1, <2>2, <3>1, <3>2, <3>3 DEF Schedule, TypeOK
  <2> QED BY <2>3, <2>4
<1>2. CASE UnregisterReplaced
  <2>1. call' \in CallType
    BY <1>2, GoOnType DEF UnregisterReplaced, Steps
  <2>2. call.entry \in EntryType
    BY DEF TypeOK, CallType
  <2> QED BY <1>2, <2>1, <2>2 DEF UnregisterReplaced, TypeOK
<1>3. CASE Register
  <2>1. Lease(call.id, call.entry) \in LeaseType
    <3>1. /\ call.id \in Ids /\ call.entry # NoEntry /\ memory[call.id] = call.entry
          /\ WellFormed(call.entry)
      BY <1>3 DEF Register, CallShape, Present, Counted
    <3> QED BY <3>1, LeaseTyped DEF TypeOK
  <2>2. reminders' \in [Ids -> {"none", "once", "periodic", "spent"}]
    BY <1>3 DEF Register, Registered, TypeOK
  <2> QED BY <1>3, <2>1, <2>2, ConstantTypes DEF Register, TypeOK
<1>4. CASE RegisterFails
  <2>1. call.id \in Ids
    BY <1>4 DEF RegisterFails, CallShape, Present
  <2>2. Remove({call.id}) /\ faults' \in 0 .. MaxFaults
    BY <1>4, BoundsAssumption DEF RegisterFails, TypeOK
  <2>3. reminders' \in [Ids -> {"none", "once", "periodic", "spent"}]
    BY <1>4 DEF RegisterFails, Registered, TypeOK
  <2>4. call' \in CallType
    BY <1>4, GoOnType DEF RegisterFails, Steps
  <2> QED BY <1>4, <2>1, <2>2, <2>3, <2>4, RemoveType DEF RegisterFails, TypeOK
<1>5. ASSUME NEW l \in leases, Cancel(l)
      PROVE  TypeOK'
  <2>1. l.id \in Ids /\ l.id \in Held
    BY <1>5 DEF Cancel, Held, TypeOK, LeaseType
  <2>2. Remove({l.id})
    BY <1>5 DEF Cancel
  <2>3. call' \in CallType
    BY <1>5, <2>1, RemovalType, EndingType DEF Cancel
  <2> QED BY <1>5, <2>1, <2>2, <2>3, RemoveType DEF Cancel, TypeOK
<1>6. CASE Purge
  <2>1. Remove(Held) /\ Held \subseteq Ids
    BY <1>6 DEF Purge, Held
  <2>2. call' \in CallType
    BY <1>6, <2>1, RemovalType, EndingType DEF Purge
  <2> QED BY <1>6, <2>1, <2>2, RemoveType DEF Purge, TypeOK
<1>7. ASSUME NEW id \in Ids, Unregister(id)
      PROVE  TypeOK'
  <2>1. call' \in CallType
    <3>1. CASE call.ids = {id}
      BY <1>7, <3>1, ConstantTypes DEF Unregister
    <3>2. CASE call.ids # {id}
      <4>1. call' = [call EXCEPT !.ids = @ \ {id}]
        BY <1>7, <3>2 DEF Unregister
      <4> QED BY <4>1 DEF TypeOK, CallType
    <3> QED BY <3>1, <3>2
  <2> QED BY <1>7, <2>1 DEF Unregister, TypeOK
<1>8. ASSUME NEW id \in Ids, Tick(id)
      PROVE  TypeOK'
  <2>1. memory[id] \in EntryType
    BY DEF TypeOK
  <2>2. call' \in CallType
    BY <1>8, <2>1, ConstantTypes DEF Tick, CallType, Steps
  <2> QED BY <1>8, <2>2 DEF Tick, TypeOK
<1>9. CASE Publish
  <2>1. /\ call.id \in Ids /\ call.entry # NoEntry /\ memory[call.id] = call.entry
        /\ WellFormed(call.entry) /\ call.entry \in EntryType
    BY <1>9 DEF Publish, CallShape, Present, Counted, TypeOK, CallType
  <2>2. sent' \in Seq(LeaseType)
    <3>1. Lease(call.id, call.entry) \in LeaseType
      BY <2>1, LeaseTyped
    <3> QED BY <1>9, <3>1 DEF Publish, TypeOK
  <2>3. CASE call.entry.periodic
    <3>1. FiredOnce(call.entry) \in EntryType
      BY <2>1 DEF FiredOnce, EntryType
    <3>2. memory' = [memory EXCEPT ![call.id] = FiredOnce(call.entry)]
      BY <1>9, <2>1, <2>3 DEF Publish
    <3>3. memory' \in [Ids -> EntryType]
      BY <3>1, <3>2 DEF TypeOK
    <3>4. call' \in CallType
      BY <1>9, <2>3, GoOnType DEF Publish, Steps
    <3> QED BY <1>9, <2>2, <2>3, <3>3, <3>4 DEF Publish, TypeOK
  <2>4. CASE ~call.entry.periodic
    <3>1. Remove({call.id})
      BY <1>9, <2>4 DEF Publish
    <3>2. {call.entry.n} \subseteq 1 .. MaxSchedulings
      BY <2>1, BoundsAssumption DEF EntryType, WellFormed
    <3>3. call' \in CallType
      BY <1>9, <2>1, <2>4, <3>2, RemovalType DEF Publish
    <3>4. /\ memory' \in [Ids -> EntryType] /\ touched' \subseteq 0 .. MaxSchedulings
          /\ touched \subseteq touched'
      BY <2>1, <3>1, RemoveType
    <3>5. UNCHANGED <<stored, reminders, leases, last, ended, missed, faults>>
      BY <1>9 DEF Publish
    <3> QED BY <2>2, <3>3, <3>4, <3>5 DEF TypeOK
  <2> QED BY <2>3, <2>4
<1>10. CASE WriteState
  <2>1. call' \in CallType
    <3>1. \A step, next : Write(step, next) /\ next \in Steps => call' \in CallType
      BY ConstantTypes, GoOnType DEF Write
    <3> QED BY <1>10, <3>1 DEF WriteState, Steps
  <2>2. /\ stored' = memory /\ ended' = ended \cup call.ending
        /\ UNCHANGED <<memory, reminders, sent, leases, last, touched, missed, faults>>
    BY <1>10 DEF WriteState, Write
  <2> QED BY <2>1, <2>2 DEF TypeOK, Counted
<1>11. CASE AwaitFails
  <2>1. faults' \in 0 .. MaxFaults
    BY <1>11, BoundsAssumption DEF AwaitFails, TypeOK
  <2>2. stored' \in [Ids -> EntryType]
    BY <1>11 DEF AwaitFails, TypeOK
  <2>3. reminders' \in [Ids -> {"none", "once", "periodic", "spent"}]
    <3>1. \/ reminders' = reminders
          \/ \E id \in Unregistering : reminders' = [reminders EXCEPT ![id] = "none"]
      BY <1>11 DEF AwaitFails
    <3> QED BY <3>1 DEF TypeOK
  <2>4. sent' \in Seq(LeaseType)
    <3>1. CASE UNCHANGED sent
      BY <3>1 DEF TypeOK
    <3>2. CASE call.at = "publish" /\ sent' = Append(sent, Lease(call.id, call.entry))
      <4>1. /\ call.id \in Ids /\ call.entry # NoEntry /\ memory[call.id] = call.entry
            /\ WellFormed(call.entry) /\ call.entry \in EntryType
        BY <3>2 DEF CallShape, Present, Counted, TypeOK, CallType
      <4>2. Lease(call.id, call.entry) \in LeaseType
        BY <4>1, LeaseTyped
      <4> QED BY <3>2, <4>2 DEF TypeOK
    <3> QED BY <1>11, <3>1, <3>2 DEF AwaitFails
  <2>5. touched' \subseteq 0 .. MaxSchedulings /\ touched \subseteq touched'
    BY <1>11 DEF AwaitFails, Broken, TypeOK, CallType, EntryType
  <2> QED BY <1>11, <2>1, <2>2, <2>3, <2>4, <2>5, ConstantTypes DEF AwaitFails, TypeOK
<1>12. CASE Reactivate
  BY <1>12 DEF Reactivate, TypeOK
<1>13. CASE Crash
  <2>1. faults' \in 0 .. MaxFaults
    BY <1>13, BoundsAssumption DEF Crash, TypeOK
  <2>2. touched' \subseteq 0 .. MaxSchedulings /\ touched \subseteq touched'
    BY <1>13 DEF Crash, Broken, TypeOK, CallType, EntryType
  <2>3. /\ reminders' \in [Ids -> {"none", "once", "periodic", "spent"}]
        /\ missed' \subseteq 0 .. MaxSchedulings
    BY <1>13, MissingType DEF Crash
  <2> QED BY <1>13, <2>1, <2>2, <2>3, ConstantTypes DEF Crash, TypeOK
<1>14. CASE TicksMissed
  <2>1. faults' \in 0 .. MaxFaults
    BY <1>14, BoundsAssumption DEF TicksMissed, TypeOK
  <2>2. /\ reminders' \in [Ids -> {"none", "once", "periodic", "spent"}]
        /\ missed' \subseteq 0 .. MaxSchedulings
    BY <1>14, MissingType DEF TicksMissed
  <2> QED BY <1>14, <2>1, <2>2 DEF TicksMissed, TypeOK
<1> QED
  BY <1>1, <1>2, <1>3, <1>4, <1>5, <1>6, <1>7, <1>8, <1>9, <1>10, <1>11, <1>12, <1>13, <1>14
  DEF Next, Proceed

-----------------------------------------------------------------------------
(* What the larger steps do                                                *)

\* Removing one entry, and only it.
LEMMA RemoveOne ==
    ASSUME TypeOK, NEW id \in Ids, Remove({id})
    PROVE  /\ memory' = [memory EXCEPT ![id] = NoEntry]
           /\ touched' = touched \cup {memory[id].n}
BY DEF Remove, TypeOK

\* A scheduling makes a new entry; the entry it replaces leaves the memory, or
\* the new one enters it.
Scheduled(id, e) ==
    /\ e.n = last + 1 /\ e # NoEntry /\ WellFormed(e)
    /\ call = Idle /\ last' = last + 1
    /\ UNCHANGED <<stored, reminders, sent, leases, ended, missed, faults>>
    /\ \/ /\ memory[id] # NoEntry /\ memory' = [memory EXCEPT ![id] = NoEntry]
          /\ touched' = touched \cup {memory[id].n}
          /\ call' = [at |-> "resetWrite", id |-> id, entry |-> e,
                      ids |-> {}, ending |-> {memory[id].n}]
       \/ /\ memory[id] = NoEntry /\ memory' = [memory EXCEPT ![id] = e]
          /\ touched' = touched
          /\ call' = [at |-> "entryWrite", id |-> id, entry |-> e,
                      ids |-> {}, ending |-> {}]

\* That is what a call to schedule does.
LEMMA ScheduleCases ==
    ASSUME IInv, NEW id \in Ids, NEW periodic \in BOOLEAN, Schedule(id, periodic)
    PROVE  \E e \in EntryType : Scheduled(id, e)
<1> DEFINE e == NewEntry(id, periodic)
<1>1. last < MaxSchedulings /\ last \in Nat
  BY DEF Schedule, IInv, TypeOK
<1>2. e \in EntryType /\ e.n = last + 1 /\ e.gen >= 1
  BY <1>1, NewEntryType DEF IInv
<1>3. e # NoEntry /\ WellFormed(e)
  BY <1>1, <1>2 DEF WellFormed
<1>4. call = Idle /\ last' = last + 1
  BY DEF Schedule, IInv, CallShape
<1>5. CASE id \in Held
  <2>1. /\ Remove({id})
        /\ call' = [at |-> "resetWrite", id |-> id, entry |-> e, ids |-> {},
                    ending |-> Ending({id})]
    BY <1>5 DEF Schedule
  <2>2. Ending({id}) = {memory[id].n} /\ memory[id] # NoEntry
    BY <1>5 DEF Ending, Held
  <2> HIDE DEF e
  <2> QED BY <1>2, <1>3, <1>4, <2>1, <2>2, RemoveOne DEF IInv, Schedule, Scheduled
<1>6. CASE id \notin Held
  <2>1. /\ memory' = [memory EXCEPT ![id] = e] /\ touched' = touched
        /\ call' = [at |-> "entryWrite", id |-> id, entry |-> e, ids |-> {}, ending |-> {}]
    BY <1>6 DEF Schedule
  <2>2. memory[id] = NoEntry
    BY <1>6 DEF Held
  <2> HIDE DEF e
  <2> QED BY <1>2, <1>3, <1>4, <2>1, <2>2 DEF Schedule, Scheduled
<1> QED BY <1>5, <1>6

\* A publication counts the entry on, or takes it out of the memory.
LEMMA PublishCases ==
    ASSUME IInv, Publish
    PROVE  /\ call.id \in Ids /\ memory[call.id] = call.entry /\ call.entry # NoEntry
           /\ WellFormed(call.entry) /\ call.entry \in EntryType /\ call.at = "publish"
           /\ sent' = Append(sent, Lease(call.id, call.entry))
           /\ UNCHANGED <<stored, reminders, leases, last, ended, missed, faults>>
           /\ \/ /\ call.entry.periodic /\ touched' = touched
                 /\ memory' = [memory EXCEPT ![call.id] = FiredOnce(call.entry)]
                 /\ call' = GoOn("indexWrite")
              \/ /\ ~call.entry.periodic /\ touched' = touched \cup {call.entry.n}
                 /\ memory' = [memory EXCEPT ![call.id] = NoEntry]
                 /\ call' = Removal({call.id}, {call.entry.n})
<1>1. /\ call.id \in Ids /\ memory[call.id] = call.entry /\ call.entry # NoEntry
      /\ WellFormed(call.entry) /\ call.entry \in EntryType /\ call.at = "publish"
  BY DEF Publish, IInv, CallShape, Present, Counted, TypeOK, CallType
<1>2. ~call.entry.periodic => Remove({call.id})
  BY DEF Publish
<1> QED BY <1>1, <1>2, RemoveOne DEF Publish, IInv

\* A state write stores the memory, and the call goes on or ends.
LEMMA WriteCases ==
    ASSUME WriteState
    PROVE  /\ stored' = memory /\ ended' = ended \cup call.ending
           /\ UNCHANGED <<memory, reminders, sent, leases, last, touched, missed, faults>>
           /\ \/ call.at = "resetWrite" /\ call' = GoOn("resetUnregister")
              \/ call.at = "entryWrite" /\ call' = GoOn("register")
              \/ call.at = "removalWrite" /\ call' = GoOn("unregister")
              \/ call.at \in {"undoWrite", "indexWrite"} /\ call' = Idle
BY DEF WriteState, Write

-----------------------------------------------------------------------------
(* The invariant is preserved                                              *)

\* Numbers and generations stay those of schedulings that took place.
LEMMA CountedStep == ASSUME IInv, Next PROVE Counted'
<1> USE DEF IInv
<1>a. last \in Nat /\ WellFormed(NoEntry) /\ NoEntry.n = 0
  BY DEF TypeOK, WellFormed
<1> HIDE DEF NoEntry
<1>b. \A i \in Ids : memory[i].n \in Nat /\ stored[i].n \in Nat
  BY DEF TypeOK, EntryType
<1>c. ended \subseteq Nat /\ call.ending \subseteq Nat /\ 0 \notin call.ending
  BY DEF TypeOK, CallType
<1>d. call.entry.n \in Nat
  BY DEF TypeOK, CallType, EntryType
<1>e. memory \in [Ids -> EntryType]
  BY DEF TypeOK
<1>1. ASSUME NEW id \in Ids, NEW periodic \in BOOLEAN, Schedule(id, periodic)
      PROVE  Counted'
  <2>1. PICK e \in EntryType : Scheduled(id, e)
    BY <1>1, ScheduleCases
  <2>2. e.n = last + 1 /\ WellFormed(e) /\ last' = last + 1 /\ UNCHANGED <<stored, ended>>
    BY <2>1 DEF Scheduled
  <2>3. \A i \in Ids : memory'[i] \in {memory[i], NoEntry, e}
    BY <2>1, <1>e DEF Scheduled
  <2>4. /\ call'.entry = e /\ call'.ending \in {{}, {memory[id].n}}
        /\ call'.ending \subseteq touched'
    BY <2>1 DEF Scheduled
  <2>5. \A i \in Ids : WellFormed(memory'[i]) /\ memory'[i].n <= last'
    BY <2>2, <2>3, <1>a, <1>b DEF Counted
  <2> QED BY <2>2, <2>4, <2>5, <1>a, <1>b, <1>c DEF Counted
<1>2. CASE UnregisterReplaced
  BY <1>2 DEF Counted, UnregisterReplaced, CallShape, Replacing, GoOn
<1>3. CASE Register
  BY <1>3, <1>a, <1>c DEF Counted, Register, Idle
<1>4. CASE RegisterFails
  BY <1>4, <1>a DEF Counted, RegisterFails, Remove, GoOn
<1>5. ASSUME NEW l \in leases, Cancel(l)
      PROVE  Counted'
  <2>1. /\ l.id \in Ids /\ Remove({l.id}) /\ call'.entry = call.entry
        /\ call'.ending = {memory[l.id].n}
        /\ UNCHANGED <<stored, ended, last>>
    BY <1>5 DEF Cancel, TypeOK, LeaseType, Removal, Ending
  <2>2. memory' = [memory EXCEPT ![l.id] = NoEntry] /\ memory[l.id].n \in touched'
    BY <2>1, RemoveOne
  <2>3. \A i \in Ids : memory'[i] \in {memory[i], NoEntry}
    BY <2>2, <1>e
  <2>4. \A i \in Ids : WellFormed(memory'[i]) /\ memory'[i].n <= last'
    BY <2>1, <2>3, <1>a, <1>b DEF Counted
  <2>5. \A n \in ended' \cup call'.ending : n <= last'
    BY <2>1, <1>b, <1>c DEF Counted
  <2> QED BY <2>1, <2>2, <2>4, <2>5 DEF Counted
<1>6. CASE Purge
  BY <1>6, <1>a DEF Counted, Purge, Remove, Removal, Ending, Held
<1>7. ASSUME NEW id \in Ids, Unregister(id)
      PROVE  Counted'
  <2>1. /\ call'.entry \in {NoEntry, call.entry} /\ call'.ending \in {{}, call.ending}
        /\ UNCHANGED <<memory, stored, last, touched, ended>>
    BY <1>7 DEF Unregister, Idle
  <2> QED BY <2>1, <1>a, <1>b, <1>c, <1>d DEF Counted
<1>8. ASSUME NEW id \in Ids, Tick(id)
      PROVE  Counted'
  BY <1>8, <1>a DEF Counted, Tick, Idle
<1>9. CASE Publish
  <2>1. FiredOnce(call.entry).n = call.entry.n /\ WellFormed(FiredOnce(call.entry))
    BY <1>9, PublishCases DEF FiredOnce, WellFormed
  <2>2. /\ call'.entry = call.entry /\ UNCHANGED <<stored, ended, last>>
        /\ call'.ending \in {call.ending, {call.entry.n}} /\ call'.ending \subseteq touched'
        /\ touched \subseteq touched'
    BY <1>9, PublishCases DEF GoOn, Removal, Counted
  <2>3. \A i \in Ids : memory'[i] \in {memory[i], NoEntry, FiredOnce(call.entry)}
    BY <1>9, <1>e, PublishCases
  <2>4. \A i \in Ids : WellFormed(memory'[i]) /\ memory'[i].n <= last'
    BY <2>1, <2>2, <2>3, <1>a, <1>b, <1>d DEF Counted
  <2> QED BY <2>2, <2>4, <1>a, <1>b, <1>c, <1>d DEF Counted
<1>10. CASE WriteState
  <2>1. /\ call'.entry \in {NoEntry, call.entry} /\ call'.ending \in {{}, call.ending}
        /\ stored' = memory /\ ended' = ended \cup call.ending
        /\ UNCHANGED <<memory, last, touched>>
    BY <1>10, WriteCases DEF GoOn, Idle
  <2> QED BY <2>1, <1>a, <1>b, <1>c, <1>d DEF Counted
<1>11. CASE AwaitFails
  BY <1>11, <1>a DEF Counted, AwaitFails, Idle
<1>12. CASE Reactivate
  BY <1>12 DEF Counted, Reactivate
<1>13. CASE Crash
  BY <1>13, <1>a DEF Counted, Crash, Idle
<1>14. CASE TicksMissed
  BY <1>14 DEF Counted, TicksMissed
<1> QED
  BY <1>1, <1>2, <1>3, <1>4, <1>5, <1>6, <1>7, <1>8, <1>9, <1>10, <1>11, <1>12, <1>13, <1>14
  DEF Next, Proceed

\* No two callback ids share a scheduling.
LEMMA DistinctStep == ASSUME IInv, Next PROVE Distinct'
<1> USE DEF IInv
<1>a. memory \in [Ids -> EntryType]
  BY DEF TypeOK
<1>b. \A i \in Ids : memory[i].n \in 0 .. last /\ stored[i].n \in 0 .. last
  BY DEF TypeOK, EntryType, Counted
<1>1. ASSUME NEW id \in Ids, NEW periodic \in BOOLEAN, Schedule(id, periodic)
      PROVE  Distinct'
  <2>1. PICK e \in EntryType : Scheduled(id, e)
    BY <1>1, ScheduleCases
  <2>2. e.n = last + 1 /\ stored' = stored
    BY <2>1 DEF Scheduled
  <2>3. \A i \in Ids : i # id => memory'[i] = memory[i]
    BY <2>1, <1>a DEF Scheduled
  <2>4. memory'[id] \in {NoEntry, e}
    BY <2>1, <1>a DEF Scheduled
  <2>5. memory'[id].n \in {0, last + 1}
    BY <2>2, <2>4
  <2>6. \A i, j \in Ids : memory'[i].n = memory'[j].n /\ memory'[i].n >= 1 => i = j
    <3>1. \A i \in Ids \ {id} : memory'[i].n \in 0 .. last
      BY <2>3, <1>b
    <3>2. last \in Nat
      BY DEF TypeOK
    <3>3. \A i \in Ids \ {id} : memory'[i].n = memory'[id].n => memory'[id].n = 0
      BY <2>5, <3>1, <3>2
    <3>4. \A i, j \in Ids \ {id} :
            memory'[i].n = memory'[j].n /\ memory'[i].n >= 1 => i = j
      BY <2>3 DEF Distinct
    <3> QED BY <3>3, <3>4
  <2> QED BY <2>2, <2>6 DEF Distinct
<1>2. CASE UnregisterReplaced
  BY <1>2 DEF Distinct, UnregisterReplaced, CallShape, Replacing
<1>3. CASE Register
  BY <1>3 DEF Distinct, Register
<1>4. CASE RegisterFails
  BY <1>4 DEF Distinct, RegisterFails, Remove
<1>5. ASSUME NEW l \in leases, Cancel(l)
      PROVE  Distinct'
  BY <1>5 DEF Distinct, Cancel, Remove
<1>6. CASE Purge
  BY <1>6 DEF Distinct, Purge, Remove
<1>7. ASSUME NEW id \in Ids, Unregister(id)
      PROVE  Distinct'
  BY <1>7 DEF Distinct, Unregister
<1>8. ASSUME NEW id \in Ids, Tick(id)
      PROVE  Distinct'
  BY <1>8 DEF Distinct, Tick
<1>9. CASE Publish
  <2>1. \A i \in Ids : memory'[i].n \in {memory[i].n, 0}
    BY <1>9, <1>a, PublishCases DEF FiredOnce
  <2> QED BY <1>9, <2>1, <1>b, PublishCases DEF Distinct
<1>10. CASE WriteState
  BY <1>10, WriteCases DEF Distinct
<1>11. CASE AwaitFails
  BY <1>11 DEF Distinct, AwaitFails
<1>12. CASE Reactivate
  BY <1>12 DEF Distinct, Reactivate
<1>13. CASE Crash
  BY <1>13 DEF Distinct, Crash
<1>14. CASE TicksMissed
  BY <1>14 DEF Distinct, TicksMissed
<1> QED
  BY <1>1, <1>2, <1>3, <1>4, <1>5, <1>6, <1>7, <1>8, <1>9, <1>10, <1>11, <1>12, <1>13, <1>14
  DEF Next, Proceed

\* A call stays in the shape of the await it has come to.
LEMMA CallShapeStep == ASSUME IInv, Next PROVE CallShape'
<1> USE DEF IInv
<1>1. ASSUME NEW id \in Ids, NEW periodic \in BOOLEAN, Schedule(id, periodic)
      PROVE  CallShape'
  <2>1. PICK e \in EntryType : Scheduled(id, e)
    BY <1>1, ScheduleCases
  <2>2. /\ e.n = last + 1 /\ e # NoEntry /\ WellFormed(e) /\ ended' = ended
        /\ last \in Nat /\ \A i \in Ids : memory[i].n <= last /\ memory[i].n \in Nat
        /\ \A n \in ended : n <= last /\ n \in Nat
    BY <2>1 DEF Scheduled, Counted, TypeOK, EntryType
  <2>3. CASE memory[id] # NoEntry
    <3>1. /\ memory' = [memory EXCEPT ![id] = NoEntry]
          /\ call' = [at |-> "resetWrite", id |-> id, entry |-> e,
                      ids |-> {}, ending |-> {memory[id].n}]
      BY <2>1, <2>3 DEF Scheduled
    <3>2. memory'[id] = NoEntry /\ \A i \in Ids : memory'[i].n \in {0, memory[i].n}
      BY <3>1 DEF TypeOK
    <3>3. \A i \in Ids : memory'[i].n # e.n
      BY <2>2, <3>2
    <3>4. e.n \notin ended' \cup {memory[id].n}
      BY <2>2
    <3> QED BY <2>2, <3>1, <3>2, <3>3, <3>4
        DEF CallShape, Replacing, Present, Removing, JustWritten
  <2>4. CASE memory[id] = NoEntry
    <3>1. /\ memory' = [memory EXCEPT ![id] = e]
          /\ call' = [at |-> "entryWrite", id |-> id, entry |-> e, ids |-> {}, ending |-> {}]
      BY <2>1, <2>4 DEF Scheduled
    <3>2. memory'[id] = e
      BY <3>1 DEF TypeOK
    <3> QED BY <2>2, <3>1, <3>2 DEF CallShape, Replacing, Present, Removing, JustWritten
  <2> QED BY <2>3, <2>4
<1>2. CASE UnregisterReplaced
  BY <1>2 DEF CallShape, UnregisterReplaced, GoOn, Replacing, Removing, JustWritten, TypeOK
<1>3. CASE Register
  BY <1>3 DEF CallShape, Register, Idle, Replacing, Present, JustWritten
<1>4. CASE RegisterFails
  BY <1>4
  DEF CallShape, RegisterFails, Remove, GoOn, Replacing, Present, Removing, JustWritten
<1>5. ASSUME NEW l \in leases, Cancel(l)
      PROVE  CallShape'
  <2>1. l.id \in Ids /\ Remove({l.id}) /\ call' = Removal({l.id}, Ending({l.id}))
    BY <1>5 DEF Cancel, TypeOK, LeaseType
  <2>2. memory' = [memory EXCEPT ![l.id] = NoEntry] /\ memory'[l.id] = NoEntry
    BY <2>1, RemoveOne DEF TypeOK
  <2> QED BY <2>1, <2>2 DEF CallShape, Removal, Replacing, Present, Removing, JustWritten
<1>6. CASE Purge
  BY <1>6 DEF CallShape, Purge, Remove, Held, Removal, Replacing, Present, JustWritten
<1>7. ASSUME NEW id \in Ids, Unregister(id)
      PROVE  CallShape'
  BY <1>7 DEF CallShape, Unregister, Idle, Replacing, Present, Removing, JustWritten
<1>8. ASSUME NEW id \in Ids, Tick(id)
      PROVE  CallShape'
  BY <1>8 DEF CallShape, Tick, Held, Replacing, Present, Removing, JustWritten
<1>9. CASE Publish
  <2>1. CASE call.entry.periodic
    <3>1. call' = GoOn("indexWrite")
      BY <1>9, <2>1, PublishCases
    <3> QED BY <1>9, <2>1, <3>1, PublishCases
        DEF CallShape, GoOn, Replacing, Present, Removing, JustWritten
  <2>2. CASE ~call.entry.periodic
    <3>1. /\ memory' = [memory EXCEPT ![call.id] = NoEntry]
          /\ call' = Removal({call.id}, {call.entry.n})
      BY <1>9, <2>2, PublishCases
    <3>2. memory'[call.id] = NoEntry
      BY <1>9, <3>1, PublishCases DEF TypeOK
    <3> QED BY <3>1, <3>2 DEF CallShape, Removal, Replacing, Present, Removing, JustWritten
  <2> QED BY <2>1, <2>2
<1>10. CASE WriteState
  <2>1. /\ stored' = memory /\ memory' = memory /\ ended' = ended \cup call.ending
    BY <1>10, WriteCases
  <2>2. CASE call' = Idle
    BY <2>1, <2>2 DEF CallShape, Idle, Replacing, Present, Removing, JustWritten
  <2>3. CASE call.at = "resetWrite" /\ call' = GoOn("resetUnregister")
    BY <2>1, <2>3 DEF CallShape, GoOn, Replacing, Present, Removing, JustWritten
  <2>4. CASE call.at = "entryWrite" /\ call' = GoOn("register")
    BY <2>1, <2>4 DEF CallShape, GoOn, Replacing, Present, Removing, JustWritten
  <2>5. CASE call.at = "removalWrite" /\ call' = GoOn("unregister")
    BY <2>1, <2>5 DEF CallShape, GoOn, Replacing, Present, Removing, JustWritten
  <2> QED BY <1>10, <2>2, <2>3, <2>4, <2>5, WriteCases
<1>11. CASE AwaitFails
  BY <1>11 DEF CallShape, AwaitFails, Idle, Replacing, Present, JustWritten
<1>12. CASE Reactivate
  BY <1>12 DEF CallShape, Reactivate, Replacing, Present, Removing
<1>13. CASE Crash
  BY <1>13 DEF CallShape, Crash, Idle, Replacing, Present
<1>14. CASE TicksMissed
  BY <1>14 DEF CallShape, TicksMissed, Replacing, Present, Removing, JustWritten
<1> QED
  BY <1>1, <1>2, <1>3, <1>4, <1>5, <1>6, <1>7, <1>8, <1>9, <1>10, <1>11, <1>12, <1>13, <1>14
  DEF Next, Proceed

\* An ended scheduling stays out of the memory and out of the stored state.
LEMMA EndedIsGoneStep == ASSUME IInv, Next PROVE EndedIsGone'
<1> USE DEF IInv
<1>1. ASSUME NEW id \in Ids, NEW periodic \in BOOLEAN, Schedule(id, periodic)
      PROVE  EndedIsGone'
  <2>1. PICK e \in EntryType : Scheduled(id, e)
    BY <1>1, ScheduleCases
  <2>2. /\ e.n = last + 1 /\ stored' = stored /\ ended' = ended /\ last \in Nat
        /\ \A n \in ended : n <= last
    BY <2>1 DEF Scheduled, Counted, TypeOK
  <2>3. CASE memory[id] # NoEntry
    <3>1. /\ memory' = [memory EXCEPT ![id] = NoEntry] /\ call'.ending = {memory[id].n}
      BY <2>1, <2>3 DEF Scheduled
    <3>2. memory[id].n >= 1
      BY <2>3 DEF Counted, WellFormed
    <3>3. \A i \in Ids \ {id} : memory[i].n # memory[id].n
      BY <3>2 DEF Distinct
    <3> QED BY <2>2, <3>1, <3>2, <3>3 DEF EndedIsGone, Counted, TypeOK
  <2>4. CASE memory[id] = NoEntry
    <3>1. memory' = [memory EXCEPT ![id] = e] /\ call'.ending = {}
      BY <2>1, <2>4 DEF Scheduled
    <3>2. e.n \notin ended
      BY <2>2
    <3> QED BY <2>2, <3>1, <3>2 DEF EndedIsGone, TypeOK
  <2> QED BY <2>3, <2>4
<1>2. CASE UnregisterReplaced
  BY <1>2 DEF EndedIsGone, UnregisterReplaced, GoOn, CallShape, Replacing
<1>3. CASE Register
  BY <1>3 DEF EndedIsGone, Register, Idle, CallShape, JustWritten
<1>4. CASE RegisterFails
  <2>1. /\ call.id \in Ids /\ Remove({call.id}) /\ call'.ending = call.ending
        /\ stored' = stored /\ ended' = ended
    BY <1>4 DEF RegisterFails, GoOn, CallShape, Present
  <2>2. 0 \notin ended \cup call.ending
    BY DEF Counted, TypeOK, CallType
  <2> QED BY <2>1, <2>2 DEF EndedIsGone, Remove
<1>5. ASSUME NEW l \in leases, Cancel(l)
      PROVE  EndedIsGone'
  <2>1. /\ l.id \in Ids /\ Remove({l.id}) /\ call'.ending = {memory[l.id].n}
        /\ stored' = stored /\ ended' = ended /\ memory[l.id] # NoEntry
    BY <1>5 DEF Cancel, TypeOK, LeaseType, Removal, Ending
  <2>2. memory[l.id].n >= 1
    BY <2>1 DEF Counted, WellFormed
  <2>3. \A i \in Ids \ {l.id} : memory[i].n # memory[l.id].n
    BY <2>1, <2>2 DEF Distinct
  <2> QED BY <2>1, <2>2, <2>3 DEF EndedIsGone, Remove, Counted
<1>6. CASE Purge
  <2>1. /\ Remove(Held) /\ call'.ending = Ending(Held) /\ stored' = stored /\ ended' = ended
    BY <1>6 DEF Purge, Removal
  <2>2. \A i \in Ids : memory'[i] = NoEntry
    BY <2>1 DEF Remove, Held
  <2>3. 0 \notin Ending(Held)
    BY DEF Ending, Held, Counted, WellFormed
  <2> QED BY <2>1, <2>2, <2>3 DEF EndedIsGone, Counted
<1>7. ASSUME NEW id \in Ids, Unregister(id)
      PROVE  EndedIsGone'
  BY <1>7 DEF EndedIsGone, Unregister, Idle, CallShape, JustWritten
<1>8. ASSUME NEW id \in Ids, Tick(id)
      PROVE  EndedIsGone'
  BY <1>8 DEF EndedIsGone, Tick, CallShape
<1>9. CASE Publish
  <2>1. \A i \in Ids \ {call.id} : memory[i].n # call.entry.n
    BY <1>9, PublishCases DEF Distinct, WellFormed
  <2>2. 0 \notin ended
    BY DEF Counted
  <2>3. CASE call.entry.periodic
    <3>a. /\ memory' = [memory EXCEPT ![call.id] = FiredOnce(call.entry)]
          /\ memory[call.id] = call.entry /\ call' = GoOn("indexWrite")
          /\ UNCHANGED <<stored, ended>>
      BY <1>9, <2>3, PublishCases
    <3>b. \A i \in Ids : memory'[i].n = memory[i].n
      BY <3>a DEF FiredOnce, TypeOK
    <3>1. /\ call'.ending = call.ending /\ stored' = stored /\ ended' = ended
          /\ \A i \in Ids : memory'[i].n = memory[i].n
      BY <3>a, <3>b DEF GoOn
    <3> QED BY <3>1 DEF EndedIsGone
  <2>4. CASE ~call.entry.periodic
    <3>1. /\ call'.ending = {call.entry.n} /\ stored' = stored /\ ended' = ended
          /\ memory' = [memory EXCEPT ![call.id] = NoEntry]
      BY <1>9, <2>4, PublishCases DEF Removal
    <3>2. call.entry.n # 0
      BY <1>9, PublishCases DEF WellFormed
    <3>3. \A i \in Ids : memory'[i].n \notin ended \cup {call.entry.n}
      BY <2>1, <2>2, <3>1, <3>2 DEF EndedIsGone, TypeOK
    <3> QED BY <3>1, <3>3 DEF EndedIsGone
  <2> QED BY <2>3, <2>4
<1>10. CASE WriteState
  <2>1. call'.ending \subseteq call.ending
    BY <1>10, WriteCases DEF Idle, GoOn
  <2> QED BY <1>10, <2>1, WriteCases DEF EndedIsGone
<1>11. CASE AwaitFails
  BY <1>11 DEF EndedIsGone, AwaitFails, Idle
<1>12. CASE Reactivate
  BY <1>12 DEF EndedIsGone, Reactivate, Idle, CallShape
<1>13. CASE Crash
  BY <1>13 DEF EndedIsGone, Crash, Idle
<1>14. CASE TicksMissed
  BY <1>14 DEF EndedIsGone, TicksMissed
<1> QED
  BY <1>1, <1>2, <1>3, <1>4, <1>5, <1>6, <1>7, <1>8, <1>9, <1>10, <1>11, <1>12, <1>13, <1>14
  DEF Next, Proceed

\* A granted scheduling stays durable until it is touched.
LEMMA UntouchedIsDurableStep == ASSUME IInv, Next PROVE UntouchedIsDurable'
<1> USE DEF IInv
<1>a. \A l \in leases : l.n >= 1 /\ l.id \in Ids
  BY DEF TypeOK, LeaseType
<1>b. \A l \in leases : l.n \notin touched => Durable(l) /\ memory[l.id] # NoEntry
  BY <1>a DEF UntouchedIsDurable, Durable
<1>1. ASSUME NEW id \in Ids, NEW periodic \in BOOLEAN, Schedule(id, periodic)
      PROVE  UntouchedIsDurable'
  <2>1. PICK e \in EntryType : Scheduled(id, e)
    BY <1>1, ScheduleCases
  <2>2. SUFFICES ASSUME NEW l \in leases, l.n \notin touched'
                 PROVE  Durable(l)'
    BY <2>1 DEF Scheduled, UntouchedIsDurable
  <2>3. l.n \notin touched /\ l.id # id
    BY <2>1, <2>2, <1>b DEF Scheduled, Durable
  <2>4. /\ memory'[l.id] = memory[l.id] /\ UNCHANGED <<stored, reminders, missed>>
        /\ call.at # "publish"
    BY <2>1, <2>3, <1>a DEF Scheduled, TypeOK, Idle
  <2> QED BY <2>3, <2>4, <1>b DEF Durable
<1>2. CASE UnregisterReplaced
  <2>1. SUFFICES ASSUME NEW l \in leases, l.n \notin touched
                 PROVE  Durable(l)'
    BY <1>2 DEF UnregisterReplaced, UntouchedIsDurable
  <2>2. l.id # call.id
    BY <1>2, <2>1, <1>b DEF UnregisterReplaced, CallShape, Replacing
  <2> QED BY <1>2, <2>1, <2>2, <1>a, <1>b DEF UnregisterReplaced, Durable, TypeOK
<1>3. CASE Register
  <2>1. /\ call.id \in Ids /\ memory[call.id] = call.entry /\ stored = memory
        /\ call.entry # NoEntry /\ call.at # "publish" /\ reminders' = Registered
        /\ leases' = leases \cup {Lease(call.id, call.entry)}
        /\ UNCHANGED <<memory, stored, touched, missed>>
    BY <1>3 DEF Register, CallShape, Present, JustWritten
  <2>2. /\ reminders'[call.id] = IF call.entry.periodic THEN "periodic" ELSE "once"
        /\ \A i \in Ids : i # call.id => reminders'[i] = reminders[i]
    BY <2>1 DEF Registered, TypeOK
  <2>3. ASSUME NEW l \in leases', l.n \notin touched
        PROVE  Durable(l)'
    <3>1. CASE l = Lease(call.id, call.entry)
      BY <2>1, <2>2, <3>1 DEF Lease, Durable
    <3>2. CASE l \in leases
      <4>1. Durable(l) /\ l.id \in Ids
        BY <2>3, <3>2, <1>a, <1>b
      <4>2. CASE l.id = call.id
        BY <2>1, <2>2, <4>1, <4>2 DEF Durable
      <4>3. CASE l.id # call.id
        BY <2>1, <2>2, <4>1, <4>3 DEF Durable
      <4> QED BY <4>2, <4>3
    <3> QED BY <2>1, <3>1, <3>2
  <2> QED BY <2>1, <2>3 DEF UntouchedIsDurable
<1>4. CASE RegisterFails
  <2>1. /\ call.id \in Ids /\ Remove({call.id}) /\ call.at # "publish"
        /\ stored' = stored /\ leases' = leases /\ missed' = missed
        /\ reminders' \in {reminders, Registered}
    BY <1>4 DEF RegisterFails, CallShape, Present
  <2>2. SUFFICES ASSUME NEW l \in leases, l.n \notin touched'
                 PROVE  Durable(l)'
    BY <2>1 DEF UntouchedIsDurable
  <2>3. Durable(l) /\ l.id \in Ids /\ l.id # call.id
    BY <2>1, <2>2, <1>a, <1>b DEF Remove, Durable
  <2>4. memory'[l.id] = memory[l.id] /\ reminders'[l.id] = reminders[l.id]
    BY <2>1, <2>3 DEF Remove, Registered, TypeOK
  <2> QED BY <2>1, <2>3, <2>4 DEF Durable
<1>5. ASSUME NEW l \in leases, Cancel(l)
      PROVE  UntouchedIsDurable'
  <2>1. SUFFICES ASSUME NEW k \in leases, k.n \notin touched'
                 PROVE  Durable(k)'
    BY <1>5 DEF Cancel, UntouchedIsDurable
  <2>2. Durable(k) /\ k.id \in Ids /\ k.id # l.id
    BY <1>5, <2>1, <1>a, <1>b DEF Cancel, Remove, Durable
  <2> QED BY <1>5, <2>2 DEF Cancel, Remove, Durable
<1>6. CASE Purge
  <2>1. SUFFICES ASSUME NEW l \in leases, l.n \notin touched'
                 PROVE  Durable(l)'
    BY <1>6 DEF Purge, UntouchedIsDurable
  <2>2. Remove(Held)
    BY <1>6 DEF Purge
  <2>3. l.n \notin touched /\ l.n \notin {memory[i].n : i \in Held}
    BY <2>1, <2>2 DEF Remove
  <2>4. l.id \in Held /\ memory[l.id].n = l.n
    BY <2>3, <1>a, <1>b DEF Held, Durable
  <2> QED BY <2>3, <2>4
<1>7. ASSUME NEW id \in Ids, Unregister(id)
      PROVE  UntouchedIsDurable'
  <2>1. SUFFICES ASSUME NEW l \in leases, l.n \notin touched
                 PROVE  Durable(l)'
    BY <1>7 DEF Unregister, UntouchedIsDurable
  <2>2. Durable(l) /\ l.id \in Ids /\ l.id # id
    BY <1>7, <2>1, <1>a, <1>b DEF Unregister, CallShape, Removing
  <2> QED BY <1>7, <2>2 DEF Unregister, Durable, TypeOK
<1>8. ASSUME NEW id \in Ids, Tick(id)
      PROVE  UntouchedIsDurable'
  <2>1. SUFFICES ASSUME NEW l \in leases, l.n \notin touched
                 PROVE  Durable(l)'
    BY <1>8 DEF Tick, UntouchedIsDurable
  <2>2. Durable(l) /\ l.id \in Ids /\ memory[l.id] # NoEntry /\ call.at # "publish"
    BY <1>8, <2>1, <1>a, <1>b DEF Tick
  <2>3. CASE l.id = id
    <3>1. call'.at = "publish" /\ call'.id = id
      BY <1>8, <2>2, <2>3 DEF Tick, Held
    <3>2. reminders[id] = "periodic" => reminders'[id] = "periodic"
      BY <1>8 DEF Tick, TypeOK
    <3> QED BY <1>8, <2>2, <2>3, <3>1, <3>2 DEF Tick, Durable
  <2>4. CASE l.id # id
    BY <1>8, <2>2, <2>4 DEF Tick, Durable, TypeOK
  <2> QED BY <2>3, <2>4
<1>9. CASE Publish
  <2>1. SUFFICES ASSUME NEW l \in leases, l.n \notin touched'
                 PROVE  Durable(l)'
    BY <1>9, PublishCases DEF UntouchedIsDurable
  <2>2. Durable(l) /\ l.id \in Ids
    BY <1>9, <2>1, <1>a, <1>b, PublishCases
  <2>3. CASE l.id = call.id
    <3>1. call.entry.periodic
      BY <1>9, <2>1, <2>2, <2>3, PublishCases DEF Durable
    <3>2. memory'[l.id].n = memory[l.id].n /\ memory'[l.id].periodic = memory[l.id].periodic
      <4>1. memory'[l.id] = FiredOnce(call.entry) /\ memory[l.id] = call.entry
        BY <1>9, <2>3, <3>1, PublishCases DEF TypeOK
      <4> QED BY <4>1 DEF FiredOnce
    <3> QED BY <1>9, <2>2, <2>3, <3>1, <3>2, PublishCases DEF Durable
  <2>4. CASE l.id # call.id
    <3>1. memory'[l.id] = memory[l.id]
      BY <1>9, <2>2, <2>4, PublishCases DEF TypeOK
    <3> QED BY <1>9, <2>2, <2>4, <3>1, PublishCases DEF Durable
  <2> QED BY <2>3, <2>4
<1>10. CASE WriteState
  <2>1. /\ stored' = memory /\ memory' = memory /\ call.at # "publish"
        /\ UNCHANGED <<reminders, leases, touched, missed>>
    BY <1>10, WriteCases
  <2>2. SUFFICES ASSUME NEW l \in leases, l.n \notin touched
                 PROVE  Durable(l)'
    BY <2>1 DEF UntouchedIsDurable
  <2> QED BY <2>1, <2>2, <1>b DEF Durable
<1>11. CASE AwaitFails
  <2>1. /\ stored' \in {stored, memory} /\ UNCHANGED <<memory, leases, missed>>
        /\ touched' = touched \cup {call.entry.n}
        /\ \/ reminders' = reminders
           \/ \E i \in Unregistering : reminders' = [reminders EXCEPT ![i] = "none"]
    BY <1>11 DEF AwaitFails, Broken
  <2>2. SUFFICES ASSUME NEW l \in leases, l.n \notin touched'
                 PROVE  Durable(l)'
    BY <2>1 DEF UntouchedIsDurable
  <2>3. Durable(l) /\ l.id \in Ids /\ memory[l.id] # NoEntry
    BY <2>1, <2>2, <1>a, <1>b
  <2>4. ~(At("publish") /\ call.id = l.id)
    BY <2>1, <2>2, <2>3 DEF Durable, CallShape, Present
  <2>5. l.id \notin Unregistering
    BY <2>3 DEF Unregistering, CallShape, Removing, Replacing
  <2>6. reminders'[l.id] = reminders[l.id]
    BY <2>1, <2>3, <2>5 DEF TypeOK
  <2> QED BY <2>1, <2>3, <2>4, <2>6 DEF Durable
<1>12. CASE Reactivate
  <2>1. SUFFICES ASSUME NEW l \in leases, l.n \notin touched
                 PROVE  Durable(l)'
    BY <1>12 DEF Reactivate, UntouchedIsDurable
  <2> QED BY <1>12, <2>1, <1>b DEF Reactivate, Durable
<1>13. CASE Crash
  <2>1. SUFFICES ASSUME NEW l \in leases, l.n \notin touched'
                 PROVE  Durable(l)'
    BY <1>13 DEF Crash, UntouchedIsDurable
  <2>2. Durable(l) /\ l.id \in Ids /\ l.n # call.entry.n
    BY <1>13, <2>1, <1>a, <1>b DEF Crash, Broken
  <2>3. ~(At("publish") /\ call.id = l.id)
    BY <2>2 DEF Durable, CallShape, Present
  <2>4. /\ missed \subseteq missed'
        /\ reminders'[l.id] # reminders[l.id] => l.n \in missed'
        /\ reminders[l.id] = "periodic" => reminders'[l.id] = "periodic"
    BY <1>13, <2>2, MissingType DEF Crash, Durable
  <2> QED BY <1>13, <2>2, <2>3, <2>4 DEF Crash, Durable
<1>14. CASE TicksMissed
  <2>1. SUFFICES ASSUME NEW l \in leases, l.n \notin touched
                 PROVE  Durable(l)'
    BY <1>14 DEF TicksMissed, UntouchedIsDurable
  <2>2. Durable(l) /\ l.id \in Ids /\ call.at # "publish"
    BY <1>14, <2>1, <1>a, <1>b DEF TicksMissed
  <2>3. /\ missed \subseteq missed'
        /\ reminders'[l.id] # reminders[l.id] => l.n \in missed'
        /\ reminders[l.id] = "periodic" => reminders'[l.id] = "periodic"
    BY <1>14, <2>2, MissingType DEF TicksMissed, Durable
  <2> QED BY <1>14, <2>2, <2>3 DEF TicksMissed, Durable
<1> QED
  BY <1>1, <1>2, <1>3, <1>4, <1>5, <1>6, <1>7, <1>8, <1>9, <1>10, <1>11, <1>12, <1>13, <1>14
  DEF Next, Proceed

-----------------------------------------------------------------------------
(* Theorems                                                                *)

\* An empty scheduler satisfies the invariant.
LEMMA InitEstablishes == Init => IInv
<1> SUFFICES ASSUME Init PROVE IInv
  OBVIOUS
<1>1. /\ last = 0 /\ sent = <<>> /\ leases = {} /\ touched = {} /\ ended = {} /\ faults = 0 /\ missed = {}
      /\ call = Idle /\ memory = [id \in Ids |-> NoEntry] /\ stored = memory
      /\ reminders = [id \in Ids |-> "none"]
  BY DEF Init
<1>2. TypeOK
  BY <1>1, ConstantTypes, BoundsAssumption DEF TypeOK
<1>3. Counted
  BY <1>1 DEF Counted, Idle, WellFormed
<1>4. Distinct
  BY <1>1 DEF Distinct
<1>5. CallShape
  BY <1>1 DEF CallShape, Idle, Replacing, Present
<1>6. EndedIsGone
  BY <1>1 DEF EndedIsGone, Idle
<1>7. UntouchedIsDurable
  BY <1>1 DEF UntouchedIsDurable
<1> QED BY <1>2, <1>3, <1>4, <1>5, <1>6, <1>7 DEF IInv

\* Every step, and every stutter, preserves it.
LEMMA StepPreserves == IInv /\ [Next]_vars => IInv'
<1>1. ASSUME IInv, Next
      PROVE  IInv'
  BY <1>1, TypeStep, CountedStep, DistinctStep, CallShapeStep, EndedIsGoneStep,
     UntouchedIsDurableStep DEF IInv
<1>2. ASSUME IInv, UNCHANGED vars
      PROVE  IInv'
  <2> USE <1>2 DEF IInv, vars
  <2>1. TypeOK'
    BY DEF TypeOK
  <2>2. Counted'
    BY DEF Counted
  <2>3. Distinct'
    BY DEF Distinct
  <2>4. CallShape'
    BY DEF CallShape, Replacing, Present, Removing, JustWritten
  <2>5. EndedIsGone'
    BY DEF EndedIsGone
  <2>6. UntouchedIsDurable'
    BY DEF UntouchedIsDurable, Durable
  <2> QED BY <2>1, <2>2, <2>3, <2>4, <2>5, <2>6
<1> QED BY <1>1, <1>2

\* The inductive invariant holds in every reachable state of the scheduler.
THEOREM CallbacksInvariance == Spec => []IInv
BY InitEstablishes, StepPreserves, PTL DEF Spec

\* Every call, entry, lease and envelope of the scheduler is well-typed.
THEOREM CallbacksTypeCorrect == Spec => []TypeOK
<1>1. IInv => TypeOK
  BY DEF IInv
<1> QED BY <1>1, CallbacksInvariance, PTL

\* A callback that was granted and has met neither a call to end it nor a fault is
\* in both copies of the grain's state and has its reminder to come, unless that
\* came due while no silo served it.
THEOREM GrantedIsDurableHolds == Spec => []GrantedIsDurable
<1>1. IInv => GrantedIsDurable
  BY DEF IInv, UntouchedIsDurable, Durable, GrantedIsDurable
<1> QED BY <1>1, CallbacksInvariance, PTL

\* An envelope of one scheduling leaves the number of another's envelopes alone.
LEMMA OtherFires ==
    ASSUME sent \in Seq(LeaseType), NEW x \in LeaseType, NEW n, x.n # n,
           sent' = Append(sent, x)
    PROVE  Fires(n)' = Fires(n)
<1>1. DOMAIN sent = 1 .. Len(sent) /\ DOMAIN sent' = 1 .. Len(sent) + 1 /\ Len(sent) \in Nat
  OBVIOUS
<1>2. \A i \in 1 .. Len(sent) : sent'[i] = sent[i]
  OBVIOUS
<1>3. sent'[Len(sent) + 1] = x
  OBVIOUS
<1>4. {i \in DOMAIN sent' : sent'[i].n = n} = {i \in DOMAIN sent : sent[i].n = n}
  BY <1>1, <1>2, <1>3
<1> QED BY <1>4 DEF Fires

\* Once the removal of a callback is written - by its cancellation, a purge, its
\* replacement or its only firing -, it never fires again, whether or not its
\* reminder was unregistered.
THEOREM EndedNeverFiresHolds == Spec => EndedNeverFires
<1>1. ASSUME IInv, [Next]_vars
      PROVE  [\A n \in ended : Fires(n)' = Fires(n)]_vars
  <2>1. CASE UNCHANGED sent
    BY <2>1 DEF Fires
  <2>2. CASE /\ call.at = "publish"
             /\ sent' = Append(sent, Lease(call.id, call.entry))
    <3>1. /\ call.id \in Ids /\ call.entry # NoEntry /\ memory[call.id] = call.entry
          /\ WellFormed(call.entry) /\ call.entry \in EntryType
      BY <1>1, <2>2 DEF IInv, CallShape, Present, Counted, TypeOK, CallType
    <3>2. Lease(call.id, call.entry) \in LeaseType /\ Lease(call.id, call.entry).n = call.entry.n
      BY <1>1, <3>1, LeaseTyped DEF IInv, Lease
    <3>3. call.entry.n \notin ended
      BY <1>1, <3>1 DEF IInv, EndedIsGone
    <3>4. sent \in Seq(LeaseType)
      BY <1>1 DEF IInv, TypeOK
    <3>5. ASSUME NEW n \in ended
          PROVE  Fires(n)' = Fires(n)
      <4>1. Lease(call.id, call.entry).n # n
        BY <3>2, <3>3
      <4> QED BY <2>2, <3>2, <3>4, <4>1, OtherFires
    <3> QED BY <3>5
  <2>3. UNCHANGED sent \/ /\ call.at = "publish"
                          /\ sent' = Append(sent, Lease(call.id, call.entry))
    <3>1. CASE UNCHANGED vars
      BY <3>1 DEF vars
    <3>2. CASE Publish \/ AwaitFails
      BY <3>2 DEF Publish, AwaitFails
    <3>3. CASE WriteState
      BY <3>3, WriteCases
    <3>4. CASE UnregisterReplaced \/ Register \/ RegisterFails \/ Purge \/ Reactivate
               \/ Crash \/ TicksMissed
      BY <3>4 DEF UnregisterReplaced, Register, RegisterFails, Purge, Reactivate, Crash,
                  TicksMissed
    <3>5. CASE \/ \E id \in Ids, periodic \in BOOLEAN : Schedule(id, periodic)
               \/ \E l \in leases : Cancel(l)
               \/ \E id \in Ids : Unregister(id) \/ Tick(id)
      BY <3>5 DEF Schedule, Cancel, Unregister, Tick
    <3> QED BY <1>1, <3>1, <3>2, <3>3, <3>4, <3>5 DEF Next, Proceed
  <2> QED BY <2>1, <2>2, <2>3
<1> QED BY <1>1, CallbacksInvariance, PTL DEF Spec, EndedNeverFires

=============================================================================
