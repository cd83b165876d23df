--------------------------- MODULE RuntimeCallbacks ---------------------------
(***************************************************************************)
(* The durable callback scheduler of one actor: a grain that keeps the     *)
(* scheduled callbacks in its persistent state and has a reminder fire     *)
(* each of them.                                                           *)
(*                                                                         *)
(* Source: RuntimeCallbackSchedulerGrain.cs, called through                *)
(* OrleansActorRuntimeDurableCallbackScheduler.cs.  The grain takes one    *)
(* call at a time; at every await of a call the state write, the reminder  *)
(* service or the stream may fail, and the silo may die.  Reminders and    *)
(* the stream are external.                                                *)
(*                                                                         *)
(* Schedulings are numbered; the number is a ghost that tells two          *)
(* schedulings of one callback id apart, which the code does by the        *)
(* generation only.                                                        *)
(***************************************************************************)
EXTENDS Naturals, Sequences, FiniteSets

CONSTANTS
    Ids,             \* callback ids
    MaxSchedulings,  \* bound on schedulings
    MaxFires,        \* no periodic callback fires after this many envelopes
    MaxFaults        \* bound on failed awaits and crashes

ASSUME BoundsAssumption == {MaxSchedulings, MaxFires, MaxFaults} \subseteq Nat
ASSUME NoneIsNoId == "none" \notin Ids

VARIABLES
    memory,     \* State.ReminderCallbacks of the activation
    stored,     \* what the last state write persisted
    reminders,  \* id -> "none", "once", "periodic", or "spent" after its only tick
    call,       \* the call the grain is performing
    sent,       \* envelopes published to the actor's stream, in order
    leases,     \* leases the callers were given
    last,       \* number of schedulings so far
    touched,    \* history: schedulings a call tried to end, or a fault hit
    ended,      \* history: schedulings whose removal was written
    missed,     \* history: schedulings whose only tick came due with nobody to take it
    faults

vars == <<memory, stored, reminders, call, sent, leases, last, touched, ended, missed, faults>>

NoEntry == [n |-> 0, gen |-> 0, periodic |-> FALSE, index |-> 0]

\* at: the await the call has come to; entry: the scheduling it is about; ids:
\* the reminders it is to unregister; ending: the schedulings it ends.
Idle == [at |-> "idle", id |-> "none", entry |-> NoEntry, ids |-> {}, ending |-> {}]
At(step) == call.at = step

\* The call comes to its next await.
GoOn(step) == [at |-> step, id |-> call.id, entry |-> call.entry,
               ids |-> call.ids, ending |-> call.ending]
\* A call that has taken entries out of the memory.
Removal(ids, ending) == [at |-> "removalWrite", id |-> call.id, entry |-> call.entry,
                         ids |-> ids, ending |-> ending]

Held == {id \in Ids : memory[id] # NoEntry}
Lease(id, entry) == [id |-> id, gen |-> entry.gen, n |-> entry.n]

\* The call takes the entries of some ids out of the memory.
Remove(ids) ==
    /\ memory' = [id \in Ids |-> IF id \in ids THEN NoEntry ELSE memory[id]]
    /\ touched' = touched \cup {memory[id].n : id \in ids}

Ending(ids) == {memory[id].n : id \in ids}

-----------------------------------------------------------------------------
(* Schedule: drop an earlier scheduling, persist the new one, register     *)

\* A plausible bug: the first generation is 0.
NewEntryFromZero(id, periodic) ==
    [n |-> last + 1, gen |-> IF id \in Held THEN memory[id].gen + 1 ELSE 0,
     periodic |-> periodic, index |-> 0]

\* The generation goes on from the entry it replaces, and is 1 without one.
NewEntry(id, periodic) ==
    [n |-> last + 1, gen |-> memory[id].gen + 1, periodic |-> periodic, index |-> 0]

\* A plausible bug: the new entry is registered without being written.
ScheduleUnwritten(id, periodic) ==
    /\ At("idle") /\ last < MaxSchedulings
    /\ last' = last + 1
    /\ memory' = [memory EXCEPT ![id] = NewEntry(id, periodic)]
    /\ touched' = touched \cup Ending({id} \cap Held)
    /\ call' = [at |-> "register", id |-> id, entry |-> NewEntry(id, periodic),
                ids |-> {}, ending |-> Ending({id} \cap Held)]
    /\ UNCHANGED <<stored, reminders, sent, leases, ended, missed, faults>>

Schedule(id, periodic) ==
    /\ At("idle") /\ last < MaxSchedulings
    /\ last' = last + 1
    /\ IF id \in Held
       THEN /\ Remove({id})
            /\ call' = [at |-> "resetWrite", id |-> id, entry |-> NewEntry(id, periodic),
                        ids |-> {}, ending |-> Ending({id})]
       ELSE /\ memory' = [memory EXCEPT ![id] = NewEntry(id, periodic)]
            /\ call' = [at |-> "entryWrite", id |-> id, entry |-> NewEntry(id, periodic),
                        ids |-> {}, ending |-> {}]
            /\ UNCHANGED touched
    /\ UNCHANGED <<stored, reminders, sent, leases, ended, missed, faults>>

\* The old reminder is unregistered, and the new entry goes into memory.
UnregisterReplaced ==
    /\ At("resetUnregister")
    /\ reminders' = [reminders EXCEPT ![call.id] = "none"]
    /\ memory' = [memory EXCEPT ![call.id] = call.entry]
    /\ call' = GoOn("entryWrite")
    /\ UNCHANGED <<stored, sent, leases, last, touched, ended, missed, faults>>

Registered == [reminders EXCEPT ![call.id] = IF call.entry.periodic THEN "periodic" ELSE "once"]

Register ==
    /\ At("register")
    /\ reminders' = Registered
    /\ leases' = leases \cup {Lease(call.id, call.entry)}
    /\ call' = Idle
    /\ UNCHANGED <<memory, stored, sent, last, touched, ended, missed, faults>>

\* RegisterOrUpdateReminder throws, with or without effect: the entry is taken
\* back, and the call throws.
RegisterFails ==
    /\ At("register") /\ faults < MaxFaults
    /\ faults' = faults + 1
    /\ reminders' \in {reminders, Registered}
    /\ Remove({call.id})
    /\ call' = GoOn("undoWrite")
    /\ UNCHANGED <<stored, sent, leases, last, ended, missed>>

-----------------------------------------------------------------------------
(* Cancel and purge                                                        *)

\* A plausible bug: the removal is not written before the reminder is unregistered.
CancelUnwritten(l) ==
    /\ At("idle") /\ memory[l.id].gen = l.gen
    /\ Remove({l.id})
    /\ call' = [Removal({l.id}, Ending({l.id})) EXCEPT !.at = "unregister"]
    /\ ended' = ended \cup Ending({l.id})
    /\ UNCHANGED <<stored, reminders, sent, leases, last, missed, faults>>

\* Without an entry, or with one of another generation, nothing happens.
Cancel(l) ==
    /\ At("idle") /\ memory[l.id].gen = l.gen
    /\ Remove({l.id})
    /\ call' = Removal({l.id}, Ending({l.id}))
    /\ UNCHANGED <<stored, reminders, sent, leases, last, ended, missed, faults>>

Purge ==
    /\ At("idle") /\ Held # {}
    /\ Remove(Held)
    /\ call' = Removal(Held, Ending(Held))
    /\ UNCHANGED <<stored, reminders, sent, leases, last, ended, missed, faults>>

\* A plausible bug: all reminders of the grain are unregistered.
UnregisterAll(id) ==
    /\ At("unregister") /\ id \in call.ids
    /\ reminders' = [i \in Ids |-> "none"]
    /\ call' = Idle
    /\ UNCHANGED <<memory, stored, sent, leases, last, touched, ended, missed, faults>>

Unregister(id) ==
    /\ At("unregister") /\ id \in call.ids
    /\ reminders' = [reminders EXCEPT ![id] = "none"]
    /\ call' = IF call.ids = {id} THEN Idle ELSE [call EXCEPT !.ids = @ \ {id}]
    /\ UNCHANGED <<memory, stored, sent, leases, last, touched, ended, missed, faults>>

-----------------------------------------------------------------------------
(* A reminder ticks                                                        *)

\* A one-shot reminder has a period of a hundred years: its tick comes once.
\* The tick of a reminder without an entry is ignored.
Tick(id) ==
    /\ At("idle") /\ reminders[id] \in {"once", "periodic"}
    /\ reminders[id] = "periodic" => Len(sent) < MaxFires
    /\ reminders' = [reminders EXCEPT ![id] = IF @ = "once" THEN "spent" ELSE @]
    /\ call' = IF id \in Held
               THEN [at |-> "publish", id |-> id, entry |-> memory[id], ids |-> {}, ending |-> {}]
               ELSE Idle
    /\ UNCHANGED <<memory, stored, sent, leases, last, touched, ended, missed, faults>>

FiredOnce(entry) ==
    [n |-> entry.n, gen |-> entry.gen, periodic |-> entry.periodic, index |-> entry.index + 1]

\* The envelope is published before the entry is removed, with its reminder, or
\* its fire index counted on.
Publish ==
    /\ At("publish")
    /\ sent' = Append(sent, Lease(call.id, call.entry))
    /\ IF call.entry.periodic
       THEN /\ memory' = [memory EXCEPT ![call.id] = FiredOnce(@)]
            /\ call' = GoOn("indexWrite")
            /\ UNCHANGED touched
       ELSE /\ Remove({call.id})
            /\ call' = Removal({call.id}, {call.entry.n})
    /\ UNCHANGED <<stored, reminders, leases, last, ended, missed, faults>>

-----------------------------------------------------------------------------
(* State writes and faults                                                 *)

\* Once the removal of an entry is written its scheduling has ended, whether or
\* not the call comes to unregister the reminder.
Write(step, next) ==
    /\ At(step)
    /\ stored' = memory
    /\ ended' = ended \cup call.ending
    /\ call' = IF next = "idle" THEN Idle ELSE GoOn(next)
    /\ UNCHANGED <<memory, reminders, sent, leases, last, touched, missed, faults>>

WriteState ==
    \/ Write("resetWrite", "resetUnregister")
    \/ Write("entryWrite", "register")
    \/ Write("undoWrite", "idle")
    \/ Write("removalWrite", "unregister")
    \/ Write("indexWrite", "idle")

Broken == touched \cup {call.entry.n}

Writing == call.at \in {"resetWrite", "entryWrite", "undoWrite", "removalWrite", "indexWrite"}

Unregistering ==
    IF At("unregister") THEN call.ids ELSE IF At("resetUnregister") THEN {call.id} ELSE {}

\* A state write, an unregistration or a publication throws out of the call, with
\* or without its effect; the activation goes on with the state it has in memory.
AwaitFails ==
    /\ faults < MaxFaults /\ call.at \notin {"idle", "register"}
    /\ faults' = faults + 1
    /\ touched' = Broken
    /\ stored' \in IF Writing THEN {stored, memory} ELSE {stored}
    /\ reminders' \in {reminders} \cup {[reminders EXCEPT ![id] = "none"] : id \in Unregistering}
    /\ \/ UNCHANGED sent
       \/ At("publish") /\ sent' = Append(sent, Lease(call.id, call.entry))
    /\ call' = Idle
    /\ UNCHANGED <<memory, leases, last, ended, missed>>

\* An idle grain is collected, or a purge that finds nothing deactivates it; the
\* next call finds the state that was written last.
Reactivate ==
    /\ At("idle")
    /\ memory' = stored
    /\ UNCHANGED <<stored, reminders, call, sent, leases, last, touched, ended, missed, faults>>

OneShots == {id \in Ids : reminders[id] = "once"}

\* The one-shot reminders of some ids came due, and nobody took the tick.  Orleans
\* makes no tick up: the next one is a period away, and the period of a one-shot
\* reminder is a hundred years.
Missing(ids) ==
    /\ reminders' = [id \in Ids |-> IF id \in ids THEN "spent" ELSE reminders[id]]
    /\ missed' = missed \cup {stored[id].n : id \in ids}

\* The silo dies; before it is back, or another has taken over, reminders come due.
Crash ==
    /\ faults < MaxFaults
    /\ faults' = faults + 1
    /\ touched' = Broken
    /\ memory' = stored
    /\ call' = Idle
    /\ \E ids \in SUBSET OneShots : Missing(ids)
    /\ UNCHANGED <<stored, sent, leases, last, ended>>

\* The silo that serves the reminders dies, which need not be that of the grain.  A
\* call in progress sees nothing of it: missing the tick before or after is the same.
TicksMissed ==
    /\ At("idle") /\ faults < MaxFaults
    /\ faults' = faults + 1
    /\ \E ids \in SUBSET OneShots \ {{}} : Missing(ids)
    /\ UNCHANGED <<memory, stored, call, sent, leases, last, touched, ended>>

-----------------------------------------------------------------------------
Init ==
    /\ memory = [id \in Ids |-> NoEntry] /\ stored = memory
    /\ reminders = [id \in Ids |-> "none"]
    /\ call = Idle
    /\ sent = <<>> /\ leases = {} /\ last = 0
    /\ touched = {} /\ ended = {} /\ missed = {} /\ faults = 0

Proceed ==
    \/ WriteState \/ UnregisterReplaced \/ Register
    \/ \E id \in Ids : Unregister(id)
    \/ Publish

Next ==
    \/ \E id \in Ids, periodic \in BOOLEAN : Schedule(id, periodic)
    \/ \E l \in leases : Cancel(l)
    \/ Purge
    \/ \E id \in Ids : Tick(id)
    \/ Proceed
    \/ RegisterFails \/ AwaitFails \/ Reactivate \/ Crash \/ TicksMissed

Spec == Init /\ [][Next]_vars

\* The grain finishes its calls, and a reminder that is registered and was not
\* missed ticks: a one-shot when it is due, a periodic one some period later.
FairSpec == Spec /\ WF_vars(Proceed) /\ \A id \in Ids : WF_vars(Tick(id))

-----------------------------------------------------------------------------
(* Properties                                                              *)

EntryType == [n : 0 .. MaxSchedulings, gen : Nat, periodic : BOOLEAN, index : Nat]
LeaseType == [id : Ids, gen : Nat \ {0}, n : 1 .. MaxSchedulings]
Steps == {"idle", "resetWrite", "resetUnregister", "entryWrite", "register", "undoWrite",
          "removalWrite", "unregister", "publish", "indexWrite"}
CallType == [at : Steps, id : Ids \cup {"none"}, entry : EntryType, ids : SUBSET Ids,
             ending : SUBSET (1 .. MaxSchedulings)]

\* Every variable keeps its type; every envelope and lease carries a generation.
TypeOK ==
    /\ memory \in [Ids -> EntryType] /\ stored \in [Ids -> EntryType]
    /\ reminders \in [Ids -> {"none", "once", "periodic", "spent"}]
    /\ call \in CallType
    /\ sent \in Seq(LeaseType) /\ leases \subseteq LeaseType
    /\ last \in 0 .. MaxSchedulings /\ faults \in 0 .. MaxFaults
    /\ touched \subseteq 0 .. MaxSchedulings /\ ended \subseteq touched
    /\ missed \subseteq 0 .. MaxSchedulings

Fires(n) == Cardinality({i \in DOMAIN sent : sent[i].n = n})

\* A callback whose removal was written - by a cancellation, a purge, a replacement
\* or its only firing - never fires again, although the call may have died before
\* it unregistered the reminder, and whatever crashes and failures come later
\* (CancelAsync, PurgeAsync, ReceiveReminder; ReceiveReminder ignores the leftover).
EndedNeverFires == [][\A n \in ended : Fires(n)' = Fires(n)]_vars

\* A granted callback is persisted, as long as no call tried to end it and no fault
\* hit it, and has a reminder to come unless that came due while no silo served
\* it: failures of calls about other callback ids, whose changes stay in memory and
\* are written later, do not disturb it.
GrantedIsDurable ==
    \A l \in leases :
        l.n \notin touched =>
            /\ stored[l.id].n = l.n /\ memory[l.id].n = l.n
            /\ \/ reminders[l.id] \in {"once", "periodic"}
               \/ call.id = l.id \/ l.n \in missed

\* A granted callback fires in the end, unless a call tried to end it, a fault hit
\* it, or it is a timeout that came due while no silo served it; a periodic one at
\* least as long as the bound lets it.
GrantedFires ==
    \A n \in 1 .. MaxSchedulings :
        (\E l \in leases : l.n = n) ~>
            (n \in touched \cup missed \/ Fires(n) > 0 \/ Len(sent) >= MaxFires)

=============================================================================
