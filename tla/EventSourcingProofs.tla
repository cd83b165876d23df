------------------------- MODULE EventSourcingProofs -------------------------
(***************************************************************************)
(* What EventSourcing keeps and promises.                                  *)
(*                                                                         *)
(* The first part is the safety of its storage for every value of the      *)
(* constants: any number of activations, any commands and batches, any     *)
(* interval, any faults.  The inductive invariant IInv adds to the         *)
(* properties what they rest on: the stored versions are one interval that *)
(* ends at the version key; a compaction target never passes the stored    *)
(* snapshot; an activation that has replayed is never behind the snapshot  *)
(* it started from, which is why a save guarded by the etag cannot go back.*)
(*                                                                         *)
(* The second part is the history it commits, for every value of the       *)
(* constants that a theorem does not restrict: answered commands are       *)
(* durable; a snapshot and the events above it restore the whole history;  *)
(* a command commits once; the system implements Journal.                  *)
(*                                                                         *)
(* The argument goes from the handler to the history.  DurableInv ties     *)
(* what an activation appends to the command it handles.  OneBatchPending  *)
(* needs NoStoreFaults: an append that threw leaves its batch in _pending, *)
(* and the next command commits both.  With OneActivation too, SingleInv   *)
(* says of every await how state, version and snapshot relate to the       *)
(* history.  OneHolder follows each envelope through queue, handler and    *)
(* retry; the four effects of a step on the commands (MovesOn, LetsGo,     *)
(* Answers, BreaksOff) then carry both CommittedOnce and the refinement.   *)
(***************************************************************************)
EXTENDS EventSourcing, FiniteSetTheorems, SequenceTheorems, TLAPS

\* The stored versions form an interval that ends at the version key.
StoreShape == \E low \in 0 .. version : DOMAIN events = (low + 1) .. version

\* Nothing at or above the snapshot is scheduled for deletion.
TargetsCovered == \A a \in Activations : compactTo[a] <= snapshot.version

\* What a replay obtained is not behind the snapshot it started from.
ReplyAboveSnapshot ==
    \A a \in Activations : pc[a] = "replayed" => reply[a].version >= cached[a].version

\* An activation past its first replay.
Restored(a) ==
    \/ pc[a] \in {"idle", "appending", "committed", "rejected", "error", "saving"}
    \/ pc[a] \in {"loading", "replayed"} /\ cmd[a] # NoCommand

\* A restored activation is not behind the snapshot it started from.
VersionAboveSnapshot ==
    \A a \in Activations : Restored(a) => ver[a] >= cached[a].version

\* An activation that is down handles nothing.
DownIsIdle == \A a \in Activations : pc[a] = "down" => cmd[a] = NoCommand

IInv ==
    /\ TypeOK
    /\ StoreShape
    /\ StreamIntegrity
    /\ TargetsCovered
    /\ ReplyAboveSnapshot
    /\ VersionAboveSnapshot
    /\ DownIsIdle
    /\ CompactionCovered

-----------------------------------------------------------------------------
(* What a read of the store returns                                        *)

\* A read above a version returns an interval that ends at the version key.
LEMMA AboveInterval ==
    ASSUME version \in Nat, StoreShape, NEW v \in Nat, Above(v) # {}
    PROVE  \E f \in Nat : /\ v < f /\ f <= version
                          /\ Above(v) = f .. version
                          /\ Min(Above(v)) = f
                          /\ Max(Above(v)) = version
<1>1. PICK low \in 0 .. version : DOMAIN events = (low + 1) .. version
  BY DEF StoreShape
<1> DEFINE f == IF v > low THEN v + 1 ELSE low + 1
<1>2. Above(v) = f .. version
  BY <1>1 DEF Above
<1>3. f \in Nat /\ v < f /\ f <= version
  BY <1>1, <1>2
<1> HIDE DEF f
<1>4. f \in Above(v) /\ \A y \in Above(v) : f <= y
  BY <1>2, <1>3
<1>5. version \in Above(v) /\ \A y \in Above(v) : version >= y
  BY <1>2, <1>3
<1>6. \A y \in Above(v) : y \in Nat
  BY <1>2, <1>3
<1>7. Min(Above(v)) = f
  <2> DEFINE m == Min(Above(v))
  <2>1. m \in Above(v) /\ \A y \in Above(v) : m <= y
    BY <1>4 DEF Min
  <2> HIDE DEF m
  <2>2. m = f
    BY <2>1, <1>3, <1>4, <1>6
  <2> QED BY <2>2 DEF m
<1>8. Max(Above(v)) = version
  <2> DEFINE m == Max(Above(v))
  <2>1. m \in Above(v) /\ \A y \in Above(v) : m >= y
    BY <1>5 DEF Max
  <2> HIDE DEF m
  <2>2. m = version
    BY <2>1, <1>3, <1>5, <1>6
  <2> QED BY <2>2 DEF m
<1> QED BY <1>2, <1>3, <1>7, <1>8

\* The last version of a read is not below the version it started from
\* (GetEventsAsync).
LEMMA LastVersionAbove ==
    ASSUME version \in Nat, StoreShape, NEW v \in Nat
    PROVE  LastVersion(v) \in Nat /\ LastVersion(v) >= v
<1>1. CASE Above(v) = {}
  BY <1>1 DEF LastVersion
<1>2. CASE Above(v) # {}
  BY <1>2, AboveInterval DEF LastVersion
<1> QED BY <1>1, <1>2

\* A read returns a sequence of events, with no hole in it (GetEventsAsync).
LEMMA ReplayedType ==
    ASSUME TypeOK, StoreShape, NEW v \in Nat
    PROVE  Replayed(v) \in Seq(Events)
<1>1. CASE Above(v) = {}
  BY <1>1 DEF Replayed
<1>2. CASE Above(v) # {}
  <2>1. PICK f \in Nat : /\ v < f /\ f <= version
                         /\ Above(v) = f .. version
                         /\ Min(Above(v)) = f
                         /\ Max(Above(v)) = version
    BY <1>2, AboveInterval DEF TypeOK
  <2>2. version \in Nat
    BY DEF TypeOK
  <2>3. Replayed(v) = [i \in 1 .. (version - f + 1) |-> events[f + i - 1]]
    BY <1>2, <2>1 DEF Replayed
  <2>4. \A i \in 1 .. (version - f + 1) : events[f + i - 1] \in Events
    <3> SUFFICES ASSUME NEW i \in 1 .. (version - f + 1)
                 PROVE  events[f + i - 1] \in Events
      OBVIOUS
    <3>1. f + i - 1 \in Above(v)
      BY <2>1, <2>2
    <3> QED BY <3>1 DEF Above, TypeOK
  <2>5. version - f + 1 \in Nat
    BY <2>1, <2>2
  <2> QED BY <2>3, <2>4, <2>5
<1> QED BY <1>1, <1>2

-----------------------------------------------------------------------------
(* Type correctness of one step                                            *)

USE DEF storeVars, snapVars, agentVars, boxVars

\* An activation that is gone leaves well-typed variables behind.
LEMMA ForgetType ==
    ASSUME TypeOK, NEW a \in Activations, Forget(a)
    PROVE  /\ pc' \in [Activations -> Phases]
           /\ cmd' \in [Activations -> Commands \cup {NoCommand}]
           /\ ver' \in [Activations -> Nat]
           /\ pending' \in [Activations -> Seq(Events)]
           /\ state' \in [Activations -> Seq(Events)]
           /\ cached' \in [Activations -> StateType]
           /\ reply' \in [Activations -> StateType]
BY DEF TypeOK, Forget, Phases, StateType, NoSnapshot

\* The absent snapshot is typed like a snapshot.
LEMMA NoSnapshotType == NoSnapshot \in StateType
BY DEF NoSnapshot, StateType

\* A handler's return and its failure keep the types of the envelope loop.
LEMMA BoxType ==
    ASSUME TypeOK, NEW a \in Activations, cmd[a] \in Commands,
           HandlerFailed(a) \/ HandlerReturned(a)
    PROVE  /\ inbox' \subseteq Commands
           /\ attempts' \in [Commands -> 0 .. MaxRetries]
           /\ acked' \subseteq Commands
           /\ crashes' \in 0 .. MaxCrashes
<1>1. CASE HandlerReturned(a)
  BY <1>1 DEF TypeOK, HandlerReturned
<1>2. CASE HandlerFailed(a)
  BY <1>2, ConstantsAssumption DEF TypeOK, HandlerFailed
<1> QED BY <1>1, <1>2

\* A finished replay leaves a well-typed version and state (ReplayAsync).
LEMMA ReplaySucceedsType ==
    ASSUME TypeOK, NEW a \in Activations, ReplaySucceeds(a)
    PROVE  /\ ver' \in [Activations -> Nat]
           /\ state' \in [Activations -> Seq(Events)]
<1>1. reply[a].version \in Nat /\ reply[a].state \in Seq(Events)
  BY DEF TypeOK, StateType
<1>2. Larger(version, reply[a].version) \in Nat
  BY <1>1 DEF TypeOK, Larger
<1> QED BY <1>1, <1>2 DEF TypeOK, ReplaySucceeds

\* Every step keeps the types.
LEMMA TypeStep ==
    ASSUME TypeOK, StoreShape, [Next]_vars
    PROVE  TypeOK'
<1>1. CASE UNCHANGED vars
  BY <1>1 DEF TypeOK, vars
<1>2. ASSUME NEW a \in Activations, Step(a)
      PROVE  TypeOK'
  <2>1. CASE Activate(a)
    BY <2>1 DEF TypeOK, Phases, Activate, StateType
  <2>2. CASE ReadEvents(a)
    <3>1. cached[a].version \in Nat /\ cached[a].state \in Seq(Events)
      BY DEF TypeOK, StateType
    <3>2. [version |-> LastVersion(cached[a].version),
           state   |-> cached[a].state \o Replayed(cached[a].version)] \in StateType
      <4>1. LastVersion(cached[a].version) \in Nat
        BY <3>1, LastVersionAbove DEF TypeOK
      <4>2. Replayed(cached[a].version) \in Seq(Events)
        BY <3>1, ReplayedType
      <4>3. cached[a].state \o Replayed(cached[a].version) \in Seq(Events)
        BY <3>1, <4>2
      <4> QED BY <4>1, <4>3 DEF StateType
    <3> QED BY <2>2, <3>2 DEF TypeOK, ReadEvents, Phases
  <2>3. CASE ProbeOnActivation(a)
    <3>1. /\ ver' \in [Activations -> Nat]
          /\ state' \in [Activations -> Seq(Events)]
      <4>1. CASE ReplaySucceeds(a)
        BY <4>1, ReplaySucceedsType
      <4>2. CASE UNCHANGED <<ver, state>>
        BY <4>2 DEF TypeOK
      <4> QED BY <2>3, <4>1, <4>2 DEF ProbeOnActivation
    <3>2. /\ pc' \in [Activations -> Phases]
          /\ reply' \in [Activations -> StateType]
      BY <2>3, NoSnapshotType DEF TypeOK, ProbeOnActivation, Phases
    <3> QED BY <2>3, <3>1, <3>2 DEF TypeOK, ProbeOnActivation
  <2>4. CASE ProbeOnConflict(a)
    <3>1. reply[a] \in StateType /\ cmd[a] \in Commands
      BY <2>4 DEF TypeOK, ProbeOnConflict
    <3>2. HandlerFailed(a) \/ HandlerReturned(a)
      BY <2>4 DEF ProbeOnConflict
    <3>3. /\ ver' \in [Activations -> Nat]
          /\ state' \in [Activations -> Seq(Events)]
      <4>1. CASE ReplaySucceeds(a)
        BY <4>1, ReplaySucceedsType
      <4>2. CASE UNCHANGED <<ver, state>>
        BY <4>2 DEF TypeOK
      <4> QED BY <2>4, <4>1, <4>2 DEF ProbeOnConflict
    <3> QED BY <2>4, <3>1, <3>2, <3>3, BoxType, NoSnapshotType
            DEF TypeOK, ProbeOnConflict, Phases
  <2>5. CASE CollectBroken(a)
    BY <2>5, ForgetType DEF TypeOK, CollectBroken
  <2>6. CASE \E c \in Commands : Handle(a, c) \/ DropEnvelope(a, c)
    <3>1. PICK c \in Commands : Handle(a, c) \/ DropEnvelope(a, c)
      BY <2>6
    <3>2. CASE Handle(a, c)
      <4>1. pending[a] \o Batch[c] \in Seq(Events)
        BY ConstantsAssumption DEF TypeOK
      <4> QED BY <3>2, <4>1 DEF TypeOK, Handle, Phases
    <3>3. CASE DropEnvelope(a, c)
      BY <3>3 DEF TypeOK, DropEnvelope
    <3> QED BY <3>1, <3>2, <3>3
  <2>7. CASE AppendAccepted(a)
    <3>1. pending[a] \in Seq(Events) /\ ver[a] \in Nat
      BY DEF TypeOK
    <3>2. /\ committed \o pending[a] \in Seq(Events)
          /\ ver[a] + Len(pending[a]) \in Nat
      BY <3>1 DEF TypeOK
    <3>3. DOMAIN events' \subseteq Nat /\ \A v \in DOMAIN events' : events'[v] \in Events
      BY <2>7, <3>1 DEF TypeOK, AppendAccepted, Stored
    <3> QED BY <2>7, <3>2, <3>3 DEF TypeOK, AppendAccepted, Phases
  <2>8. CASE AppendRejected(a)
    <3>1. [version |-> version, state |-> <<>>] \in StateType
      BY DEF TypeOK, StateType
    <3> QED BY <2>8, <3>1 DEF TypeOK, AppendRejected, Phases
  <2>9. CASE AppendThrows(a)
    BY <2>9 DEF TypeOK, Phases, AppendThrows
  <2>10. CASE CommandCommitted(a)
    <3>1. cmd[a] \in Commands /\ (HandlerFailed(a) \/ HandlerReturned(a))
      BY <2>10 DEF TypeOK, CommandCommitted
    <3>2. /\ ver[a] + Len(pending[a]) \in Nat
          /\ state[a] \o Batch[cmd[a]] \in Seq(Events)
      BY <3>1, ConstantsAssumption DEF TypeOK
    <3>3. /\ inbox' \subseteq Commands
          /\ attempts' \in [Commands -> 0 .. MaxRetries]
          /\ acked' \subseteq Commands
          /\ crashes' \in 0 .. MaxCrashes
      BY <3>1, BoxType
    <3>4. /\ pc' \in [Activations -> Phases]
          /\ cmd' \in [Activations -> Commands \cup {NoCommand}]
          /\ ver' \in [Activations -> Nat]
          /\ pending' \in [Activations -> Seq(Events)]
          /\ state' \in [Activations -> Seq(Events)]
      BY <2>10, <3>2 DEF TypeOK, CommandCommitted, Phases
    <3>5. UNCHANGED <<storeVars, snapVars, cached, reply>>
      BY <2>10 DEF CommandCommitted
    <3> QED BY <3>3, <3>4, <3>5 DEF TypeOK
  <2>11. CASE CommandRejected(a)
    <3>1. cmd[a] \in Commands
      BY <2>11 DEF TypeOK, CommandRejected
    <3>2. /\ ver' \in [Activations -> Nat]
          /\ pending' \in [Activations -> Seq(Events)]
          /\ reply' \in [Activations -> StateType]
      BY <2>11, NoSnapshotType DEF TypeOK, CommandRejected, Larger, StateType
    <3>3. /\ inbox' \subseteq Commands
          /\ attempts' \in [Commands -> 0 .. MaxRetries]
          /\ acked' \subseteq Commands
          /\ crashes' \in 0 .. MaxCrashes
      <4>1. CASE UNCHANGED boxVars
        BY <4>1 DEF TypeOK
      <4>2. CASE HandlerFailed(a)
        BY <4>2, <3>1, BoxType
      <4> QED BY <2>11, <4>1, <4>2 DEF CommandRejected
    <3>4. /\ pc' \in [Activations -> Phases]
          /\ cmd' \in [Activations -> Commands \cup {NoCommand}]
      BY <2>11 DEF TypeOK, CommandRejected, Phases
    <3>5. UNCHANGED <<storeVars, snapVars, state, cached>>
      BY <2>11 DEF CommandRejected
    <3> QED BY <3>2, <3>3, <3>4, <3>5 DEF TypeOK
  <2>12. CASE CommandFailed(a)
    <3>1. cmd[a] \in Commands /\ (HandlerFailed(a) \/ HandlerReturned(a))
      BY <2>12 DEF TypeOK, CommandFailed
    <3> QED BY <2>12, <3>1, BoxType DEF TypeOK, CommandFailed, Phases
  <2>13. CASE FlushCommitted(a)
    BY <2>13 DEF TypeOK, Phases, FlushCommitted
  <2>14. CASE FlushFailed(a)
    BY <2>14, ForgetType DEF TypeOK, FlushFailed
  <2>15. CASE FinishDeactivation(a)
    <3>1. snapshot' \in StateType /\ compactTo' \in [Activations -> Nat]
      <4>1. CASE SaveSnapshot(a)
        BY <4>1, ConstantsAssumption DEF TypeOK, SaveSnapshot, StateType, Larger
      <4>2. CASE UNCHANGED <<snapshot, compactTo>>
        BY <4>2 DEF TypeOK
      <4> QED BY <2>15, <4>1, <4>2 DEF FinishDeactivation
    <3> QED BY <2>15, <3>1, ForgetType DEF TypeOK, FinishDeactivation
  <2>16. CASE Deactivate(a)
    BY <2>16 DEF TypeOK, Phases, Deactivate
  <2>17. CASE RunOnIdle(a)
    <3>1. DOMAIN events' \subseteq Nat /\ \A v \in DOMAIN events' : events'[v] \in Events
      BY <2>17 DEF TypeOK, RunOnIdle, Above
    <3> QED BY <2>17, <3>1 DEF TypeOK, RunOnIdle
  <2>18. CASE Crash(a)
    <3>1. inbox' \subseteq Commands /\ crashes' \in 0 .. MaxCrashes
      BY <2>18, ConstantsAssumption DEF TypeOK, Crash
    <3> QED BY <2>18, <3>1, ForgetType DEF TypeOK, Crash
  <2> QED BY <1>2, <2>1, <2>2, <2>3, <2>4, <2>5, <2>6, <2>7, <2>8, <2>9, <2>10, <2>11, <2>12, <2>13, <2>14, <2>15, <2>16, <2>17, <2>18
          DEF Step, Replay, Append_, Resume
<1> QED BY <1>1, <1>2 DEF Next

-----------------------------------------------------------------------------
(* The store keeps its shape                                               *)

\* An accepted append extends the interval and the history alike (AppendAsync).
LEMMA AppendKeepsStore ==
    ASSUME TypeOK, StoreShape, StreamIntegrity,
           NEW a \in Activations, AppendAccepted(a)
    PROVE  StoreShape' /\ StreamIntegrity'
<1> DEFINE batch == pending[a]
           n     == Len(pending[a])
<1>1. PICK low \in 0 .. version : DOMAIN events = (low + 1) .. version
  BY DEF StoreShape
<1>2. /\ batch \in Seq(Events) /\ n \in Nat
      /\ version \in Nat /\ committed \in Seq(Events) /\ version = Len(committed)
  BY DEF TypeOK, StreamIntegrity
<1>3. /\ events' = Stored(version, batch)
      /\ version' = version + n
      /\ committed' = committed \o batch
  BY DEF AppendAccepted
<1>4. DOMAIN events' = (low + 1) .. version'
  BY <1>1, <1>2, <1>3 DEF Stored
<1>5. Len(committed') = version'
  BY <1>2, <1>3
<1>6. ASSUME NEW w \in DOMAIN events'
      PROVE  events'[w] = committed'[w]
  <2>1. CASE w <= version
    <3>1. events'[w] = events[w] /\ w \in DOMAIN events
      BY <1>1, <1>2, <1>3, <1>4, <1>6, <2>1 DEF Stored
    <3>2. events[w] = committed[w] /\ w \in 1 .. Len(committed)
      BY <1>2, <3>1 DEF StreamIntegrity
    <3> QED BY <1>2, <1>3, <3>1, <3>2
  <2>2. CASE ~(w <= version)
    <3>1. w \in (version + 1) .. (version + n)
      BY <1>1, <1>2, <1>3, <1>4, <1>6, <2>2
    <3>2. events'[w] = batch[w - version]
      BY <1>2, <1>3, <3>1 DEF Stored
    <3> QED BY <1>2, <1>3, <3>1, <3>2
  <2> QED BY <2>1, <2>2
<1>7. low \in 0 .. version'
  BY <1>1, <1>2, <1>3
<1> QED BY <1>2, <1>3, <1>4, <1>5, <1>6, <1>7 DEF StoreShape, StreamIntegrity

\* Deleting a prefix leaves an interval that ends at the version key
\* (DeleteEventsUpToAsync).
LEMMA CompactionKeepsStore ==
    ASSUME TypeOK, StoreShape, StreamIntegrity,
           NEW a \in Activations, RunOnIdle(a)
    PROVE  StoreShape' /\ StreamIntegrity'
<1>1. PICK low \in 0 .. version : DOMAIN events = (low + 1) .. version
  BY DEF StoreShape
<1>2. version \in Nat /\ compactTo[a] \in Nat /\ UNCHANGED <<version, committed>>
  BY DEF TypeOK, RunOnIdle
<1>3. CASE UNCHANGED events
  BY <1>2, <1>3 DEF StoreShape, StreamIntegrity
<1>4. CASE events' = [w \in Above(compactTo[a]) |-> events[w]]
  <2> DEFINE k    == compactTo[a]
             cut  == IF k > low THEN (IF k > version THEN version ELSE k) ELSE low
  <2>1. DOMAIN events' = (cut + 1) .. version /\ cut \in 0 .. version
    BY <1>1, <1>2, <1>4 DEF Above
  <2>2. \A w \in DOMAIN events' : w \in DOMAIN events /\ events'[w] = events[w]
    BY <1>4 DEF Above
  <2> QED BY <1>2, <2>1, <2>2 DEF StoreShape, StreamIntegrity
<1> QED BY <1>3, <1>4 DEF RunOnIdle

\* Every step keeps the shape of the store and its agreement with the history.
LEMMA StoreStep ==
    ASSUME TypeOK, StoreShape, StreamIntegrity, [Next]_vars
    PROVE  StoreShape' /\ StreamIntegrity'
<1>1. CASE UNCHANGED storeVars
  BY <1>1 DEF StoreShape, StreamIntegrity
<1>2. ASSUME NEW a \in Activations, AppendAccepted(a) \/ RunOnIdle(a)
      PROVE  StoreShape' /\ StreamIntegrity'
  BY <1>2, AppendKeepsStore, CompactionKeepsStore
<1>3. ASSUME NEW a \in Activations, Step(a), ~AppendAccepted(a), ~RunOnIdle(a)
      PROVE  UNCHANGED storeVars
  BY <1>3 DEF Step, Replay, Append_, Resume, Activate, ReadEvents,
              ProbeOnActivation, ProbeOnConflict, CollectBroken, Handle,
              DropEnvelope, AppendRejected, AppendThrows, CommandCommitted,
              CommandRejected, CommandFailed, FlushCommitted, FlushFailed,
              FinishDeactivation, Deactivate, Crash
<1> QED BY <1>1, <1>2, <1>3 DEF Next, vars

-----------------------------------------------------------------------------
(* Activations stay above the snapshot they started from                   *)

\* Every step keeps activations at or above the snapshot they started from.
LEMMA ActivationStep ==
    ASSUME TypeOK, StoreShape, ReplyAboveSnapshot, VersionAboveSnapshot, DownIsIdle,
           [Next]_vars
    PROVE  ReplyAboveSnapshot' /\ VersionAboveSnapshot' /\ DownIsIdle'
<1> USE DEF ReplyAboveSnapshot, VersionAboveSnapshot, DownIsIdle, Restored
<1>1. CASE UNCHANGED vars
  BY <1>1 DEF vars
<1>2. ASSUME NEW a \in Activations, Step(a)
      PROVE  ReplyAboveSnapshot' /\ VersionAboveSnapshot' /\ DownIsIdle'
  <2>1. /\ pc \in [Activations -> Phases] /\ cmd \in [Activations -> Commands \cup {NoCommand}]
        /\ ver \in [Activations -> Nat] /\ version \in Nat
        /\ cached \in [Activations -> StateType] /\ reply \in [Activations -> StateType]
        /\ pending \in [Activations -> Seq(Events)]
    BY DEF TypeOK
  <2>2. \A b \in Activations : cached[b].version \in Nat /\ reply[b].version \in Nat
    BY <2>1 DEF StateType
  <2>3. CASE Activate(a)
    BY <2>1, <2>3 DEF Activate
  <2>4. CASE ReadEvents(a)
    <3>1. LastVersion(cached[a].version) >= cached[a].version
      BY <2>2, LastVersionAbove DEF TypeOK
    <3> QED BY <2>1, <2>4, <3>1 DEF ReadEvents
  <2>5. CASE ProbeOnActivation(a) \/ ProbeOnConflict(a)
    <3>1. reply[a].version >= cached[a].version
      BY <2>5 DEF ProbeOnActivation, ProbeOnConflict
    <3>2. Larger(version, reply[a].version) >= cached[a].version
      BY <2>1, <2>2, <3>1 DEF Larger
    <3>3. CASE ProbeOnActivation(a)
      BY <2>1, <3>2, <3>3 DEF ProbeOnActivation, ReplaySucceeds
    <3>4. CASE ProbeOnConflict(a)
      BY <2>1, <3>2, <3>4 DEF ProbeOnConflict, ReplaySucceeds
    <3> QED BY <2>5, <3>3, <3>4
  <2>6. CASE CollectBroken(a) \/ FlushFailed(a) \/ FinishDeactivation(a) \/ Crash(a)
    <3>1. Forget(a)
      BY <2>6 DEF CollectBroken, FlushFailed, FinishDeactivation, Crash
    <3> QED BY <2>1, <3>1 DEF Forget
  <2>7. CASE \E c \in Commands : Handle(a, c) \/ DropEnvelope(a, c)
    BY <2>1, <2>7 DEF Handle, DropEnvelope
  <2>8. CASE AppendAccepted(a) \/ AppendThrows(a) \/ Deactivate(a)
    BY <2>1, <2>8 DEF AppendAccepted, AppendThrows, Deactivate
  <2>9. CASE AppendRejected(a)
    BY <2>1, <2>9 DEF AppendRejected
  <2>10. CASE CommandCommitted(a) \/ FlushCommitted(a)
    <3>1. ver[a] >= cached[a].version
      BY <2>10 DEF CommandCommitted, FlushCommitted
    <3>2. Len(pending[a]) \in Nat
      BY <2>1
    <3>3. ver[a] + Len(pending[a]) >= cached[a].version
      BY <2>1, <2>2, <3>1, <3>2
    <3> QED BY <2>1, <2>10, <3>3 DEF CommandCommitted, FlushCommitted
  <2>11. CASE CommandRejected(a)
    <3>1. ver[a] >= cached[a].version
      BY <2>11 DEF CommandRejected
    <3>2. Larger(ver[a], reply[a].version) >= cached[a].version
      BY <2>1, <2>2, <3>1 DEF Larger
    <3> QED BY <2>1, <2>11, <3>2 DEF CommandRejected
  <2>12. CASE CommandFailed(a)
    BY <2>1, <2>12 DEF CommandFailed
  <2>13. CASE RunOnIdle(a)
    BY <2>1, <2>13 DEF RunOnIdle
  <2> QED BY <1>2, <2>3, <2>4, <2>5, <2>6, <2>7, <2>8, <2>9, <2>10, <2>11, <2>12, <2>13
          DEF Step, Replay, Append_, Resume
<1> QED BY <1>1, <1>2 DEF Next

-----------------------------------------------------------------------------
(* The snapshot never regresses, and compaction stays under it             *)

\* A save under the etag never moves the snapshot back (SaveAsync).
LEMMA SaveAdvancesSnapshot ==
    ASSUME TypeOK, VersionAboveSnapshot,
           NEW a \in Activations, pc[a] = "saving", SaveSnapshot(a)
    PROVE  snapshot'.version = ver[a] /\ ver[a] >= snapshot.version
<1>1. ver[a] >= cached[a].version
  BY DEF VersionAboveSnapshot, Restored
<1> QED BY <1>1 DEF SaveSnapshot

\* No step moves the snapshot back.
LEMMA SnapshotStep ==
    ASSUME TypeOK, VersionAboveSnapshot, [Next]_vars
    PROVE  snapshot'.version >= snapshot.version
<1>0. snapshot.version \in Nat
  BY DEF TypeOK, StateType
<1>1. CASE UNCHANGED snapshot
  BY <1>0, <1>1
<1>2. ASSUME NEW a \in Activations, FinishDeactivation(a)
      PROVE  snapshot'.version >= snapshot.version
  BY <1>0, <1>2, SaveAdvancesSnapshot DEF FinishDeactivation
<1>3. ASSUME NEW a \in Activations, Step(a), ~FinishDeactivation(a)
      PROVE  UNCHANGED snapshot
  BY <1>3 DEF Step, Replay, Append_, Resume, Activate, ReadEvents,
              ProbeOnActivation, ProbeOnConflict, CollectBroken, Handle,
              DropEnvelope, AppendAccepted, AppendRejected, AppendThrows,
              CommandCommitted, CommandRejected, CommandFailed, FlushCommitted,
              FlushFailed, Deactivate, RunOnIdle, Crash
<1> QED BY <1>1, <1>2, <1>3 DEF Next, vars

\* Every step keeps targets and deletions at or below the snapshot.
LEMMA CompactionStep ==
    ASSUME IInv, [Next]_vars
    PROVE  TargetsCovered' /\ CompactionCovered'
<1> USE DEF TargetsCovered, CompactionCovered
<1>1. /\ snapshot'.version >= snapshot.version
      /\ snapshot.version \in Nat /\ snapshot'.version \in Nat
      /\ version \in Nat /\ version' \in Nat
      /\ compactTo \in [Activations -> Nat] /\ ver \in [Activations -> Nat]
  BY SnapshotStep, TypeStep DEF IInv, TypeOK, StateType
<1>2. TargetsCovered /\ CompactionCovered
  BY DEF IInv
<1>3. CASE UNCHANGED <<events, version, compactTo>>
  BY <1>1, <1>2, <1>3
<1>4. ASSUME NEW a \in Activations, AppendAccepted(a)
      PROVE  TargetsCovered' /\ CompactionCovered'
  <2>1. /\ ver[a] = version /\ Len(pending[a]) \in Nat
        /\ version' = version + Len(pending[a]) /\ UNCHANGED <<snapshot, compactTo>>
    BY <1>4 DEF AppendAccepted, IInv, TypeOK
  <2>2. DOMAIN events' = DOMAIN events \cup ((version + 1) .. version')
    BY <1>4, <2>1 DEF AppendAccepted, Stored
  <2> QED BY <1>1, <1>2, <2>1, <2>2
<1>5. ASSUME NEW a \in Activations, FinishDeactivation(a)
      PROVE  TargetsCovered' /\ CompactionCovered'
  <2>1. UNCHANGED <<events, version>>
    BY <1>5 DEF FinishDeactivation
  <2>2. CASE SaveSnapshot(a)
    <3>1. snapshot'.version = ver[a] /\ ver[a] >= snapshot.version
      BY <1>5, <2>2, SaveAdvancesSnapshot DEF IInv, FinishDeactivation
    <3>2. \A b \in Activations : compactTo'[b] <= snapshot'.version
      BY <1>1, <1>2, <2>2, <3>1, ConstantsAssumption DEF SaveSnapshot, Larger
    <3> QED BY <1>1, <1>2, <2>1, <3>2
  <2>3. CASE UNCHANGED <<snapshot, compactTo>>
    BY <1>2, <2>1, <2>3
  <2> QED BY <1>5, <2>2, <2>3 DEF FinishDeactivation
<1>6. ASSUME NEW a \in Activations, RunOnIdle(a)
      PROVE  TargetsCovered' /\ CompactionCovered'
  <2>1. UNCHANGED <<version, snapshot>>
    BY <1>6 DEF RunOnIdle
  <2>2. CASE UNCHANGED <<events, compactTo>>
    BY <1>2, <2>1, <2>2
  <2>3. CASE /\ events' = [w \in Above(compactTo[a]) |-> events[w]]
             /\ compactTo' = [compactTo EXCEPT ![a] = 0]
    <3>1. TargetsCovered'
      BY <1>1, <1>2, <2>1, <2>3
    <3>2. \A v \in 1 .. version : v \notin DOMAIN events' =>
            v \notin DOMAIN events \/ v <= compactTo[a]
      BY <1>1, <2>3 DEF Above
    <3> QED BY <1>1, <1>2, <2>1, <3>1, <3>2
  <2> QED BY <1>6, <2>2, <2>3 DEF RunOnIdle
<1>7. ASSUME NEW a \in Activations, Crash(a)
      PROVE  TargetsCovered' /\ CompactionCovered'
  BY <1>1, <1>2, <1>7 DEF Crash
<1>8. ASSUME NEW a \in Activations, Step(a), ~AppendAccepted(a),
             ~FinishDeactivation(a), ~RunOnIdle(a), ~Crash(a)
      PROVE  UNCHANGED <<events, version, compactTo>>
  BY <1>8 DEF Step, Replay, Append_, Resume, Activate, ReadEvents,
              ProbeOnActivation, ProbeOnConflict, CollectBroken, Handle,
              DropEnvelope, AppendRejected, AppendThrows, CommandCommitted,
              CommandRejected, CommandFailed, FlushCommitted, FlushFailed,
              Deactivate
<1> QED BY <1>3, <1>4, <1>5, <1>6, <1>7, <1>8 DEF Next, vars

-----------------------------------------------------------------------------
(* The theorems                                                            *)

\* The inductive invariant holds initially.
LEMMA InitIInv == Init => IInv
<1> SUFFICES ASSUME Init PROVE IInv
  OBVIOUS
<1>1. TypeOK
  BY ConstantsAssumption, NoSnapshotType DEF Init, TypeOK, Phases
<1>2. StoreShape /\ StreamIntegrity /\ CompactionCovered
  BY DEF Init, StoreShape, StreamIntegrity, CompactionCovered
<1>3. TargetsCovered /\ ReplyAboveSnapshot /\ VersionAboveSnapshot /\ DownIsIdle
  BY DEF Init, NoSnapshot, TargetsCovered, ReplyAboveSnapshot,
         VersionAboveSnapshot, Restored, DownIsIdle
<1> QED BY <1>1, <1>2, <1>3 DEF IInv

\* Every step keeps the inductive invariant.
LEMMA StepIInv == IInv /\ [Next]_vars => IInv'
<1> SUFFICES ASSUME IInv, [Next]_vars PROVE IInv'
  OBVIOUS
<1>1. TypeOK'
  BY TypeStep DEF IInv
<1>2. StoreShape' /\ StreamIntegrity'
  BY StoreStep DEF IInv
<1>3. ReplyAboveSnapshot' /\ VersionAboveSnapshot' /\ DownIsIdle'
  BY ActivationStep DEF IInv
<1>4. TargetsCovered' /\ CompactionCovered'
  BY CompactionStep
<1> QED BY <1>1, <1>2, <1>3, <1>4 DEF IInv

\* The inductive invariant holds in every reachable state: the store, snapshot
\* and compaction code keep it step by step.
THEOREM Invariance == Spec => []IInv
<1>1. Init => IInv
  BY InitIInv
<1>2. IInv /\ [Next]_vars => IInv'
  BY StepIInv
<1> QED BY <1>1, <1>2, PTL DEF Spec

\* Every variable keeps its type (all of EventSourcing).
THEOREM TypeCorrect == Spec => []TypeOK
<1>1. IInv => TypeOK
  BY DEF IInv
<1> QED BY <1>1, Invariance, PTL

\* The store always holds a hole-free suffix of the committed history under a
\* version key that counts it (AppendAsync, DeleteEventsUpToAsync).
THEOREM StreamIntegrityHolds == Spec => []StreamIntegrity
<1>1. IInv => StreamIntegrity
  BY DEF IInv
<1> QED BY <1>1, Invariance, PTL

\* No event is compacted that the stored snapshot does not cover
\* (TryScheduleCompactionAsync, RunOnIdleAsync).
THEOREM CompactionCoveredHolds == Spec => []CompactionCovered
<1>1. IInv => CompactionCovered
  BY DEF IInv
<1> QED BY <1>1, Invariance, PTL

\* No activation replaces a snapshot by an older one (SaveAsync under the etag).
THEOREM SnapshotNeverRegresses == Spec => SnapshotMonotone
<1>1. IInv /\ [Next]_vars => [snapshot'.version >= snapshot.version]_vars
  BY SnapshotStep DEF IInv
<1> QED BY <1>1, Invariance, PTL DEF Spec, SnapshotMonotone

USE DEF storeVars, snapVars, agentVars, boxVars

-----------------------------------------------------------------------------
(* Where the batch of a command stands in a history                        *)

\* The positions after which the batch of c stands in the history h.
OccurrencesIn(c, h) ==
    {i \in 0 .. (Len(h) - Len(Batch[c])) : SubSeq(h, i + 1, i + Len(Batch[c])) = Batch[c]}

\* The batch of c stands after position i of h, event by event.
StandsAt(c, i, h) ==
    /\ i \in Nat /\ i + Len(Batch[c]) <= Len(h)
    /\ \A k \in 1 .. Len(Batch[c]) : h[i + k] = Batch[c][k]

\* No event belongs to two positions of a batch or to two batches.
DistinctEvents ==
    \A c, d \in Commands : \A i \in 1 .. Len(Batch[c]), j \in 1 .. Len(Batch[d]) :
        Batch[c][i] = Batch[d][j] => c = d /\ i = j

\* The elements of a concatenation.
LEMMA ConcatAt ==
    ASSUME NEW S, NEW x \in Seq(S), NEW y \in Seq(S)
    PROVE  /\ x \o y \in Seq(S) /\ Len(x \o y) = Len(x) + Len(y)
           /\ Len(x) \in Nat /\ Len(y) \in Nat
           /\ \A k \in 1 .. Len(x) : (x \o y)[k] = x[k]
           /\ \A k \in 1 .. Len(y) : (x \o y)[Len(x) + k] = y[k]
OBVIOUS

\* A batch is a non-empty sequence of events (PersistDomainEventsAsync).
LEMMA BatchType ==
    ASSUME NEW c \in Commands
    PROVE  Batch[c] \in Seq(Events) /\ Len(Batch[c]) \in Nat /\ Len(Batch[c]) >= 1
<1>1. Batch[c] \in Seq(Events) /\ Batch[c] # <<>>
  BY ConstantsAssumption
<1> QED BY <1>1

\* Occurrences event by event.
LEMMA OccurrenceIsStand ==
    ASSUME NEW c \in Commands, NEW h \in Seq(Events), NEW i
    PROVE  i \in OccurrencesIn(c, h) <=> StandsAt(c, i, h)
<1> DEFINE n == Len(Batch[c])
<1>1. n \in Nat /\ n >= 1 /\ Batch[c] \in Seq(Events) /\ Len(h) \in Nat
  BY BatchType
<1>2. ASSUME i \in Nat, i + n <= Len(h)
      PROVE  SubSeq(h, i + 1, i + n) = Batch[c] <=> \A k \in 1 .. n : h[i + k] = Batch[c][k]
  <2>1. SubSeq(h, i + 1, i + n) \in Seq(Events) /\ Len(SubSeq(h, i + 1, i + n)) = n
    BY <1>1, <1>2
  <2>2. \A k \in 1 .. n : SubSeq(h, i + 1, i + n)[k] = h[i + k]
    BY <1>1, <1>2
  <2>3. ASSUME \A k \in 1 .. n : h[i + k] = Batch[c][k]
        PROVE  SubSeq(h, i + 1, i + n) = Batch[c]
    <3> DEFINE s == SubSeq(h, i + 1, i + n)
    <3>1. s \in Seq(Events) /\ Len(s) = n /\ \A k \in 1 .. n : s[k] = Batch[c][k]
      BY <2>1, <2>2, <2>3
    <3> HIDE DEF s
    <3>2. s = Batch[c]
      BY <1>1, <3>1, SeqEqual
    <3> QED BY <3>2 DEF s
  <2> QED BY <2>2, <2>3
<1>3. i \in 0 .. (Len(h) - n) <=> i \in Nat /\ i + n <= Len(h)
  BY <1>1
<1> QED BY <1>2, <1>3 DEF OccurrencesIn, StandsAt

\* What was committed stays committed at the same place (AppendAsync).
LEMMA OccurrencesStay ==
    ASSUME NEW c \in Commands, NEW h \in Seq(Events), NEW p \in Seq(Events)
    PROVE  OccurrencesIn(c, h) \subseteq OccurrencesIn(c, h \o p)
<1> SUFFICES ASSUME NEW i \in OccurrencesIn(c, h)
             PROVE  i \in OccurrencesIn(c, h \o p)
  OBVIOUS
<1>1. StandsAt(c, i, h)
  BY OccurrenceIsStand
<1>2. h \o p \in Seq(Events) /\ Len(h \o p) = Len(h) + Len(p) /\ Len(p) \in Nat
      /\ Len(h) \in Nat /\ Len(Batch[c]) \in Nat
  BY BatchType
<1>3. \A k \in 1 .. Len(h) : (h \o p)[k] = h[k]
  OBVIOUS
<1>4. StandsAt(c, i, h \o p)
  BY <1>1, <1>2, <1>3 DEF StandsAt
<1> QED BY <1>2, <1>4, OccurrenceIsStand

\* A batch at the end of what is appended stands at the end of the history.
LEMMA BatchAtEnd ==
    ASSUME NEW c \in Commands, NEW h \in Seq(Events), NEW p \in Seq(Events)
    PROVE  OccurrencesIn(c, h \o (p \o Batch[c])) # {}
<1> DEFINE b == Batch[c]
           batch == p \o b
           t == h \o batch
           i == Len(h) + Len(p)
<1>1. b \in Seq(Events) /\ Len(b) \in Nat /\ Len(h) \in Nat /\ Len(p) \in Nat
  BY BatchType
<1>2. /\ batch \in Seq(Events) /\ Len(batch) = Len(p) + Len(b)
      /\ \A k \in 1 .. Len(b) : batch[Len(p) + k] = b[k]
  BY <1>1, ConcatAt
<1> HIDE DEF b, batch
<1>3. /\ t \in Seq(Events) /\ Len(t) = Len(h) + Len(batch)
      /\ \A k \in 1 .. Len(batch) : t[Len(h) + k] = batch[k]
  <2>1. batch \in Seq(Events)
    BY <1>2
  <2> QED BY <2>1, ConcatAt
<1> HIDE DEF t
<1>4. \A k \in 1 .. Len(b) : t[i + k] = b[k]
  <2> SUFFICES ASSUME NEW k \in 1 .. Len(b) PROVE t[i + k] = b[k]
    OBVIOUS
  <2>1. t[Len(h) + (Len(p) + k)] = batch[Len(p) + k]
    BY <1>1, <1>2, <1>3
  <2>2. Len(h) + (Len(p) + k) = i + k
    BY <1>1
  <2> QED BY <1>2, <2>1, <2>2
<1>5. Len(t) = i + Len(b) /\ i \in Nat
  BY <1>1, <1>2, <1>3
<1>6. StandsAt(c, i, t)
  BY <1>1, <1>4, <1>5 DEF StandsAt, b
<1>7. i \in OccurrencesIn(c, t)
  BY <1>3, <1>6, OccurrenceIsStand
<1> QED BY <1>7 DEF t, batch, b

\* With distinct events, committing the batch of c adds one occurrence of c, at
\* the end, and none of any other command.
LEMMA OneNewOccurrence ==
    ASSUME DistinctEvents, NEW c \in Commands, NEW d \in Commands, NEW h \in Seq(Events)
    PROVE  OccurrencesIn(d, h \o Batch[c])
               = OccurrencesIn(d, h) \cup (IF d = c THEN {Len(h)} ELSE {})
<1> DEFINE b == Batch[c]
           t == h \o b
<1>1. /\ b \in Seq(Events) /\ Len(b) \in Nat /\ Len(b) >= 1
      /\ Batch[d] \in Seq(Events) /\ Len(Batch[d]) \in Nat /\ Len(Batch[d]) >= 1
      /\ Len(h) \in Nat
  BY BatchType
<1>2. t \in Seq(Events) /\ Len(t) = Len(h) + Len(b)
  BY <1>1
<1>3. /\ \A k \in 1 .. Len(h) : t[k] = h[k]
      /\ \A k \in 1 .. Len(b) : t[Len(h) + k] = b[k]
  BY <1>1
<1>4. ASSUME NEW i \in OccurrencesIn(d, t)
      PROVE  i \in OccurrencesIn(d, h) \/ (d = c /\ i = Len(h))
  <2>1. StandsAt(d, i, t)
    BY <1>2, OccurrenceIsStand
  <2>2. CASE i + Len(Batch[d]) <= Len(h)
    <3>1. StandsAt(d, i, h)
      <4>1. \A k \in 1 .. Len(Batch[d]) : i + k \in 1 .. Len(h)
        BY <1>1, <2>1, <2>2 DEF StandsAt
      <4> QED BY <1>3, <2>1, <2>2, <4>1 DEF StandsAt
    <3> QED BY <3>1, OccurrenceIsStand
  <2>3. CASE ~(i + Len(Batch[d]) <= Len(h))
    <3> DEFINE last == Len(Batch[d])
               k == i + last - Len(h)
    <3>1. i \in Nat /\ i + last <= Len(h) + Len(b)
      BY <1>2, <2>1 DEF StandsAt
    <3>a. last \in Nat /\ last >= 1 /\ Len(b) \in Nat /\ Len(h) \in Nat
          /\ ~(i + last <= Len(h))
      BY <1>1, <2>3
    <3> HIDE DEF last, b
    <3>2. k \in 1 .. Len(b) /\ last \in 1 .. last /\ Len(h) + k = i + last
      BY <3>1, <3>a
    <3> USE DEF last, b
    <3>3. t[i + last] = Batch[d][last]
      BY <2>1, <3>2 DEF StandsAt
    <3>4. t[Len(h) + k] = b[k]
      BY <1>3, <3>2
    <3>5. Batch[c][k] = Batch[d][last]
      BY <3>2, <3>3, <3>4
    <3>6. c = d /\ k = last
      BY <3>2, <3>5 DEF DistinctEvents
    <3> QED BY <1>1, <3>1, <3>2, <3>6
  <2> QED BY <2>2, <2>3
<1>5. OccurrencesIn(d, h) \subseteq OccurrencesIn(d, t)
  BY <1>1, OccurrencesStay
<1>6. Len(h) \in OccurrencesIn(c, t)
  <2>1. StandsAt(c, Len(h), t)
    BY <1>1, <1>2, <1>3 DEF StandsAt
  <2> QED BY <1>2, <2>1, OccurrenceIsStand
<1> QED BY <1>4, <1>5, <1>6

\* An occurrence ends within the history, so none stands at its end.
LEMMA NoneAtEnd ==
    ASSUME NEW c \in Commands, NEW h \in Seq(Events)
    PROVE  Len(h) \notin OccurrencesIn(c, h) /\ IsFiniteSet(OccurrencesIn(c, h))
<1>1. Len(Batch[c]) \in Nat /\ Len(Batch[c]) >= 1 /\ Len(h) \in Nat
  BY BatchType
<1>2. Len(h) \notin OccurrencesIn(c, h)
  BY <1>1, OccurrenceIsStand DEF StandsAt
<1>3. OccurrencesIn(c, h) \subseteq 0 .. Len(h)
  BY <1>1 DEF OccurrencesIn
<1>4. IsFiniteSet(0 .. Len(h))
  BY <1>1, FS_Interval
<1> QED BY <1>2, <1>3, <1>4, FS_Subset

-----------------------------------------------------------------------------
(* An answered command is in the history                                   *)

\* An activation that is down, idle, saving or broken handles no command.
IdleHandlesNothing ==
    \A a \in Activations :
        pc[a] \in {"down", "idle", "saving", "broken"} => cmd[a] = NoCommand

\* A command is handled during a replay only inside the absorbing overload.
AbsorbingReplays ==
    \A a \in Activations :
        pc[a] \in {"loading", "replayed"} => cmd[a] \in Absorbing \cup {NoCommand}

\* What a handler appends ends with its own batch, whatever was left pending.
BatchLast ==
    \A a \in Activations : pc[a] = "appending" /\ cmd[a] # NoCommand =>
        \E p \in Seq(Events) : pending[a] = p \o Batch[cmd[a]]

\* A handler whose append was accepted has its batch in the history.
CommitRecorded ==
    \A a \in Activations :
        pc[a] = "committed" /\ cmd[a] # NoCommand => Occurrences(cmd[a]) # {}

DurableInv ==
    /\ IdleHandlesNothing
    /\ AbsorbingReplays
    /\ BatchLast
    /\ CommitRecorded
    /\ AckedDurable


\* The history only grows at its end (AppendAsync).
LEMMA HistoryGrows ==
    ASSUME TypeOK, [Next]_vars
    PROVE  committed' = committed \/ \E a \in Activations : /\ AppendAccepted(a)
                                                            /\ committed' = committed \o pending[a]
<1>1. ASSUME NEW a \in Activations, Step(a), ~AppendAccepted(a)
      PROVE  committed' = committed
  BY <1>1 DEF Step, Replay, Append_, Resume, Activate, ReadEvents,
              ProbeOnActivation, ProbeOnConflict, CollectBroken, Handle,
              DropEnvelope, AppendRejected, AppendThrows, CommandCommitted,
              CommandRejected, CommandFailed, FlushCommitted, FlushFailed,
              FinishDeactivation, Deactivate, RunOnIdle, Crash
<1>2. ASSUME NEW a \in Activations, AppendAccepted(a)
      PROVE  committed' = committed \o pending[a]
  BY <1>2 DEF AppendAccepted
<1> QED BY <1>1, <1>2 DEF Next, vars

\* No step removes a batch from the history.
LEMMA OccurrencesGrow ==
    ASSUME TypeOK, [Next]_vars, NEW c \in Commands, Occurrences(c) # {}
    PROVE  (Occurrences(c) # {})'
<1>1. OccurrencesIn(c, committed) # {}
  BY DEF Occurrences, OccurrencesIn
<1>2. CASE committed' = committed
  BY <1>1, <1>2 DEF Occurrences, OccurrencesIn
<1>3. CASE \E a \in Activations : committed' = committed \o pending[a]
  <2>1. PICK a \in Activations : committed' = committed \o pending[a]
    BY <1>3
  <2>2. committed \in Seq(Events) /\ pending[a] \in Seq(Events)
    BY DEF TypeOK
  <2>3. OccurrencesIn(c, committed) \subseteq OccurrencesIn(c, committed \o pending[a])
    BY <2>2, OccurrencesStay
  <2>4. OccurrencesIn(c, committed') # {}
    BY <1>1, <2>1, <2>3
  <2> QED BY <2>4 DEF Occurrences, OccurrencesIn
<1> QED BY <1>2, <1>3, HistoryGrows

\* Of the handlers, a step of an activation touches its own only.
OthersStay(a) ==
    \A b \in Activations \ {a} :
        pc'[b] = pc[b] /\ cmd'[b] = cmd[b] /\ pending'[b] = pending[b]

\* What a step may do to the answers.
AnswersCommitted(a) ==
    \/ acked' = acked
    \/ /\ acked' = acked \cup {cmd[a]} /\ cmd[a] \in Commands
       /\ (cmd[a] \in Absorbing \/ Occurrences(cmd[a]) # {})

\* The same four facts for the activation that takes the step.
HandlerFacts(a) ==
    /\ pc'[a] \in {"down", "idle", "saving", "broken"} => cmd'[a] = NoCommand
    /\ pc'[a] \in {"loading", "replayed"} => cmd'[a] \in Absorbing \cup {NoCommand}
    /\ pc'[a] = "appending" /\ cmd'[a] # NoCommand =>
           \E p \in Seq(Events) : pending'[a] = p \o Batch[cmd'[a]]
    /\ pc'[a] = "committed" /\ cmd'[a] # NoCommand => OccurrencesIn(cmd'[a], committed') # {}

\* The invariant follows from what the activation that takes the step does.
LEMMA DurableFrame ==
    ASSUME TypeOK, DurableInv, [Next]_vars, NEW a \in Activations,
           OthersStay(a), AnswersCommitted(a), HandlerFacts(a)
    PROVE  DurableInv'
<1>0. \A c \in Commands : Occurrences(c) # {} => (Occurrences(c) # {})'
  BY OccurrencesGrow
<1>1. cmd \in [Activations -> Commands \cup {NoCommand}] /\ acked \subseteq Commands
  BY DEF TypeOK
<1>2. IdleHandlesNothing'
  BY DEF IdleHandlesNothing, DurableInv, OthersStay, HandlerFacts
<1>3. AbsorbingReplays'
  BY DEF AbsorbingReplays, DurableInv, OthersStay, HandlerFacts
<1>4. BatchLast'
  BY DEF BatchLast, DurableInv, OthersStay, HandlerFacts
<1>5. CommitRecorded'
  <2> SUFFICES ASSUME NEW b \in Activations, pc'[b] = "committed", cmd'[b] # NoCommand
               PROVE  (Occurrences(cmd[b]) # {})'
    BY DEF CommitRecorded
  <2>1. CASE b = a
    BY <2>1 DEF HandlerFacts, Occurrences, OccurrencesIn
  <2>2. CASE b # a
    <3>1. pc[b] = "committed" /\ cmd[b] # NoCommand /\ cmd'[b] = cmd[b]
      BY <2>2 DEF OthersStay
    <3>2. Occurrences(cmd[b]) # {} /\ cmd[b] \in Commands
      BY <1>1, <3>1 DEF CommitRecorded, DurableInv
    <3>3. OccurrencesIn(cmd[b], committed') # {}
      BY <1>0, <3>2 DEF Occurrences, OccurrencesIn
    <3> QED BY <3>1, <3>3 DEF Occurrences, OccurrencesIn
  <2> QED BY <2>1, <2>2
<1>6. AckedDurable'
  <2> SUFFICES ASSUME NEW c \in acked' \ Absorbing
               PROVE  (Occurrences(c) # {})'
    BY DEF AckedDurable
  <2>1. Occurrences(c) # {} /\ c \in Commands
    <3>1. CASE c \in acked
      BY <1>1, <3>1 DEF AckedDurable, DurableInv
    <3>2. CASE c \notin acked
      BY <1>1, <3>2, ConstantsAssumption DEF AnswersCommitted, AckedDurable, DurableInv
    <3> QED BY <3>1, <3>2
  <2> QED BY <1>0, <2>1
<1> QED BY <1>2, <1>3, <1>4, <1>5, <1>6 DEF DurableInv

\* Every step keeps what ties answers to the history.
LEMMA DurableStep ==
    ASSUME TypeOK, DurableInv, [Next]_vars
    PROVE  DurableInv'
<1>1. CASE UNCHANGED vars
  <2>1. UNCHANGED <<pc, cmd, pending, committed, acked>>
    BY <1>1 DEF vars
  <2> QED BY <2>1 DEF DurableInv, IdleHandlesNothing, AbsorbingReplays, BatchLast,
                      CommitRecorded, AckedDurable, Occurrences
<1>2. ASSUME NEW a \in Activations, Step(a)
      PROVE  OthersStay(a) /\ AnswersCommitted(a) /\ HandlerFacts(a)
  <2>1. /\ pc \in [Activations -> Phases] /\ cmd \in [Activations -> Commands \cup {NoCommand}]
        /\ pending \in [Activations -> Seq(Events)] /\ NoCommand \notin Commands
    BY ConstantsAssumption DEF TypeOK
  <2>2. /\ pc[a] \in {"down", "idle", "saving", "broken"} => cmd[a] = NoCommand
        /\ pc[a] \in {"loading", "replayed"} => cmd[a] \in Absorbing \cup {NoCommand}
        /\ pc[a] = "appending" /\ cmd[a] # NoCommand =>
               \E p \in Seq(Events) : pending[a] = p \o Batch[cmd[a]]
        /\ pc[a] = "committed" /\ cmd[a] # NoCommand => OccurrencesIn(cmd[a], committed) # {}
    BY DEF DurableInv, IdleHandlesNothing, AbsorbingReplays, BatchLast, CommitRecorded,
           Occurrences, OccurrencesIn
  <2> USE DEF OthersStay, AnswersCommitted, HandlerFacts
  <2>3. CASE Activate(a) \/ ReadEvents(a) \/ ProbeOnActivation(a)
    BY <2>1, <2>2, <2>3 DEF Activate, ReadEvents, ProbeOnActivation
  <2>4. CASE ProbeOnConflict(a)
    BY <2>1, <2>2, <2>4 DEF ProbeOnConflict, HandlerReturned, HandlerFailed
  <2>5. CASE CollectBroken(a) \/ FlushFailed(a) \/ FinishDeactivation(a) \/ Crash(a)
    BY <2>1, <2>5 DEF CollectBroken, FlushFailed, FinishDeactivation, Crash, Forget
  <2>6. CASE \E c \in Commands : Handle(a, c) \/ DropEnvelope(a, c)
    <3>1. PICK c \in Commands : Handle(a, c) \/ DropEnvelope(a, c)
      BY <2>6
    <3>2. CASE Handle(a, c)
      BY <2>1, <2>2, <3>2 DEF Handle
    <3>3. CASE DropEnvelope(a, c)
      BY <2>1, <2>2, <3>3 DEF DropEnvelope
    <3> QED BY <3>1, <3>2, <3>3
  <2>7. CASE AppendAccepted(a)
    <3>1. ASSUME cmd[a] # NoCommand
          PROVE  OccurrencesIn(cmd[a], committed') # {}
      <4>1. PICK p \in Seq(Events) : pending[a] = p \o Batch[cmd[a]]
        BY <2>2, <2>7, <3>1 DEF AppendAccepted
      <4>2. committed' = committed \o (p \o Batch[cmd[a]]) /\ committed \in Seq(Events)
            /\ cmd[a] \in Commands
        BY <2>1, <2>7, <3>1, <4>1 DEF AppendAccepted, TypeOK
      <4> QED BY <4>2, BatchAtEnd
    <3> QED BY <2>1, <2>7, <3>1 DEF AppendAccepted
  <2>8. CASE AppendRejected(a) \/ AppendThrows(a)
    BY <2>1, <2>2, <2>8 DEF AppendRejected, AppendThrows
  <2>9. CASE CommandCommitted(a)
    <3>1. Occurrences(cmd[a]) # {} /\ cmd[a] \in Commands
      BY <2>1, <2>2, <2>9 DEF CommandCommitted, Occurrences, OccurrencesIn
    <3> QED BY <2>1, <2>9, <3>1 DEF CommandCommitted, HandlerReturned, HandlerFailed
  <2>10. CASE CommandRejected(a) \/ CommandFailed(a)
    BY <2>1, <2>2, <2>10 DEF CommandRejected, CommandFailed, HandlerFailed
  <2>11. CASE FlushCommitted(a) \/ Deactivate(a)
    BY <2>1, <2>2, <2>11 DEF FlushCommitted, Deactivate
  <2>12. CASE RunOnIdle(a)
    BY <2>1, <2>2, <2>12 DEF RunOnIdle
  <2> QED BY <1>2, <2>3, <2>4, <2>5, <2>6, <2>7, <2>8, <2>9, <2>10, <2>11, <2>12
          DEF Step, Replay, Append_, Resume
<1> QED BY <1>1, <1>2, DurableFrame DEF Next

\* No answer and no batch to begin with.
LEMMA InitDurable == Init => DurableInv
BY DEF Init, DurableInv, IdleHandlesNothing, AbsorbingReplays, BatchLast, CommitRecorded,
       AckedDurable

\* Whatever peers, conflicts, lost replies, failed publications and crashes do, a
\* command whose handler returned has its events in the stream, next to one
\* another (ConfirmEventsAsync, PersistDomainEventsAsync).
THEOREM AckedIsDurable == Spec => []AckedDurable
<1>1. Init => DurableInv
  BY InitDurable
<1>2. DurableInv /\ IInv /\ [Next]_vars => DurableInv'
  BY DurableStep DEF IInv
<1>3. DurableInv => AckedDurable
  BY DEF DurableInv
<1> QED BY <1>1, <1>2, <1>3, Invariance, PTL DEF Spec

-----------------------------------------------------------------------------
(* Without store faults an activation appends one batch at a time          *)

\* AppendAsync throws nothing but a conflict.
NoStoreFaults == ~AppendMayFail /\ ~ReplyMayBeLost

\* An activation appends the batch of the command it handles, and has nothing
\* pending between two commands.
PendingFacts(a) ==
    /\ pc[a] # "error"
    /\ pc[a] \in {"appending", "committed", "rejected"} => cmd[a] # NoCommand
    /\ pc[a] \in {"appending", "committed"} => pending[a] = Batch[cmd[a]]
    /\ pc[a] \in {"down", "loading", "replayed", "idle", "saving", "broken"} =>
           pending[a] = <<>>

OneBatchPending == \A a \in Activations : PendingFacts(a)

\* Every step keeps one batch pending at most.
LEMMA PendingStep ==
    ASSUME NoStoreFaults, TypeOK, DurableInv, OneBatchPending, [Next]_vars
    PROVE  OneBatchPending'
<1>1. CASE UNCHANGED vars
  BY <1>1 DEF vars, OneBatchPending, PendingFacts
<1>2. ASSUME NEW a \in Activations, Step(a)
      PROVE  OthersStay(a) /\ PendingFacts(a)'
  <2>1. /\ pc \in [Activations -> Phases] /\ cmd \in [Activations -> Commands \cup {NoCommand}]
        /\ pending \in [Activations -> Seq(Events)] /\ NoCommand \notin Commands
        /\ PendingFacts(a)
    BY ConstantsAssumption DEF TypeOK, OneBatchPending
  <2> USE DEF OthersStay, PendingFacts
  <2>2. CASE Activate(a) \/ Replay(a)
    BY <2>1, <2>2 DEF Activate, Replay, ReadEvents, ProbeOnActivation, ProbeOnConflict
  <2>3. CASE CollectBroken(a) \/ FlushFailed(a) \/ FinishDeactivation(a) \/ Crash(a)
    BY <2>1, <2>3 DEF CollectBroken, FlushFailed, FinishDeactivation, Crash, Forget
  <2>4. ASSUME NEW c \in Commands, Handle(a, c)
        PROVE  OthersStay(a) /\ PendingFacts(a)'
    <3>1. pending[a] = <<>> /\ pending'[a] = pending[a] \o Batch[c]
      BY <2>1, <2>4 DEF Handle
    <3>2. pending'[a] = Batch[c]
      BY <3>1, BatchType
    <3> QED BY <2>1, <2>4, <3>2 DEF Handle
  <2>5. ASSUME NEW c \in Commands, DropEnvelope(a, c)
        PROVE  OthersStay(a) /\ PendingFacts(a)'
    BY <2>1, <2>5 DEF DropEnvelope
  <2>6. CASE Append_(a)
    BY <2>1, <2>6 DEF Append_, AppendAccepted, AppendRejected, AppendThrows, NoStoreFaults
  <2>7. CASE CommandCommitted(a) \/ CommandRejected(a) \/ CommandFailed(a) \/ FlushCommitted(a)
    BY <2>1, <2>7 DEF CommandCommitted, CommandRejected, CommandFailed, FlushCommitted
  <2>8. CASE Deactivate(a) \/ RunOnIdle(a)
    BY <2>1, <2>8 DEF Deactivate, RunOnIdle
  <2> QED BY <1>2, <2>2, <2>3, <2>4, <2>5, <2>6, <2>7, <2>8 DEF Step, Resume
<1>3. ASSUME NEW a \in Activations, OthersStay(a), PendingFacts(a)'
      PROVE  OneBatchPending'
  BY <1>3 DEF OneBatchPending, PendingFacts, OthersStay
<1> QED BY <1>1, <1>2, <1>3 DEF Next

\* Nothing is pending to begin with.
LEMMA InitPending == Init => OneBatchPending
BY DEF Init, OneBatchPending, PendingFacts

-----------------------------------------------------------------------------
(* One activation: snapshot, replay and online state agree                 *)

\* No two activations of the actor are ever live (the single-activation
\* guarantee of the runtime).
OneActivation == \A a, b \in Activations : a = b

\* The snapshot is the history up to its version.
SnapshotTrue ==
    /\ snapshot.version <= version
    /\ snapshot.state = SubSeq(committed, 1, snapshot.version)

\* The state of an activation is the history at each of its awaits.
Intact(a) ==
    /\ pc[a] \notin {"rejected", "error", "broken"}
    /\ pc[a] \in {"loading", "replayed"} => cmd[a] = NoCommand
    /\ pc[a] = "loading" => cached[a] = snapshot
    /\ pc[a] = "replayed" => reply[a].version = version /\ reply[a].state = committed
    /\ pc[a] \in {"idle", "saving", "appending"} => ver[a] = version /\ state[a] = committed
    /\ pc[a] = "committed" => /\ ver[a] + Len(pending[a]) = version
                              /\ state[a] \o pending[a] = committed

SingleInv == SnapshotTrue /\ \A a \in Activations : Intact(a)

\* A replay from any version whose successors are all stored completes the
\* history (GetEventsAsync).
LEMMA ReplayCompletes ==
    ASSUME TypeOK, StoreShape, StreamIntegrity, NEW v \in Nat, v <= version,
           v < version => v + 1 \in DOMAIN events
    PROVE  LastVersion(v) = version /\ SubSeq(committed, 1, v) \o Replayed(v) = committed
<1>1. version \in Nat /\ version = Len(committed) /\ committed \in Seq(Events)
  BY DEF TypeOK, StreamIntegrity
<1>2. DOMAIN events \subseteq 1 .. version
  BY DEF StreamIntegrity
<1>3. CASE v = version
  <2>1. Above(v) = {}
    BY <1>1, <1>2, <1>3 DEF Above
  <2>2. LastVersion(v) = version /\ Replayed(v) = <<>>
    BY <1>3, <2>1 DEF LastVersion, Replayed
  <2>3. SubSeq(committed, 1, v) = committed
    BY <1>1, <1>3, SubSeqFull
  <2> QED BY <1>1, <2>2, <2>3
<1>4. CASE v < version
  <2>1. v + 1 \in Above(v)
    BY <1>4 DEF Above
  <2>2. PICK f \in Nat : /\ v < f /\ f <= version
                         /\ Above(v) = f .. version
                         /\ Min(Above(v)) = f
                         /\ Max(Above(v)) = version
    BY <1>1, <2>1, AboveInterval
  <2>3. f = v + 1
    BY <1>1, <2>1, <2>2
  <2>4. LastVersion(v) = version
    BY <2>1, <2>2 DEF LastVersion
  <2>5. Replayed(v) = [i \in 1 .. (version - f + 1) |-> events[f + i - 1]]
    BY <2>1, <2>2 DEF Replayed
  <2>6. Replayed(v) = SubSeq(committed, v + 1, version)
    <3> DEFINE r == Replayed(v)
               s == SubSeq(committed, v + 1, version)
    <3>1. r \in Seq(Events)
      BY <1>1, ReplayedType
    <3>2. /\ s \in Seq(Events) /\ Len(s) = version - v
          /\ \A i \in 1 .. (version - v) : s[i] = committed[v + i]
      <4>1. \A i \in (v + 1) .. version : committed[i] \in Events
        BY <1>1
      <4>2. v + 1 \in Int /\ version \in Int /\ v + 1 <= version
        BY <1>1, <1>4
      <4>3. /\ s \in Seq(Events)
            /\ Len(s) = version - (v + 1) + 1
            /\ \A i \in 1 .. version - (v + 1) + 1 : s[i] = committed[v + 1 + i - 1]
        BY <4>1, <4>2, SubSeqProperties
      <4> HIDE DEF s
      <4>4. \A i \in 1 .. (version - v) : v + 1 + i - 1 = v + i
        BY <1>1
      <4>5. version - (v + 1) + 1 = version - v
        BY <1>1
      <4> QED BY <4>3, <4>4, <4>5
    <3>3. r = [i \in 1 .. (version - v) |-> events[v + i]]
      BY <1>1, <2>3, <2>5
    <3>4. Len(r) = version - v /\ \A i \in 1 .. (version - v) : r[i] = events[v + i]
      BY <1>1, <1>4, <3>3
    <3>5. \A i \in 1 .. (version - v) : events[v + i] = committed[v + i]
      <4> SUFFICES ASSUME NEW i \in 1 .. (version - v)
                   PROVE  events[v + i] = committed[v + i]
        OBVIOUS
      <4>1. v + i \in f .. version
        BY <1>1, <1>4, <2>3
      <4>2. v + i \in DOMAIN events
        BY <2>2, <4>1 DEF Above
      <4> QED BY <4>2 DEF StreamIntegrity
    <3> HIDE DEF r, s
    <3>6. r = s
      BY <3>1, <3>2, <3>4, <3>5, SeqEqual
    <3> QED BY <3>6 DEF r, s
  <2>7. SubSeq(committed, 1, v) \o SubSeq(committed, v + 1, version) = SubSeq(committed, 1, version)
    <3>1. 1 \in 1 .. Len(committed) + 1 /\ v \in 1 - 1 .. Len(committed)
          /\ version \in v .. Len(committed)
      BY <1>1, <1>4
    <3> QED BY <1>1, <3>1, ConcatAdjacentSubSeq
  <2>8. SubSeq(committed, 1, version) = committed
    BY <1>1, SubSeqFull
  <2> QED BY <1>1, <2>4, <2>6, <2>7, <2>8
<1> QED BY <1>1, <1>3, <1>4

\* A replay from a true snapshot yields the whole history: compaction never
\* outran the snapshot (GetEventsAsync, ReplayAsync).
LEMMA ReplayFromSnapshot ==
    ASSUME TypeOK, StoreShape, StreamIntegrity, CompactionCovered, SnapshotTrue
    PROVE  /\ LastVersion(snapshot.version) = version
           /\ snapshot.state \o Replayed(snapshot.version) = committed
<1>1. snapshot.version \in Nat /\ version \in Nat /\ snapshot.version <= version
  BY DEF TypeOK, StateType, SnapshotTrue
<1>2. snapshot.version < version => snapshot.version + 1 \in DOMAIN events
  BY <1>1 DEF CompactionCovered
<1> QED BY <1>1, <1>2, ReplayCompletes DEF SnapshotTrue

\* A prefix of the history is a prefix of every later one.
LEMMA PrefixStays ==
    ASSUME NEW h \in Seq(Events), NEW p \in Seq(Events), NEW n \in 0 .. Len(h)
    PROVE  SubSeq(h \o p, 1, n) = SubSeq(h, 1, n)
<1>1. CASE n = 0
  BY <1>1, SubSeqEmpty
<1>2. CASE n # 0
  <2>1. Len(h) \in Nat
    OBVIOUS
  <2>2. n \in 1 .. Len(h) /\ 1 \in 1 .. Len(h)
    BY <1>2, <2>1
  <2> QED BY <2>2, SubSeqOfConcat1
<1> QED BY <1>1, <1>2

\* Every step keeps the snapshot a prefix of the history.
LEMMA SnapshotTrueStep ==
    ASSUME TypeOK, StreamIntegrity, SingleInv, [Next]_vars
    PROVE  SnapshotTrue'
<1>1. /\ snapshot.version \in Nat /\ version \in Nat /\ snapshot.version <= version
      /\ version = Len(committed) /\ committed \in Seq(Events)
      /\ snapshot.state = SubSeq(committed, 1, snapshot.version)
  BY DEF TypeOK, StateType, SingleInv, SnapshotTrue, StreamIntegrity
<1>2. CASE UNCHANGED <<snapshot, version, committed>>
  BY <1>1, <1>2 DEF SnapshotTrue
<1>3. ASSUME NEW a \in Activations, AppendAccepted(a)
      PROVE  SnapshotTrue'
  <2>1. /\ pending[a] \in Seq(Events) /\ Len(pending[a]) \in Nat
        /\ version' = version + Len(pending[a])
        /\ committed' = committed \o pending[a] /\ snapshot' = snapshot
    BY <1>3 DEF AppendAccepted, TypeOK
  <2>2. SubSeq(committed', 1, snapshot.version) = SubSeq(committed, 1, snapshot.version)
    BY <1>1, <2>1, PrefixStays
  <2>3. snapshot.version <= version'
    BY <1>1, <2>1
  <2> QED BY <1>1, <2>1, <2>2, <2>3 DEF SnapshotTrue
<1>4. ASSUME NEW a \in Activations, FinishDeactivation(a)
      PROVE  SnapshotTrue'
  <2>1. ver[a] = version /\ state[a] = committed /\ UNCHANGED <<version, committed>>
    BY <1>4 DEF SingleInv, Intact, FinishDeactivation
  <2>2. CASE SaveSnapshot(a)
    <3>1. snapshot'.version = version /\ snapshot'.state = committed
      BY <2>1, <2>2 DEF SaveSnapshot
    <3>2. SubSeq(committed, 1, version) = committed
      BY <1>1, SubSeqFull
    <3> QED BY <1>1, <2>1, <3>1, <3>2 DEF SnapshotTrue
  <2>3. CASE UNCHANGED snapshot
    BY <1>1, <2>1, <2>3 DEF SnapshotTrue
  <2> QED BY <1>4, <2>2, <2>3 DEF FinishDeactivation
<1>5. ASSUME NEW a \in Activations, Step(a), ~AppendAccepted(a), ~FinishDeactivation(a)
      PROVE  UNCHANGED <<snapshot, version, committed>>
  BY <1>5 DEF Step, Replay, Append_, Resume, Activate, ReadEvents,
              ProbeOnActivation, ProbeOnConflict, CollectBroken, Handle,
              DropEnvelope, AppendRejected, AppendThrows, CommandCommitted,
              CommandRejected, CommandFailed, FlushCommitted, FlushFailed,
              Deactivate, RunOnIdle, Crash
<1> QED BY <1>2, <1>3, <1>4, <1>5 DEF Next, vars

\* Every step of the only activation keeps it in agreement with the history.
LEMMA IntactStep ==
    ASSUME NoStoreFaults, IInv, IdleHandlesNothing, OneBatchPending, SingleInv,
           NEW a \in Activations, Step(a)
    PROVE  Intact(a)'
<1>1. /\ pc \in [Activations -> Phases] /\ cmd \in [Activations -> Commands \cup {NoCommand}]
      /\ ver \in [Activations -> Nat] /\ pending \in [Activations -> Seq(Events)]
      /\ state \in [Activations -> Seq(Events)] /\ cached \in [Activations -> StateType]
      /\ reply \in [Activations -> StateType] /\ version \in Nat
      /\ version = Len(committed) /\ NoCommand \notin Commands
  BY ConstantsAssumption DEF IInv, TypeOK, StreamIntegrity
<1>2. Intact(a) /\ PendingFacts(a)
  BY DEF SingleInv, OneBatchPending
<1> USE DEF Intact
<1>3. CASE Activate(a)
  BY <1>1, <1>3 DEF Activate, IdleHandlesNothing
<1>4. CASE ReadEvents(a)
  <2>1. cached[a] = snapshot /\ cmd[a] = NoCommand
    BY <1>2, <1>4 DEF ReadEvents
  <2>2. /\ LastVersion(snapshot.version) = version
        /\ snapshot.state \o Replayed(snapshot.version) = committed
    BY ReplayFromSnapshot DEF IInv, SingleInv
  <2> QED BY <1>1, <1>4, <2>1, <2>2 DEF ReadEvents
<1>5. CASE ProbeOnActivation(a)
  <2>1. /\ ~Drifted(a) /\ Larger(version, reply[a].version) = version
        /\ reply[a].state = committed
    BY <1>1, <1>2, <1>5 DEF ProbeOnActivation, Drifted, Larger
  <2> QED BY <1>1, <1>5, <2>1 DEF ProbeOnActivation, ReplaySucceeds
<1>6. CASE ProbeOnConflict(a)
  BY <1>2, <1>6 DEF ProbeOnConflict
<1>7. CASE CollectBroken(a) \/ FlushFailed(a) \/ FinishDeactivation(a) \/ Crash(a)
  BY <1>1, <1>7 DEF CollectBroken, FlushFailed, FinishDeactivation, Crash, Forget
<1>8. CASE \E c \in Commands : Handle(a, c) \/ DropEnvelope(a, c)
  BY <1>1, <1>2, <1>8 DEF Handle, DropEnvelope
<1>9. CASE AppendAccepted(a)
  BY <1>1, <1>2, <1>9 DEF AppendAccepted
<1>10. CASE AppendRejected(a) \/ AppendThrows(a)
  BY <1>2, <1>10 DEF AppendRejected, AppendThrows, NoStoreFaults
<1>11. CASE CommandCommitted(a)
  <2>1. pending[a] = Batch[cmd[a]]
    BY <1>2, <1>11 DEF CommandCommitted, PendingFacts
  <2>2. ver'[a] = version /\ state'[a] = committed /\ pc'[a] = "idle"
    BY <1>1, <1>2, <1>11, <2>1 DEF CommandCommitted
  <2> QED BY <1>11, <2>2 DEF CommandCommitted
<1>12. CASE CommandRejected(a) \/ CommandFailed(a)
  BY <1>2, <1>12 DEF CommandRejected, CommandFailed
<1>13. CASE FlushCommitted(a)
  BY <1>2, <1>13 DEF FlushCommitted, PendingFacts
<1>14. CASE Deactivate(a) \/ RunOnIdle(a)
  BY <1>1, <1>2, <1>14 DEF Deactivate, RunOnIdle
<1> QED BY <1>3, <1>4, <1>5, <1>6, <1>7, <1>8, <1>9, <1>10, <1>11, <1>12, <1>13, <1>14
        DEF Step, Replay, Append_, Resume

\* Every step keeps the agreement.
LEMMA SingleStep ==
    ASSUME OneActivation, NoStoreFaults, IInv, DurableInv, OneBatchPending, SingleInv, [Next]_vars
    PROVE  SingleInv'
<1>1. SnapshotTrue'
  BY SnapshotTrueStep DEF IInv
<1>2. ASSUME NEW b \in Activations
      PROVE  Intact(b)'
  <2>1. CASE UNCHANGED vars
    BY <2>1 DEF SingleInv, Intact, vars
  <2>2. ASSUME NEW a \in Activations, Step(a)
        PROVE  Intact(b)'
    <3>1. Intact(a)'
      BY <2>2, IntactStep DEF DurableInv
    <3>2. a = b
      BY DEF OneActivation
    <3> QED BY <3>1, <3>2
  <2> QED BY <2>1, <2>2 DEF Next
<1> QED BY <1>1, <1>2 DEF SingleInv

\* An empty history agrees with an absent snapshot.
LEMMA InitSingle == Init => SingleInv
BY SubSeqEmpty DEF Init, SingleInv, SnapshotTrue, Intact, NoSnapshot

\* The invariant of a single activation without store faults.
LEMMA SingleInvariance ==
    ASSUME OneActivation, NoStoreFaults
    PROVE  Spec => [](IInv /\ DurableInv /\ OneBatchPending /\ SingleInv)
<1>1. Init => DurableInv /\ OneBatchPending /\ SingleInv
  BY InitDurable, InitPending, InitSingle
<1>2. /\ IInv /\ DurableInv /\ OneBatchPending /\ SingleInv
      /\ [Next]_vars
      => (DurableInv /\ OneBatchPending /\ SingleInv)'
  BY DurableStep, PendingStep, SingleStep DEF IInv
<1> QED BY <1>1, <1>2, Invariance, PTL DEF Spec

\* With one activation, an append that throws only conflicts, and crashes or
\* failed publications at any await, what an activation started now would restore
\* is the whole committed history (ReplayAsync, PersistSnapshotAsync).
THEOREM HistoryIsRecoverable ==
    ASSUME OneActivation, NoStoreFaults
    PROVE  Spec => []Recoverable
<1>1. IInv /\ SingleInv => Recoverable
  BY ReplayFromSnapshot DEF IInv, SingleInv, Recoverable
<1> QED BY <1>1, SingleInvariance, PTL

\* Under the same assumptions the online state between two commands is the fold of
\* the stream up to the activation's version (PersistDomainEventsAsync).
THEOREM OnlineStateIsReplay ==
    ASSUME OneActivation, NoStoreFaults
    PROVE  Spec => []ReplayHomomorphism
<1>1. IInv /\ SingleInv => ReplayHomomorphism
  <2> SUFFICES ASSUME IInv, SingleInv, NEW a \in Activations, pc[a] = "idle"
               PROVE  ver[a] <= version /\ state[a] = SubSeq(committed, 1, ver[a])
    BY DEF ReplayHomomorphism
  <2>1. ver[a] = version /\ state[a] = committed
    BY DEF SingleInv, Intact
  <2>2. version = Len(committed) /\ committed \in Seq(Events) /\ version \in Nat
    BY DEF IInv, TypeOK, StreamIntegrity
  <2> QED BY <2>1, <2>2, SubSeqFull
<1> QED BY <1>1, SingleInvariance, PTL

-----------------------------------------------------------------------------
(* Each command is in one place                                            *)

\* A command is queued or handled by one activation, and never both.
OneHolder ==
    /\ \A a \in Activations : cmd[a] \notin inbox
    /\ \A a, b \in Activations : cmd[a] = cmd[b] /\ cmd[a] # NoCommand => a = b

\* A step leaves the handlers of the other activations alone.
LEMMA StepIsLocal ==
    ASSUME TypeOK, NEW a \in Activations, Step(a)
    PROVE  OthersStay(a)
<1>1. /\ pc \in [Activations -> Phases] /\ cmd \in [Activations -> Commands \cup {NoCommand}]
      /\ pending \in [Activations -> Seq(Events)]
  BY DEF TypeOK
<1>2. CASE Activate(a) \/ Replay(a) \/ CollectBroken(a)
  BY <1>1, <1>2 DEF OthersStay, Activate, Replay, ReadEvents, ProbeOnActivation,
                    ProbeOnConflict, CollectBroken, Forget
<1>3. CASE \E c \in Commands : Handle(a, c) \/ DropEnvelope(a, c)
  BY <1>1, <1>3 DEF OthersStay, Handle, DropEnvelope
<1>4. CASE Append_(a)
  BY <1>1, <1>4 DEF OthersStay, Append_, AppendAccepted, AppendRejected, AppendThrows
<1>5. CASE Resume(a)
  BY <1>1, <1>5 DEF OthersStay, Resume, CommandCommitted, CommandRejected, CommandFailed,
                    FlushCommitted, FlushFailed, FinishDeactivation, Forget
<1>6. CASE Deactivate(a) \/ RunOnIdle(a) \/ Crash(a)
  BY <1>1, <1>6 DEF OthersStay, Deactivate, RunOnIdle, Crash, Forget
<1> QED BY <1>2, <1>3, <1>4, <1>5, <1>6 DEF Step

\* Every step keeps each command in one place: a retry or a redelivery puts it
\* back into the queue only as its handler lets go of it.
LEMMA HolderStep ==
    ASSUME TypeOK, OneHolder, [Next]_vars
    PROVE  OneHolder'
<1>1. CASE UNCHANGED vars
  BY <1>1 DEF vars, OneHolder
<1>2. ASSUME NEW a \in Activations, Step(a)
      PROVE  OneHolder'
  <2>1. /\ cmd \in [Activations -> Commands \cup {NoCommand}] /\ inbox \subseteq Commands
        /\ NoCommand \notin Commands
    BY ConstantsAssumption DEF TypeOK
  <2>2. \A b \in Activations \ {a} : cmd'[b] = cmd[b]
    BY <1>2, StepIsLocal DEF OthersStay
  <2>3. CASE cmd'[a] = cmd[a] /\ inbox' \subseteq inbox
    BY <2>1, <2>2, <2>3 DEF OneHolder
  <2>4. CASE cmd'[a] = NoCommand /\ inbox' \subseteq inbox \cup {cmd[a]} /\ inbox' \subseteq Commands
    BY <2>1, <2>2, <2>4 DEF OneHolder
  <2>5. ASSUME NEW c \in Commands, Handle(a, c)
        PROVE  OneHolder'
    <3>1. c \in inbox /\ inbox' = inbox \ {c} /\ cmd'[a] = c
      BY <2>1, <2>5 DEF Handle
    <3> QED BY <2>1, <2>2, <3>1 DEF OneHolder
  <2>6. CASE Activate(a) \/ ReadEvents(a) \/ ProbeOnActivation(a)
    BY <2>3, <2>6 DEF Activate, ReadEvents, ProbeOnActivation
  <2>7. CASE ProbeOnConflict(a) \/ CommandCommitted(a) \/ CommandFailed(a)
    <3>1. HandlerReturned(a) \/ HandlerFailed(a)
      BY <2>7 DEF ProbeOnConflict, CommandCommitted, CommandFailed
    <3>2. cmd'[a] = NoCommand /\ cmd[a] \in Commands
      BY <2>1, <2>7 DEF ProbeOnConflict, CommandCommitted, CommandFailed
    <3>3. inbox' \subseteq inbox \cup {cmd[a]}
      BY <3>1 DEF HandlerReturned, HandlerFailed
    <3> QED BY <2>1, <2>4, <3>2, <3>3
  <2>8. CASE CommandRejected(a)
    <3>1. cmd[a] \in Commands
      BY <2>1, <2>8 DEF CommandRejected
    <3>2. CASE UNCHANGED cmd /\ UNCHANGED inbox
      BY <2>3, <3>2
    <3>3. CASE HandlerFailed(a) /\ cmd' = [cmd EXCEPT ![a] = NoCommand]
      BY <2>1, <2>4, <3>1, <3>3 DEF HandlerFailed
    <3> QED BY <2>8, <3>2, <3>3 DEF CommandRejected
  <2>9. CASE CollectBroken(a) \/ FlushFailed(a) \/ FinishDeactivation(a)
    BY <2>1, <2>4, <2>9 DEF CollectBroken, FlushFailed, FinishDeactivation, Forget
  <2>10. CASE Crash(a)
    <3>1. cmd'[a] = NoCommand /\ inbox' \subseteq inbox \cup {cmd[a]} /\ inbox' \subseteq Commands
      BY <2>1, <2>10 DEF Crash, Forget
    <3> QED BY <2>4, <3>1
  <2>11. ASSUME NEW c \in Commands, DropEnvelope(a, c)
         PROVE  OneHolder'
    BY <2>3, <2>11 DEF DropEnvelope
  <2>12. CASE Append_(a)
    BY <2>3, <2>12 DEF Append_, AppendAccepted, AppendRejected, AppendThrows
  <2>13. CASE FlushCommitted(a) \/ Deactivate(a) \/ RunOnIdle(a)
    BY <2>3, <2>13 DEF FlushCommitted, Deactivate, RunOnIdle
  <2> QED BY <1>2, <2>5, <2>6, <2>7, <2>8, <2>9, <2>10, <2>11, <2>12, <2>13
          DEF Step, Replay, Resume
<1> QED BY <1>1, <1>2 DEF Next

\* All commands are queued to begin with.
LEMMA InitHolder == Init => OneHolder
BY ConstantsAssumption DEF Init, OneHolder

-----------------------------------------------------------------------------
(* What a step does to the queue and to the handlers at work               *)

\* A command is still to be handled.
Held(c) == c \in inbox \/ \E a \in Activations : cmd[a] = c /\ pc[a] # "committed"

\* The activations other than a that are still to commit c.
HeldByOthers(a, c) == \E b \in Activations \ {a} : cmd[b] = c /\ pc[b] # "committed"

\* Every command but c is held as before.
OthersHeld(c) == \A d \in Commands \ {c} : Held(d)' <=> Held(d)

AllHeld == \A d \in Commands : Held(d)' <=> Held(d)

\* Who holds a command, seen from one activation.
LEMMA HeldFrom ==
    ASSUME NEW a \in Activations
    PROVE  \A c : Held(c) <=> \/ c \in inbox
                              \/ cmd[a] = c /\ pc[a] # "committed"
                              \/ HeldByOthers(a, c)
BY DEF Held, HeldByOthers

\* What the other activations hold does not change, and what a command's own
\* activation or the queue holds, they do not.
LEMMA OthersKeep ==
    ASSUME TypeOK, OneHolder, NEW a \in Activations, Step(a)
    PROVE  /\ \A c \in Commands : HeldByOthers(a, c)' <=> HeldByOthers(a, c)
           /\ \A c \in Commands : c \in inbox \/ cmd[a] = c => ~HeldByOthers(a, c)
           /\ \A c \in Commands : Held(c) <=> \/ c \in inbox
                                              \/ cmd[a] = c /\ pc[a] # "committed"
                                              \/ HeldByOthers(a, c)
           /\ \A c \in Commands : Held(c)' <=> \/ c \in inbox'
                                               \/ cmd'[a] = c /\ pc'[a] # "committed"
                                               \/ HeldByOthers(a, c)'
<1>1. OthersStay(a)
  BY StepIsLocal
<1>2. \A c \in Commands : HeldByOthers(a, c)' <=> HeldByOthers(a, c)
  BY <1>1 DEF OthersStay, HeldByOthers
<1>3. ASSUME NEW c \in Commands, c \in inbox \/ cmd[a] = c
      PROVE  ~HeldByOthers(a, c)
  BY <1>3, ConstantsAssumption DEF OneHolder, HeldByOthers
<1> QED BY <1>2, <1>3 DEF Held, HeldByOthers

\* The four ways a step treats commands: it moves one along, lets one go, answers
\* one whose batch is in the history, or breaks off the one at work.
MovesOn == AllHeld /\ acked' = acked /\ crashes' = crashes

LetsGo(c) == /\ OthersHeld(c) /\ ~Held(c)'
             /\ acked' \ Absorbing = acked \ Absorbing
             /\ crashes' = crashes

Answers(c) == /\ AllHeld /\ Occurrences(c) # {}
              /\ acked' = acked \cup {c} /\ crashes' = crashes

BreaksOff == /\ AllHeld \/ \E c \in Commands : OthersHeld(c)
             /\ acked' = acked /\ crashes < MaxCrashes /\ crashes' = crashes + 1

\* An accepted append commits the batch of a command that was held, and lets go of
\* the command (AppendAsync).
LEMMA CommitEffect ==
    ASSUME TypeOK, OneHolder, OneBatchPending, NEW a \in Activations, AppendAccepted(a)
    PROVE  \E c \in Commands : /\ Held(c) /\ LetsGo(c) /\ acked' = acked
                               /\ committed' = committed \o Batch[c]
<1>1. Step(a)
  BY DEF Step, Append_
<1>2. PICK c \in Commands : c = cmd[a]
  BY DEF TypeOK, OneBatchPending, PendingFacts, AppendAccepted
<1>3. /\ pending[a] = Batch[c] /\ c \notin inbox /\ pc \in [Activations -> Phases]
      /\ pc[a] = "appending"
  BY <1>2 DEF TypeOK, OneBatchPending, PendingFacts, AppendAccepted, OneHolder
<1>4. UNCHANGED <<cmd, inbox, acked, crashes>> /\ pc'[a] = "committed"
  BY <1>3 DEF AppendAccepted
<1>5. Held(c) /\ ~Held(c)' /\ OthersHeld(c)
  BY <1>1, <1>2, <1>3, <1>4, OthersKeep DEF OthersHeld
<1>6. committed' = committed \o Batch[c]
  BY <1>3 DEF AppendAccepted
<1> QED BY <1>4, <1>5, <1>6 DEF LetsGo

\* Every other step moves a command on, lets one go, answers one or breaks one off.
LEMMA OtherEffects ==
    ASSUME NoStoreFaults, ~PublishMayFail,
           TypeOK, OneHolder, DurableInv, OneBatchPending,
           NEW a \in Activations, Step(a), ~AppendAccepted(a)
    PROVE  \/ MovesOn
           \/ \E c \in Commands : LetsGo(c) \/ Answers(c)
           \/ BreaksOff
<1>1. /\ cmd \in [Activations -> Commands \cup {NoCommand}] /\ inbox \subseteq Commands
      /\ NoCommand \notin Commands /\ pc \in [Activations -> Phases]
      /\ cmd[a] \notin inbox /\ PendingFacts(a)
  BY ConstantsAssumption DEF TypeOK, OneHolder, OneBatchPending
<1>2. /\ pc[a] \in {"down", "idle", "saving", "broken"} => cmd[a] = NoCommand
      /\ pc[a] \in {"loading", "replayed"} => cmd[a] \in Absorbing \cup {NoCommand}
      /\ pc[a] = "committed" /\ cmd[a] # NoCommand => Occurrences(cmd[a]) # {}
  BY DEF DurableInv, IdleHandlesNothing, AbsorbingReplays, CommitRecorded
<1>3. /\ \A c \in Commands : HeldByOthers(a, c)' <=> HeldByOthers(a, c)
      /\ \A c \in Commands : c \in inbox \/ cmd[a] = c => ~HeldByOthers(a, c)
      /\ \A c \in Commands : Held(c) <=> \/ c \in inbox
                                         \/ cmd[a] = c /\ pc[a] # "committed"
                                         \/ HeldByOthers(a, c)
      /\ \A c \in Commands : Held(c)' <=> \/ c \in inbox'
                                          \/ cmd'[a] = c /\ pc'[a] # "committed"
                                          \/ HeldByOthers(a, c)'
  BY OthersKeep
\* The queue and the command of a stay, and a neither enters nor leaves a commit.
<1>4. ASSUME inbox' = inbox, cmd'[a] = cmd[a],
             cmd[a] # NoCommand => pc[a] # "committed" /\ pc'[a] # "committed",
             acked' = acked, crashes' = crashes
      PROVE  MovesOn
  BY <1>1, <1>3, <1>4 DEF MovesOn, AllHeld
\* The handler of a failed, and the runtime retries or drops its command.
<1>5. ASSUME NEW c \in Commands, c = cmd[a], HandlerFailed(a),
             cmd'[a] = NoCommand, pc[a] # "committed"
      PROVE  MovesOn \/ LetsGo(c)
  <2>1. CASE inbox' = inbox \cup {c}
    BY <1>1, <1>3, <1>5, <2>1 DEF MovesOn, AllHeld, HandlerFailed
  <2>2. CASE inbox' = inbox
    BY <1>1, <1>3, <1>5, <2>2 DEF LetsGo, OthersHeld, HandlerFailed
  <2> QED BY <1>5, <2>1, <2>2 DEF HandlerFailed
<1>6. CASE Activate(a) \/ ReadEvents(a) \/ ProbeOnActivation(a)
  BY <1>1, <1>4, <1>6 DEF Activate, ReadEvents, ProbeOnActivation
<1>7. CASE ProbeOnConflict(a)
  <2>1. PICK c \in Commands : c = cmd[a] /\ c \in Absorbing
    BY <1>1, <1>2, <1>7 DEF ProbeOnConflict
  <2>2. cmd'[a] = NoCommand /\ pc[a] # "committed"
    BY <1>1, <1>7 DEF ProbeOnConflict
  <2>3. CASE HandlerFailed(a)
    BY <1>5, <2>1, <2>2, <2>3
  <2>4. CASE HandlerReturned(a)
    BY <1>1, <1>3, <2>1, <2>2, <2>4 DEF LetsGo, OthersHeld, HandlerReturned
  <2> QED BY <1>7, <2>3, <2>4 DEF ProbeOnConflict
<1>8. CASE CollectBroken(a) \/ FlushFailed(a) \/ FinishDeactivation(a)
  <2>1. cmd[a] = NoCommand
    BY <1>2, <1>8 DEF CollectBroken, FlushFailed, FinishDeactivation
  <2> QED BY <1>1, <1>4, <1>8, <2>1 DEF CollectBroken, FlushFailed, FinishDeactivation, Forget
<1>9. ASSUME NEW c \in Commands, Handle(a, c)
      PROVE  MovesOn
  <2>1. /\ c \in inbox /\ inbox' = inbox \ {c} /\ cmd'[a] = c /\ pc'[a] = "appending"
        /\ cmd[a] = NoCommand /\ acked' = acked /\ crashes' = crashes
    BY <1>1, <1>2, <1>9 DEF Handle
  <2> QED BY <1>1, <1>3, <2>1 DEF MovesOn, AllHeld
<1>10. ASSUME NEW c \in Commands, DropEnvelope(a, c)
       PROVE  LetsGo(c)
  <2>1. /\ c \in inbox /\ inbox' = inbox \ {c} /\ UNCHANGED <<cmd, pc, acked, crashes>>
    BY <1>10 DEF DropEnvelope
  <2> QED BY <1>1, <1>3, <2>1 DEF LetsGo, OthersHeld
<1>11. CASE AppendRejected(a) \/ AppendThrows(a)
  BY <1>1, <1>4, <1>11 DEF AppendRejected, AppendThrows, NoStoreFaults
<1>12. CASE CommandCommitted(a)
  <2>1. PICK c \in Commands : c = cmd[a]
    BY <1>1, <1>12 DEF CommandCommitted
  <2>2. /\ pc[a] = "committed" /\ cmd'[a] = NoCommand /\ HandlerReturned(a)
        /\ Occurrences(c) # {}
    BY <1>1, <1>2, <1>12, <2>1 DEF CommandCommitted
  <2>3. acked' = acked \cup {c} /\ UNCHANGED <<inbox, crashes>>
    BY <2>1, <2>2 DEF HandlerReturned
  <2>4. AllHeld
    BY <1>1, <1>3, <2>1, <2>2, <2>3 DEF AllHeld
  <2> QED BY <2>2, <2>3, <2>4 DEF Answers
<1>13. CASE CommandRejected(a) \/ CommandFailed(a)
  <2>1. PICK c \in Commands : c = cmd[a]
    BY <1>1, <1>13 DEF CommandRejected, CommandFailed
  <2>2. pc[a] \in {"rejected", "error"}
    BY <1>13 DEF CommandRejected, CommandFailed
  <2>3. CASE HandlerFailed(a) /\ cmd' = [cmd EXCEPT ![a] = NoCommand]
    BY <1>1, <1>5, <2>1, <2>2, <2>3
  <2>4. CASE /\ pc' = [pc EXCEPT ![a] = "loading"]
             /\ UNCHANGED <<cmd, boxVars>>
    BY <1>1, <1>4, <2>2, <2>4
  <2> QED BY <1>13, <2>3, <2>4 DEF CommandRejected, CommandFailed
<1>14. CASE FlushCommitted(a) \/ Deactivate(a)
  <2>1. cmd[a] = NoCommand /\ UNCHANGED <<cmd, boxVars>>
    BY <1>2, <1>14 DEF FlushCommitted, Deactivate
  <2> QED BY <1>4, <2>1
<1>15. CASE RunOnIdle(a)
  <2>1. UNCHANGED <<cmd, boxVars, pc>>
    BY <1>15 DEF RunOnIdle
  <2> QED BY <1>3, <2>1 DEF MovesOn, AllHeld
<1>16. CASE Crash(a)
  <2>1. /\ acked' = acked /\ crashes < MaxCrashes /\ crashes' = crashes + 1
        /\ cmd'[a] = NoCommand
        /\ inbox' = inbox \/ (cmd[a] # NoCommand /\ inbox' = inbox \cup {cmd[a]})
    BY <1>1, <1>16 DEF Crash, Forget
  <2>2. CASE cmd[a] = NoCommand
    BY <1>1, <1>3, <2>1, <2>2 DEF BreaksOff, AllHeld
  <2>3. CASE cmd[a] # NoCommand
    <3>1. PICK c \in Commands : c = cmd[a]
      BY <1>1, <2>3
    <3>2. OthersHeld(c)
      BY <1>1, <1>3, <2>1, <3>1 DEF OthersHeld
    <3> QED BY <2>1, <3>2 DEF BreaksOff
  <2> QED BY <2>2, <2>3
<1> QED BY <1>6, <1>7, <1>8, <1>9, <1>10, <1>11, <1>12, <1>13, <1>14, <1>15, <1>16
        DEF Step, Replay, Append_, Resume

\* What both results below rest on, whatever the number of activations.
SharedInv == IInv /\ DurableInv /\ OneBatchPending /\ OneHolder

\* It is invariant while appends throw nothing but conflicts.
LEMMA SharedInvariance ==
    ASSUME NoStoreFaults
    PROVE  Spec => []SharedInv
<1>1. Init => SharedInv
  BY InitIInv, InitDurable, InitPending, InitHolder DEF SharedInv
<1>2. SharedInv /\ [Next]_vars => SharedInv'
  BY StepIInv, DurableStep, PendingStep, HolderStep DEF SharedInv, IInv
<1> QED BY <1>1, <1>2, PTL DEF Spec

\* An accepted append adds the one occurrence of its command.
LEMMA CommitOccurrence ==
    ASSUME DistinctEvents, TypeOK, NEW c \in Commands, committed' = committed \o Batch[c],
           NEW d \in Commands
    PROVE  /\ Occurrences(d)' = Occurrences(d) \cup (IF d = c THEN {Len(committed)} ELSE {})
           /\ Len(committed) \notin Occurrences(d) /\ IsFiniteSet(Occurrences(d))
<1>1. committed \in Seq(Events)
  BY DEF TypeOK
<1>2. OccurrencesIn(d, committed')
          = OccurrencesIn(d, committed) \cup (IF d = c THEN {Len(committed)} ELSE {})
  BY <1>1, OneNewOccurrence
<1>3. /\ Len(committed) \notin OccurrencesIn(d, committed)
      /\ IsFiniteSet(OccurrencesIn(d, committed))
  BY <1>1, NoneAtEnd
<1>4. /\ Occurrences(d)' = OccurrencesIn(d, committed')
      /\ Occurrences(d) = OccurrencesIn(d, committed)
  BY DEF Occurrences, OccurrencesIn
<1> QED BY <1>2, <1>3, <1>4

\* The history changes by an accepted append only.
LEMMA OtherOccurrences ==
    ASSUME TypeOK, NEW a \in Activations, Step(a), ~AppendAccepted(a), NEW d \in Commands
    PROVE  Occurrences(d)' = Occurrences(d) /\ committed' = committed
<1>1. committed' = committed
  BY DEF Step, Replay, Append_, Resume, Activate, ReadEvents,
         ProbeOnActivation, ProbeOnConflict, CollectBroken, Handle,
         DropEnvelope, AppendRejected, AppendThrows, CommandCommitted,
         CommandRejected, CommandFailed, FlushCommitted, FlushFailed,
         FinishDeactivation, Deactivate, RunOnIdle, Crash
<1> QED BY <1>1 DEF Occurrences

-----------------------------------------------------------------------------
(* Without crashes and failed publications, a batch is committed once      *)

\* A command that is still to be handled is not in the history, and no command is
\* in it twice.
NotYetCommitted ==
    \A c \in Commands : /\ Held(c) => Occurrences(c) = {}
                        /\ \A i, j \in Occurrences(c) : i = j

\* Every step keeps it: a commit lets go of its command.
LEMMA OnceStep ==
    ASSUME NoStoreFaults, ~PublishMayFail, MaxCrashes = 0, DistinctEvents,
           SharedInv, NotYetCommitted, [Next]_vars
    PROVE  NotYetCommitted'
<1>0. TypeOK /\ OneHolder /\ DurableInv /\ OneBatchPending
  BY DEF SharedInv, IInv
<1>1. CASE UNCHANGED vars
  BY <1>1 DEF NotYetCommitted, Held, Occurrences, vars
<1>2. ASSUME NEW a \in Activations, AppendAccepted(a)
      PROVE  NotYetCommitted'
  <2>1. PICK c \in Commands : /\ Held(c) /\ LetsGo(c) /\ acked' = acked
                              /\ committed' = committed \o Batch[c]
    BY <1>0, <1>2, CommitEffect
  <2>2. \A d \in Commands :
            Occurrences(d)' = Occurrences(d) \cup (IF d = c THEN {Len(committed)} ELSE {})
    BY <1>0, <2>1, CommitOccurrence
  <2>3. Occurrences(c) = {}
    BY <2>1 DEF NotYetCommitted
  <2> SUFFICES ASSUME NEW d \in Commands
               PROVE  /\ Held(d)' => Occurrences(d)' = {}
                      /\ \A i, j \in Occurrences(d)' : i = j
    BY DEF NotYetCommitted
  <2>4. CASE d = c
    BY <2>1, <2>2, <2>3, <2>4 DEF LetsGo
  <2>5. CASE d # c
    <3>1. (Held(d)' <=> Held(d)) /\ Occurrences(d)' = Occurrences(d)
      BY <2>1, <2>2, <2>5 DEF LetsGo, OthersHeld
    <3> QED BY <3>1 DEF NotYetCommitted
  <2> QED BY <2>4, <2>5
<1>3. ASSUME NEW a \in Activations, Step(a), ~AppendAccepted(a)
      PROVE  NotYetCommitted'
  <2>1. \A d \in Commands : Held(d)' => Held(d)
    <3>1. crashes \in 0 .. 0
      BY <1>0 DEF TypeOK
    <3>2. ~BreaksOff
      BY <3>1 DEF BreaksOff
    <3>3. \/ MovesOn
          \/ \E c \in Commands : LetsGo(c) \/ Answers(c)
      BY <1>0, <1>3, <3>2, OtherEffects
    <3> QED BY <3>3 DEF MovesOn, LetsGo, Answers, AllHeld, OthersHeld
  <2>2. \A d \in Commands : Occurrences(d)' = Occurrences(d)
    BY <1>0, <1>3, OtherOccurrences
  <2> QED BY <2>1, <2>2 DEF NotYetCommitted
<1> QED BY <1>1, <1>2, <1>3 DEF Next

\* With appends that throw only conflicts, no failed publication and no crash, the
\* events of a command are committed at most once, however many activations race
\* and however often a conflict makes the runtime run the handler again (the OCC
\* branch of ConfirmEventsAsync).
THEOREM CommandsCommitOnce ==
    ASSUME NoStoreFaults, ~PublishMayFail, MaxCrashes = 0, DistinctEvents
    PROVE  Spec => []CommittedOnce
<1>1. Init => NotYetCommitted
  <2> SUFFICES ASSUME Init, NEW c \in Commands PROVE Occurrences(c) = {}
    BY DEF NotYetCommitted
  <2>1. committed = <<>> /\ Len(Batch[c]) \in Nat /\ Len(Batch[c]) >= 1
    BY BatchType DEF Init
  <2> QED BY <2>1 DEF Occurrences
<1>2. SharedInv /\ NotYetCommitted /\ [Next]_vars => NotYetCommitted'
  BY OnceStep
<1>3. NotYetCommitted => CommittedOnce
  <2> SUFFICES ASSUME NotYetCommitted, NEW c \in Commands
               PROVE  Cardinality(Occurrences(c)) <= 1
    BY DEF CommittedOnce
  <2>1. CASE Occurrences(c) = {}
    BY <2>1, FS_EmptySet
  <2>2. CASE Occurrences(c) # {}
    <3>1. PICK i \in Occurrences(c) : TRUE
      BY <2>2
    <3>2. Occurrences(c) = {i}
      BY <3>1 DEF NotYetCommitted
    <3>3. Cardinality({i}) = 1
      BY FS_Singleton
    <3> QED BY <3>2, <3>3
  <2> QED BY <2>1, <2>2
<1> QED BY <1>1, <1>2, <1>3, SharedInvariance, PTL DEF Spec

-----------------------------------------------------------------------------
(* The system implements the journal                                       *)

\* What an accepted append does to the journal: it commits one whole batch.
LEMMA CommitImplements ==
    ASSUME DistinctEvents, SharedInv, NEW a \in Activations, AppendAccepted(a)
    PROVE  \E c \in Commands : ActorJournal!Commit(c)
<1>0. TypeOK /\ OneHolder /\ DurableInv /\ OneBatchPending
  BY DEF SharedInv, IInv
<1>1. PICK c \in Commands : /\ Held(c) /\ LetsGo(c) /\ acked' = acked
                            /\ committed' = committed \o Batch[c]
  BY <1>0, CommitEffect
<1>2. \A d \in Commands :
          /\ Occurrences(d)' = Occurrences(d) \cup (IF d = c THEN {Len(committed)} ELSE {})
          /\ Len(committed) \notin Occurrences(d) /\ IsFiniteSet(Occurrences(d))
  BY <1>0, <1>1, CommitOccurrence
<1> DEFINE count(d) == Cardinality(Occurrences(d))
<1>3. \A d \in Commands : count(d) \in Nat
  BY <1>2, FS_CardinalityType
<1>4. \A d \in Commands : count(d)' = IF d = c THEN count(d) + 1 ELSE count(d)
  <2> SUFFICES ASSUME NEW d \in Commands
               PROVE  count(d)' = IF d = c THEN count(d) + 1 ELSE count(d)
    OBVIOUS
  <2>1. count(d)' = Cardinality(Occurrences(d)')
    OBVIOUS
  <2>2. CASE d = c
    <3>1. Cardinality(Occurrences(d) \cup {Len(committed)}) = Cardinality(Occurrences(d)) + 1
      BY <1>2, FS_AddElement
    <3> QED BY <1>2, <2>1, <2>2, <3>1
  <2>3. CASE d # c
    <3>1. Occurrences(d)' = Occurrences(d)
      BY <1>2, <2>3
    <3> QED BY <2>1, <2>3, <3>1
  <2> QED BY <2>2, <2>3
<1>5. [d \in Commands |-> count(d)]'
          = [[d \in Commands |-> count(d)] EXCEPT ![c] = @ + 1]
  BY <1>4
<1>6. count(c) = 0 \/ Back(c)
  <2>1. CASE Occurrences(c) = {}
    BY <2>1, FS_EmptySet
  <2>2. CASE Occurrences(c) # {}
    BY <1>1, <2>2 DEF Held, Back
  <2> QED BY <2>1, <2>2
<1>7. \A d \in Commands : Back(d) <=> Occurrences(d) # {} /\ Held(d)
  BY DEF Back, Held
<1>8. \A d \in Commands : Back(d)' <=> Occurrences(d)' # {} /\ Held(d)'
  BY DEF Back, Held
<1>9. {d \in Commands : Back(d)}' = {d \in Commands : Back(d)} \ {c}
  <2>1. ASSUME NEW d \in Commands
        PROVE  Back(d)' <=> Back(d) /\ d # c
    <3>1. CASE d = c
      BY <1>1, <1>8, <3>1 DEF LetsGo
    <3>2. CASE d # c
      BY <1>1, <1>2, <1>7, <1>8, <3>2 DEF LetsGo, OthersHeld
    <3> QED BY <3>1, <3>2
  <2> QED BY <2>1
<1>10. UNCHANGED <<crashes, acked \ Absorbing>>
  BY <1>1 DEF LetsGo
<1>11. ActorJournal!Commit(c)
  BY <1>1, <1>5, <1>6, <1>9, <1>10 DEF ActorJournal!Commit
<1> QED BY <1>11

\* What any other step does to the journal: an answer, a dropped envelope, a
\* restart, or nothing.
LEMMA OthersImplement ==
    ASSUME NoStoreFaults, ~PublishMayFail, SharedInv,
           NEW a \in Activations, Step(a), ~AppendAccepted(a)
    PROVE  [ActorJournal!Next]_<<committed, [c \in Commands |-> Cardinality(Occurrences(c))],
                                {c \in Commands : Back(c)}, crashes, acked \ Absorbing>>
<1>0. TypeOK /\ OneHolder /\ DurableInv /\ OneBatchPending
  BY DEF SharedInv, IInv
<1> DEFINE count(d) == Cardinality(Occurrences(d))
           commits == [d \in Commands |-> count(d)]
           again == {d \in Commands : Back(d)}
           answered == acked \ Absorbing
<1>1. committed' = committed
  BY <1>0, OtherOccurrences DEF Step, Replay, Append_, Resume, Activate, ReadEvents,
         ProbeOnActivation, ProbeOnConflict, CollectBroken, Handle,
         DropEnvelope, AppendRejected, AppendThrows, CommandCommitted,
         CommandRejected, CommandFailed, FlushCommitted, FlushFailed,
         FinishDeactivation, Deactivate, RunOnIdle, Crash
<1>2. \A d \in Commands : Occurrences(d)' = Occurrences(d)
  BY <1>0, OtherOccurrences
<1>3. commits' = commits
  BY <1>2
<1>4. \A d \in Commands : Occurrences(d) # {} => commits[d] > 0
  <2> SUFFICES ASSUME NEW d \in Commands, Occurrences(d) # {} PROVE commits[d] > 0
    OBVIOUS
  <2>1. IsFiniteSet(Occurrences(d))
    <3>1. committed \in Seq(Events)
      BY <1>0 DEF TypeOK
    <3> QED BY <3>1, NoneAtEnd DEF Occurrences, OccurrencesIn
  <2> QED BY <2>1, FS_CardinalityType, FS_EmptySet
<1>5. \A d \in Commands : Back(d) <=> Occurrences(d) # {} /\ Held(d)
  BY DEF Back, Held
<1>6. \A d \in Commands : Back(d)' <=> Occurrences(d) # {} /\ Held(d)'
  BY <1>2 DEF Back, Held
<1>7. ASSUME AllHeld
      PROVE  again' = again
  BY <1>5, <1>6, <1>7 DEF AllHeld
<1>8. ASSUME NEW c \in Commands, OthersHeld(c), ~Held(c)'
      PROVE  again' = again \ {c}
  <2>1. ASSUME NEW d \in Commands
        PROVE  Back(d)' <=> Back(d) /\ d # c
    BY <1>5, <1>6, <1>8 DEF OthersHeld
  <2> QED BY <2>1
<1>9. ASSUME NEW c \in Commands, OthersHeld(c), Held(c)'
      PROVE  again' = again \/ (again' = again \cup {c} /\ commits[c] > 0)
  <2>1. CASE Occurrences(c) = {}
    <3>1. ASSUME NEW d \in Commands
          PROVE  Back(d)' <=> Back(d)
      <4>1. CASE d = c
        BY <1>5, <1>6, <2>1, <4>1
      <4>2. CASE d # c
        BY <1>5, <1>6, <1>9, <4>2 DEF OthersHeld
      <4> QED BY <4>1, <4>2
    <3>2. again' = again
      BY <3>1
    <3> QED BY <3>2
  <2>2. CASE Occurrences(c) # {}
    <3>1. ASSUME NEW d \in Commands
          PROVE  Back(d)' <=> Back(d) \/ d = c
      <4>1. CASE d = c
        BY <1>6, <1>9, <2>2, <4>1
      <4>2. CASE d # c
        BY <1>5, <1>6, <1>9, <4>2 DEF OthersHeld
      <4> QED BY <4>1, <4>2
    <3> QED BY <1>4, <2>2, <3>1
  <2> QED BY <2>1, <2>2
<1> HIDE DEF commits, again, answered
<1>10. CASE MovesOn
  <2>1. /\ again' = again /\ answered' = answered /\ crashes' = crashes
    BY <1>7, <1>10 DEF MovesOn, answered
  <2> QED BY <1>1, <1>3, <2>1 DEF commits, again, answered
<1>11. ASSUME NEW c \in Commands, LetsGo(c)
       PROVE  ActorJournal!Next
  <2>1. /\ again' = again \ {c} /\ answered' = answered /\ crashes' = crashes
    BY <1>8, <1>11 DEF LetsGo, answered
  <2>2. ActorJournal!GiveUp(c)
    BY <1>1, <1>3, <2>1 DEF ActorJournal!GiveUp, commits, again, answered
  <2> QED BY <2>2 DEF ActorJournal!Next
<1>12. ASSUME NEW c \in Commands, Answers(c)
       PROVE  \/ ActorJournal!Next
              \/ again' = again /\ answered' = answered /\ crashes' = crashes
  <2>1. /\ again' = again /\ crashes' = crashes /\ acked' = acked \cup {c} /\ commits[c] > 0
    BY <1>4, <1>7, <1>12 DEF Answers
  <2>2. CASE c \in Absorbing
    BY <2>1, <2>2 DEF answered
  <2>3. CASE c \notin Absorbing
    <3>1. answered' = answered \cup {c}
      BY <2>1, <2>3 DEF answered
    <3>2. ActorJournal!Answer(c)
      BY <1>1, <1>3, <2>1, <3>1 DEF ActorJournal!Answer, commits, again, answered
    <3> QED BY <3>2 DEF ActorJournal!Next
  <2> QED BY <2>2, <2>3
<1>13. CASE BreaksOff
  <2>1. /\ \/ again' = again
           \/ \E c \in Commands : again' = again \ {c}
           \/ \E c \in Commands : commits[c] > 0 /\ again' = again \cup {c}
    BY <1>7, <1>8, <1>9, <1>13 DEF BreaksOff
  <2>2. crashes' = crashes + 1 /\ answered' = answered
    BY <1>13 DEF BreaksOff, answered
  <2>3. ActorJournal!Restart
    BY <1>1, <1>3, <2>1, <2>2 DEF ActorJournal!Restart, commits, again, answered
  <2> QED BY <2>3 DEF ActorJournal!Next
<1> QED BY <1>0, <1>1, <1>3, <1>10, <1>11, <1>12, <1>13, OtherEffects DEF commits, again, answered

\* With appends that throw only conflicts and no failed publication, any number of
\* racing activations, conflicts, retries and crashes at any await implement the
\* journal: a command commits as one batch behind everything before it, once and
\* once more only for an envelope that a restart brought back, and is answered
\* only after its commit (HandleEnvelopeAsyncCore, ConfirmEventsAsync,
\* PersistDomainEventsAsync).
THEOREM JournalImplemented ==
    ASSUME NoStoreFaults, ~PublishMayFail, DistinctEvents
    PROVE  Spec => ImplementsJournal
<1>1. Init => ActorJournal!Init
  <2> SUFFICES ASSUME Init PROVE ActorJournal!Init
    OBVIOUS
  <2>1. \A c \in Commands : Occurrences(c) = {}
    <3> SUFFICES ASSUME NEW c \in Commands PROVE Occurrences(c) = {}
      OBVIOUS
    <3>1. committed = <<>> /\ Len(Batch[c]) \in Nat /\ Len(Batch[c]) >= 1
      BY BatchType DEF Init
    <3> QED BY <3>1 DEF Occurrences
  <2>2. [c \in Commands |-> Cardinality(Occurrences(c))] = [c \in Commands |-> 0]
    BY <2>1, FS_EmptySet
  <2>3. {c \in Commands : Back(c)} = {}
    BY <2>1 DEF Back
  <2> QED BY <2>2, <2>3 DEF Init, ActorJournal!Init
<1>2. SharedInv /\ [Next]_vars
      => [ActorJournal!Next]_<<committed, [c \in Commands |-> Cardinality(Occurrences(c))],
                              {c \in Commands : Back(c)}, crashes, acked \ Absorbing>>
  <2> SUFFICES ASSUME SharedInv, [Next]_vars
               PROVE  [ActorJournal!Next]_<<committed, [c \in Commands |-> Cardinality(Occurrences(c))],
                              {c \in Commands : Back(c)}, crashes, acked \ Absorbing>>
    OBVIOUS
  <2>1. CASE UNCHANGED vars
    BY <2>1 DEF vars, Occurrences, Back
  <2>2. ASSUME NEW a \in Activations, AppendAccepted(a)
        PROVE  ActorJournal!Next
    BY <2>2, CommitImplements DEF ActorJournal!Next
  <2> QED BY <2>1, <2>2, OthersImplement DEF Next
<1> QED BY <1>1, <1>2, SharedInvariance, PTL DEF Spec, ImplementsJournal, ActorJournal!Spec

=============================================================================
