-------------------------- MODULE ProjectionProofs --------------------------
(***************************************************************************)
(* Proofs about Projection for any number of workers and of rebuilds,      *)
(* batches of any size and a match of any length.                          *)
(***************************************************************************)
EXTENDS Projection, SequenceTheorems, FiniteSetTheorems, TLAPS

\* A snapshot that shows events is the match as it was after them, and they are
\* among the first so many.
Authentic(snapshot, latest) ==
    snapshot.sequence > 0 =>
        /\ snapshot.status = "LIVE"
        /\ snapshot.score = snapshot.sequence
        /\ snapshot.sequence <= latest

SourceFits ==
    /\ source \in Snapshots
    /\ source.score = source.sequence
    /\ source.sequence > 0 => source.status = "LIVE"

\* The creation of the match comes first, and only there.
LogFits(log) ==
    /\ log \in Seq(Rows) /\ Len(log) > 0
    /\ \A n \in 1 .. Len(log) : /\ log[n].type = "match.created.v1" <=> n = 1
                                /\ n = 1 => log[n].snapshot.sequence = 0

OutboxFits == LogFits(outbox)

QueueFits ==
    /\ sent \subseteq Messages /\ IsFiniteSet(sent)
    /\ queue \subseteq sent /\ inbox \subseteq sent
    /\ \A m \in sent : m.position \in 1 .. Len(outbox)

WorkersFit ==
    /\ DOMAIN batch = Workers /\ DOMAIN done = Workers
    /\ \A w \in Workers : batch[w] \in Seq(sent) /\ done[w] \in 0 .. Len(batch[w])

RowFits == row \in Snapshots \union {None} /\ (row # None => Authentic(row, source.sequence))

RebuildsFit ==
    /\ rebuild \in [Rebuilders -> Snapshots \union {None}]
    /\ \A o \in Rebuilders : rebuild[o] # None => Authentic(rebuild[o], source.sequence)

ProjectionInvariant ==
    /\ SourceFits /\ OutboxFits /\ QueueFits /\ WorkersFit
    /\ RowFits /\ RebuildsFit

-----------------------------------------------------------------------------
(* The initial state and the write model *)

LEMMA SnapshotType ==
    ASSUME NEW status \in Statuses, NEW sequence \in 0 .. MaxEvents
    PROVE  /\ Snapshot(status, sequence) \in Snapshots
           /\ Snapshot(status, sequence).status = status
           /\ Snapshot(status, sequence).sequence = sequence
           /\ Snapshot(status, sequence).score = sequence
  BY DEF Snapshot, Snapshots

LEMMA ProjectionInit == Init => ProjectionInvariant
<1>. SUFFICES ASSUME Init PROVE ProjectionInvariant
  OBVIOUS
<1>1. /\ source \in Snapshots /\ source.status = "DRAFT"
      /\ source.sequence = 0 /\ source.score = 0
  BY SnapshotType, ProjectionAssumption DEF Init, Statuses
<1>2. SourceFits
  BY <1>1 DEF SourceFits
<1>3. OutboxFits
  <2>. DEFINE entry == [type |-> "match.created.v1", snapshot |-> source]
  <2>1. entry \in Rows /\ entry.type = "match.created.v1" /\ entry.snapshot.sequence = 0
    BY <1>1 DEF Rows
  <2>2. outbox = <<entry>>
    BY DEF Init
  <2>. HIDE DEF entry
  <2>3. outbox \in Seq(Rows) /\ Len(outbox) = 1 /\ outbox[1] = entry
    BY <2>1, <2>2
  <2>. QED  BY <2>1, <2>3 DEF OutboxFits, LogFits
<1>4. QueueFits
  BY FS_EmptySet DEF Init, QueueFits
<1>5. WorkersFit
  BY DEF Init, WorkersFit
<1>6. RowFits /\ RebuildsFit
  BY DEF Init, RowFits, RebuildsFit
<1>. QED  BY <1>2, <1>3, <1>4, <1>5, <1>6 DEF ProjectionInvariant

\* The log grows by an entry that is not a creation.
LEMMA LogGrows ==
    ASSUME NEW log, LogFits(log), NEW e \in Rows, e.type # "match.created.v1"
    PROVE  /\ LogFits(Append(log, e))
           /\ Len(Append(log, e)) = Len(log) + 1 /\ Len(log) \in Nat
<1>. DEFINE after == Append(log, e)
<1>1. /\ log \in Seq(Rows) /\ Len(log) \in Nat /\ Len(log) > 0
      /\ after \in Seq(Rows) /\ Len(after) = Len(log) + 1 /\ after[Len(log) + 1] = e
      /\ \A n \in 1 .. Len(log) : after[n] = log[n]
  BY LenProperties, AppendProperties DEF LogFits
<1>. HIDE DEF after
<1>2. ASSUME NEW n \in 1 .. Len(after)
      PROVE  /\ after[n].type = "match.created.v1" <=> n = 1
             /\ n = 1 => after[n].snapshot.sequence = 0
  <2>1. n = Len(log) + 1 \/ n \in 1 .. Len(log)
    BY <1>1
  <2>. QED  BY <1>1, <2>1 DEF LogFits
<1>3. LogFits(after)
  BY <1>1, <1>2 DEF LogFits
<1>. QED  BY <1>1, <1>3 DEF after

\* What the invariant says of the rest is kept while the match goes on.
LEMMA SourceGrows ==
    ASSUME ProjectionInvariant, SourceFits', OutboxFits', source.sequence <= source'.sequence,
           Len(outbox) <= Len(outbox'), UNCHANGED <<transport, worker, readModel, rebuild>>
    PROVE  ProjectionInvariant'
<1>. USE DEF transport, worker, readModel
<1>1. /\ source.sequence \in Nat /\ source'.sequence \in Nat
      /\ Len(outbox) \in Nat /\ Len(outbox') \in Nat
  BY LenProperties
     DEF ProjectionInvariant, SourceFits, OutboxFits, LogFits, Snapshots
<1>2. QueueFits'
  BY <1>1 DEF ProjectionInvariant, QueueFits
<1>3. WorkersFit'
  BY DEF ProjectionInvariant, WorkersFit
<1>4. ASSUME NEW s \in Snapshots, Authentic(s, source.sequence)
      PROVE  Authentic(s, source'.sequence)
  BY <1>1, <1>4 DEF Authentic, Snapshots
<1>5. RowFits'
  BY <1>4 DEF ProjectionInvariant, RowFits
<1>6. RebuildsFit'
  BY <1>4 DEF ProjectionInvariant, RebuildsFit
<1>. QED  BY <1>2, <1>3, <1>5, <1>6 DEF ProjectionInvariant

LEMMA WriteModelStep ==
    ASSUME ProjectionInvariant,
           MarkReady \/ StartLiveSession \/ (\E type \in EventTypes : RecordEvent(type))
    PROVE  ProjectionInvariant'
<1>1. /\ SourceFits /\ OutboxFits /\ source \in Snapshots
      /\ source.sequence \in Nat /\ source.sequence \in 0 .. MaxEvents
  BY DEF ProjectionInvariant, SourceFits, Snapshots
<1>2. CASE MarkReady
  <2>1. /\ source' \in Snapshots /\ source'.status = "READY"
        /\ source'.sequence = 0 /\ source'.score = 0
    BY <1>2, SnapshotType, ProjectionAssumption DEF MarkReady, Statuses
  <2>2. SourceFits' /\ source.sequence = 0 /\ outbox' = outbox
    BY <1>1, <1>2, <2>1 DEF MarkReady, SourceFits
  <2>3. OutboxFits'
    BY <1>1, <2>1, <2>2 DEF OutboxFits
  <2>4. Len(outbox) \in Nat
    BY <1>1, LenProperties DEF OutboxFits, LogFits
  <2>. QED  BY <1>2, <2>1, <2>2, <2>3, <2>4, SourceGrows DEF MarkReady
<1>3. CASE StartLiveSession
  <2>. DEFINE e == [type |-> "match.status-changed.v1", snapshot |-> source]
  <2>1. /\ source' \in Snapshots /\ source'.status = "LIVE"
        /\ source'.sequence = 0 /\ source'.score = 0
    BY <1>3, SnapshotType, ProjectionAssumption DEF StartLiveSession, Statuses
  <2>2. SourceFits' /\ source.sequence = 0
    BY <1>1, <1>3, <2>1 DEF StartLiveSession, SourceFits
  <2>3. /\ outbox' = Append(outbox, e) /\ e \in Rows
        /\ e.type # "match.created.v1"
    BY <1>1, <1>3 DEF StartLiveSession, Rows, SnapshotTypes
  <2>. HIDE DEF e
  <2>4. /\ LogFits(Append(outbox, e))
        /\ Len(Append(outbox, e)) = Len(outbox) + 1 /\ Len(outbox) \in Nat
    BY <1>1, <2>3, LogGrows DEF OutboxFits
  <2>. QED  BY <1>3, <2>1, <2>2, <2>3, <2>4, SourceGrows DEF StartLiveSession, OutboxFits
<1>4. ASSUME NEW type \in EventTypes, RecordEvent(type) PROVE ProjectionInvariant'
  <2>. DEFINE e == [type |-> type, snapshot |-> source']
  <2>0. source.sequence + 1 \in 0 .. MaxEvents
    BY <1>1, <1>4, ProjectionAssumption DEF RecordEvent
  <2>1. /\ source' \in Snapshots /\ source'.status = "LIVE"
        /\ source'.sequence = source.sequence + 1 /\ source'.score = source.sequence + 1
    BY <1>4, <2>0, SnapshotType DEF RecordEvent, Statuses
  <2>2. SourceFits'
    BY <1>1, <2>1 DEF SourceFits
  <2>3. outbox' = Append(outbox, e) /\ e.type = type /\ e.snapshot = source'
    BY <1>4 DEF RecordEvent
  <2>4. e \in Rows /\ e.type # "match.created.v1"
    BY <2>1 DEF Rows, EventTypes, SnapshotTypes
  <2>. HIDE DEF e
  <2>5. /\ LogFits(Append(outbox, e))
        /\ Len(Append(outbox, e)) = Len(outbox) + 1 /\ Len(outbox) \in Nat
    BY <1>1, <2>4, LogGrows DEF OutboxFits
  <2>. QED  BY <1>1, <1>4, <2>1, <2>2, <2>3, <2>5, SourceGrows DEF RecordEvent, OutboxFits
<1>. QED  BY <1>2, <1>3, <1>4

-----------------------------------------------------------------------------
(* The queue and the workers *)

LEMMA PublishStep ==
    ASSUME ProjectionInvariant, NEW n \in 1 .. MaxEvents + 2, Publish(n)
    PROVE  ProjectionInvariant'
<1>. DEFINE copies  == {m \in sent : m.position = n}
            repeats == {c \in sent : c.copy > 1}
            first   == [position |-> n, copy |-> 1]
            k       == Cardinality(copies) + 1
            new     == [position |-> n, copy |-> k]
<1>1. /\ sent' = sent \union {new} /\ queue' = queue \union {new}
      /\ copies = {} \/ Cardinality(repeats) < MaxRepeats
      /\ UNCHANGED <<writeModel, worker, readModel, rebuild>>
  BY DEF Publish
<1>2. QueueFits /\ IsFiniteSet(copies) /\ IsFiniteSet(repeats)
  BY FS_Subset DEF ProjectionInvariant, QueueFits
<1>3. Cardinality(copies) \in Nat /\ Cardinality(repeats) \in Nat
  BY <1>2, FS_CardinalityType
<1>4. k \in 1 .. MaxRepeats + 1
  <2>1. copies \subseteq repeats \union {first}
    BY <1>2 DEF QueueFits, Messages
  <2>2. /\ IsFiniteSet(repeats \union {first})
        /\ Cardinality(repeats \union {first}) \in {Cardinality(repeats), Cardinality(repeats) + 1}
    BY <1>2, FS_AddElement
  <2>3. Cardinality(copies) <= Cardinality(repeats \union {first})
    BY <2>1, <2>2, FS_Subset
  <2>4. copies = {} => Cardinality(copies) = 0
    BY FS_EmptySet
  <2>. HIDE DEF copies, repeats, first
  <2>. QED  BY <1>1, <1>3, <2>2, <2>3, <2>4, ProjectionAssumption
<1>. HIDE DEF copies, repeats, first
<1>5. new \in Messages /\ new.position = n
  BY <1>4 DEF Messages
<1>. HIDE DEF new
<1>6. n \in 1 .. Len(outbox)
  BY LenProperties DEF Publish, ProjectionInvariant, OutboxFits, LogFits
<1>7. IsFiniteSet(sent')
  BY <1>1, <1>2, FS_AddElement DEF QueueFits
<1>8. QueueFits'
  BY <1>1, <1>2, <1>5, <1>6, <1>7 DEF QueueFits, writeModel, readModel
<1>9. WorkersFit'
  <2>1. \A w \in Workers : batch[w] \in Seq(sent')
    BY <1>1, SeqMonotonic DEF ProjectionInvariant, WorkersFit
  <2>. QED  BY <1>1, <2>1 DEF ProjectionInvariant, WorkersFit, worker
<1>10. SourceFits' /\ OutboxFits' /\ RowFits' /\ RebuildsFit'
  BY <1>1 DEF ProjectionInvariant, SourceFits, OutboxFits, RowFits,
              RebuildsFit, writeModel, readModel
<1>. QED  BY <1>8, <1>9, <1>10 DEF ProjectionInvariant

\* A step that concerns only what worker w is handling.
LEMMA WorkerStep ==
    ASSUME ProjectionInvariant, NEW w \in Workers, NEW messages \in Seq(sent),
           NEW n \in 0 .. Len(messages),
           batch' = [batch EXCEPT ![w] = messages], done' = [done EXCEPT ![w] = n],
           sent' = sent, queue' \subseteq sent, UNCHANGED <<writeModel, readModel, rebuild>>
    PROVE  ProjectionInvariant'
<1>1. WorkersFit'
  BY DEF ProjectionInvariant, WorkersFit
<1>2. QueueFits'
  BY DEF ProjectionInvariant, QueueFits, writeModel, readModel
<1>3. SourceFits' /\ OutboxFits' /\ RowFits' /\ RebuildsFit'
  BY DEF ProjectionInvariant, SourceFits, OutboxFits, RowFits,
         RebuildsFit, writeModel, readModel
<1>. QED  BY <1>1, <1>2, <1>3 DEF ProjectionInvariant

LEMMA ReceiveStep ==
    ASSUME ProjectionInvariant, NEW w \in Workers, NEW messages \in Batches, Receive(w, messages)
    PROVE  ProjectionInvariant'
<1>1. PICK m \in queue : messages \in BatchesFrom(m)
  BY DEF Batches
<1>2. PICK n \in 0 .. MaxBatch - 1 : \E rest \in [1 .. n -> queue] : messages = <<m>> \o rest
  BY <1>1 DEF BatchesFrom
<1>3. PICK rest \in [1 .. n -> queue] : messages = <<m>> \o rest
  BY <1>2
<1>4. n \in Nat /\ m \in sent /\ rest \in Seq(sent)
  BY ProjectionAssumption, SeqDef DEF ProjectionInvariant, QueueFits
<1>5. messages \in Seq(sent)
  BY <1>3, <1>4, ConcatProperties
<1>6. 0 \in 0 .. Len(messages)
  BY <1>5, LenProperties
<1>. QED  BY <1>5, <1>6, WorkerStep DEF Receive, transport, ProjectionInvariant, QueueFits

LEMMA BatchEnds ==
    ASSUME ProjectionInvariant, NEW w \in Workers,
           batch' = [batch EXCEPT ![w] = <<>>], done' = [done EXCEPT ![w] = 0],
           sent' = sent, queue' \subseteq queue, UNCHANGED <<writeModel, readModel, rebuild>>
    PROVE  ProjectionInvariant'
<1>1. <<>> \in Seq(sent) /\ 0 \in 0 .. Len(<<>>)
  BY EmptySeq
<1>2. queue' \subseteq sent
  BY DEF ProjectionInvariant, QueueFits
<1>. HIDE DEF ProjectionInvariant
<1>. QED  BY <1>1, <1>2, WorkerStep

\* A worker goes on to the next message of its batch.
LEMMA CurrentMessage ==
    ASSUME ProjectionInvariant, NEW w \in Workers, HasMore(w)
    PROVE  /\ Current(w) \in sent
           /\ Current(w).position \in 1 .. Len(outbox)
           /\ batch[w] \in Seq(sent) /\ done[w] + 1 \in 0 .. Len(batch[w])
<1>1. /\ batch[w] \in Seq(sent) /\ done[w] \in 0 .. Len(batch[w])
      /\ Len(batch[w]) \in Nat /\ done[w] < Len(batch[w])
  BY LenProperties DEF ProjectionInvariant, WorkersFit, HasMore
<1>2. done[w] + 1 \in 1 .. Len(batch[w])
  BY <1>1
<1>3. Current(w) \in sent
  BY <1>1, <1>2, ElementOfSeq DEF Current
<1>. QED  BY <1>1, <1>2, <1>3 DEF ProjectionInvariant, QueueFits

LEMMA WorkerAdvances ==
    ASSUME ProjectionInvariant, NEW w \in Workers, HasMore(w), Advance(w)
    PROVE  WorkersFit' /\ SourceFits' /\ OutboxFits' /\ RebuildsFit'
<1>1. WorkersFit'
  BY CurrentMessage DEF Advance, ProjectionInvariant, WorkersFit, transport
<1>. QED
  BY <1>1 DEF Advance, ProjectionInvariant, SourceFits, OutboxFits, RebuildsFit, writeModel

LEMMA DuplicateStep ==
    ASSUME ProjectionInvariant, NEW w \in Workers, Duplicate(w)
    PROVE  ProjectionInvariant'
<1>1. WorkersFit' /\ SourceFits' /\ OutboxFits' /\ RebuildsFit'
  BY WorkerAdvances DEF Duplicate
<1>2. UNCHANGED <<sent, queue, inbox, row, source, outbox>>
  BY DEF Duplicate, Advance, transport, readModel, writeModel
<1>3. QueueFits' /\ RowFits'
  BY <1>2 DEF ProjectionInvariant, QueueFits, RowFits
<1>. QED  BY <1>1, <1>3 DEF ProjectionInvariant

-----------------------------------------------------------------------------
(* Effects *)

\* The entry of the outbox a message stands for.
LEMMA EventType ==
    ASSUME ProjectionInvariant, NEW m, m.position \in 1 .. Len(outbox)
    PROVE  /\ Event(m) \in Rows /\ Event(m).snapshot \in Snapshots
           /\ Event(m).type = "match.created.v1" <=> m.position = 1
           /\ m.position = 1 => Event(m).snapshot.sequence = 0
<1>1. LogFits(outbox)
  BY DEF ProjectionInvariant, OutboxFits
<1>2. outbox[m.position] \in Rows
  BY <1>1, ElementOfSeq DEF LogFits
<1>3. outbox[m.position].snapshot \in Snapshots
  BY <1>2 DEF Rows
<1>. QED  BY <1>1, <1>2, <1>3 DEF LogFits, Event

\* Claiming a message keeps the queue in order; the row is the caller's.
LEMMA ClaimStep ==
    ASSUME ProjectionInvariant, NEW w \in Workers, HasMore(w), Claim(w), Advance(w),
           RowFits'
    PROVE  ProjectionInvariant'
<1>1. WorkersFit' /\ SourceFits' /\ OutboxFits' /\ RebuildsFit'
  BY WorkerAdvances
<1>2. Current(w) \in sent /\ inbox' = inbox \union {Current(w)} /\ UNCHANGED <<sent, queue, outbox>>
  BY CurrentMessage DEF Claim, Advance, transport, writeModel
<1>3. QueueFits'
  BY <1>2 DEF ProjectionInvariant, QueueFits
<1>. QED  BY <1>1, <1>3 DEF ProjectionInvariant

\* Only the creation is projected, and it takes the row to sequence 0.
LEMMA ProjectCreatedStep ==
    ASSUME ProjectionInvariant, NEW w \in Workers, ProjectCreated(w)
    PROVE  /\ ProjectionInvariant'
           /\ row' \in Snapshots /\ row'.sequence = 0
           /\ Current(w).position = 1
<1>. DEFINE m   == Current(w)
            new == Event(m).snapshot
<1>1. /\ HasMore(w) /\ Claim(w) /\ Advance(w) /\ m.position \in 1 .. Len(outbox)
      /\ row' = CreatedRow(row, new) /\ Event(m).type = "match.created.v1"
  BY CurrentMessage DEF ProjectCreated
<1>2. new \in Snapshots /\ m.position = 1 /\ new.sequence = 0
  BY <1>1, EventType
<1>. HIDE DEF m, new
<1>3. row' \in Snapshots /\ row'.sequence = 0
  BY <1>1, <1>2 DEF CreatedRow, ProjectionInvariant, RowFits, Snapshots
<1>4. RowFits'
  BY <1>3 DEF RowFits, Authentic
<1>. QED  BY <1>1, <1>2, <1>3, <1>4, ClaimStep DEF m

LEMMA RebuildStep ==
    ASSUME ProjectionInvariant, NEW o \in Rebuilders, Rebuild(o)
    PROVE  ProjectionInvariant'
<1>1. UNCHANGED <<writeModel, transport, worker, inbox>>
  BY DEF Rebuild, RebuildRead, RebuildWrite, RebuildAbort, readModel
<1>2. SourceFits' /\ OutboxFits' /\ QueueFits' /\ WorkersFit'
  BY <1>1 DEF ProjectionInvariant, SourceFits, OutboxFits, QueueFits, WorkersFit,
              writeModel, transport, worker
<1>3. Authentic(source, source.sequence) /\ source \in Snapshots
  <2>1. SourceFits /\ source.sequence \in Nat
    BY DEF ProjectionInvariant, SourceFits, Snapshots
  <2>. QED  BY <2>1 DEF SourceFits, Authentic
<1>4. RowFits /\ RebuildsFit /\ source' = source
  BY <1>1 DEF ProjectionInvariant, writeModel
<1>5. RowFits' /\ RebuildsFit'
  <2>1. CASE RebuildRead(o)
    BY <1>3, <1>4, <2>1 DEF RebuildRead, readModel, RowFits, RebuildsFit
  <2>2. CASE RebuildWrite(o)
    BY <1>4, <2>2 DEF RebuildWrite, RowFits, RebuildsFit
  <2>3. CASE RebuildAbort(o)
    BY <1>4, <2>3 DEF RebuildAbort, readModel, RowFits, RebuildsFit
  <2>. QED  BY <2>1, <2>2, <2>3 DEF Rebuild
<1>. QED  BY <1>2, <1>5 DEF ProjectionInvariant

LEMMA ProjectionNext == ProjectionInvariant /\ [Next]_vars => ProjectionInvariant'
<1>. SUFFICES ASSUME ProjectionInvariant, [Next]_vars PROVE ProjectionInvariant'
  OBVIOUS
<1>1. CASE MarkReady \/ StartLiveSession \/ (\E type \in EventTypes : RecordEvent(type))
  BY <1>1, WriteModelStep
<1>2. ASSUME NEW n \in 1 .. MaxEvents + 2, Publish(n) PROVE ProjectionInvariant'
  BY <1>2, PublishStep
<1>3. ASSUME NEW w \in Workers, NEW messages \in Batches, Receive(w, messages)
      PROVE  ProjectionInvariant'
  BY <1>3, ReceiveStep
<1>4. ASSUME NEW w \in Workers, RejectSnapshot(w) \/ Crash(w) PROVE ProjectionInvariant'
  BY <1>4, BatchEnds DEF RejectSnapshot, Crash, EndBatch, transport
<1>5. ASSUME NEW w \in Workers, Acknowledge(w) PROVE ProjectionInvariant'
  BY <1>5, BatchEnds DEF Acknowledge
<1>6. ASSUME NEW w \in Workers, Duplicate(w) \/ ProjectCreated(w) PROVE ProjectionInvariant'
  BY <1>6, DuplicateStep, ProjectCreatedStep
<1>7. ASSUME NEW o \in Rebuilders, Rebuild(o) PROVE ProjectionInvariant'
  BY <1>7, RebuildStep
<1>8. CASE UNCHANGED vars
  BY <1>8 DEF vars, ProjectionInvariant, SourceFits, OutboxFits, QueueFits, WorkersFit,
              RowFits, RebuildsFit
<1>. QED  BY <1>1, <1>2, <1>3, <1>4, <1>5, <1>6, <1>7, <1>8 DEF Next, Process

-----------------------------------------------------------------------------
(* What holds in whatever order messages and rebuilds come *)

\* What every step keeps: only the first row of the outbox is a creation, and every
\* snapshot an operator has read and the row of the read model show, if they show
\* events, the match after so many of its events.
THEOREM ProjectionIsConsistent == Spec => []ProjectionInvariant
  BY ProjectionInit, ProjectionNext, PTL DEF Spec

\* The tables, the queue and the workers have their types.
THEOREM ProjectionTypeCorrect == Spec => []TypeOK
<1>1. ProjectionInvariant => TypeOK
  BY DEF ProjectionInvariant, SourceFits, OutboxFits, LogFits, QueueFits, WorkersFit,
         RowFits, RebuildsFit, TypeOK
<1>. QED  BY <1>1, ProjectionIsConsistent, PTL

\* However messages are delivered, repeated and overtaken, and whoever rebuilds:
\* a row that shows events is the match as it was after them.
THEOREM RowsAreAuthentic == Spec => []RowIsAuthentic
<1>1. ProjectionInvariant => RowIsAuthentic
  BY DEF ProjectionInvariant, RowFits, Authentic, RowIsAuthentic
<1>. QED  BY <1>1, ProjectionIsConsistent, PTL

\* Only the message that is claimed in the same transaction, or a rebuild, changes
\* the row: a redelivery has no effect.
THEOREM EffectsNeedClaims == Spec => EffectsAreClaimed
<1>. DEFINE Claimed == row' # row =>
                \/ \E w \in Workers : HasMore(w) /\ inbox' \ inbox = {Current(w)}
                \/ inbox' = inbox /\ \E o \in Rebuilders : row' = rebuild[o]
<1>1. [Next]_vars => [Claimed]_vars
  <2>. SUFFICES ASSUME Next, row' # row PROVE Claimed
    BY DEF vars
  <2>1. ASSUME NEW w \in Workers, ProjectCreated(w) PROVE Claimed
    <3>1. HasMore(w) /\ inbox' = inbox \union {Current(w)} /\ Current(w) \notin inbox
      BY <2>1 DEF ProjectCreated, Claim
    <3>. QED  BY <3>1
  <2>2. ASSUME NEW o \in Rebuilders, RebuildWrite(o) PROVE Claimed
    BY <2>2 DEF RebuildWrite
  <2>. QED
    BY <2>1, <2>2 DEF Next, MarkReady, StartLiveSession, RecordEvent, Publish, Receive,
       Process, Duplicate, RejectSnapshot, Acknowledge, Crash, EndBatch, Advance, Rebuild,
       RebuildRead, RebuildAbort, readModel
<1>. QED  BY <1>1, PTL DEF Spec, EffectsAreClaimed

-----------------------------------------------------------------------------
(* Messages that fail *)

\* Only creations are in the inbox, what has been deleted from the queue is, and so
\* is what a worker has put behind it in its batch.
DeliveryFits ==
    /\ \A m \in inbox : m.position = 1
    /\ sent \subseteq queue \union inbox
    /\ \A w \in Workers : \A i \in 1 .. done[w] : batch[w][i] \in inbox

LEMMA DeliveryNext ==
    ProjectionInvariant /\ DeliveryFits /\ [Next]_vars => DeliveryFits'
<1>. SUFFICES ASSUME ProjectionInvariant, DeliveryFits, [Next]_vars PROVE DeliveryFits'
  OBVIOUS
<1>. USE DEF transport, worker, readModel
<1>0. WorkersFit
  BY DEF ProjectionInvariant
<1>1. CASE UNCHANGED <<transport, worker, inbox>>
  BY <1>1 DEF DeliveryFits
<1>2. ASSUME NEW n \in 1 .. MaxEvents + 2, Publish(n) PROVE DeliveryFits'
  BY <1>2 DEF Publish, DeliveryFits
<1>3. ASSUME NEW w \in Workers, NEW messages \in Batches, Receive(w, messages)
      PROVE  DeliveryFits'
  BY <1>0, <1>3 DEF Receive, DeliveryFits, WorkersFit
<1>4. ASSUME NEW w \in Workers, RejectSnapshot(w) \/ Crash(w) PROVE DeliveryFits'
  <2>1. /\ batch' = [batch EXCEPT ![w] = <<>>] /\ done' = [done EXCEPT ![w] = 0]
        /\ UNCHANGED <<sent, queue, inbox>>
    BY <1>4 DEF RejectSnapshot, Crash, EndBatch
  <2>2. ASSUME NEW v \in Workers, NEW i \in 1 .. done'[v] PROVE batch'[v][i] \in inbox
    BY <1>0, <2>1, <2>2 DEF DeliveryFits, WorkersFit
  <2>. QED  BY <2>1, <2>2 DEF DeliveryFits
<1>5. ASSUME NEW w \in Workers, Acknowledge(w) PROVE DeliveryFits'
  <2>1. \A i \in DOMAIN batch[w] : batch[w][i] \in inbox
    BY <1>0, <1>5, LenProperties DEF Acknowledge, DeliveryFits, WorkersFit
  <2>2. sent' \subseteq queue' \union inbox'
    BY <1>5, <2>1 DEF Acknowledge, DeliveryFits
  <2>. QED  BY <1>0, <1>5, <2>2 DEF Acknowledge, DeliveryFits, WorkersFit
<1>6. ASSUME NEW w \in Workers, Current(w) \in inbox', inbox \subseteq inbox',
             HasMore(w), Advance(w), \A m \in inbox' : m.position = 1
      PROVE  DeliveryFits'
  <2>1. done[w] \in Nat
    BY <1>0, LenProperties DEF WorkersFit
  <2>2. ASSUME NEW v \in Workers, NEW i \in 1 .. done'[v] PROVE batch'[v][i] \in inbox'
    BY <1>0, <1>6, <2>1, <2>2 DEF Advance, DeliveryFits, WorkersFit, Current
  <2>. QED  BY <1>6, <2>2 DEF Advance, DeliveryFits
<1>7. ASSUME NEW w \in Workers, Duplicate(w) PROVE DeliveryFits'
  BY <1>6, <1>7 DEF Duplicate, DeliveryFits
<1>8. ASSUME NEW w \in Workers, ProjectCreated(w) PROVE DeliveryFits'
  <2>1. HasMore(w) /\ Advance(w) /\ inbox' = inbox \union {Current(w)}
    BY <1>8 DEF ProjectCreated, Claim
  <2>. QED  BY <1>6, <1>8, <2>1, ProjectCreatedStep DEF DeliveryFits
<1>. QED
  BY <1>1, <1>2, <1>3, <1>4, <1>5, <1>7, <1>8 DEF Next, vars, MarkReady, StartLiveSession,
     RecordEvent, Process, Rebuild, RebuildRead, RebuildWrite, RebuildAbort

\* Whatever batches a message that fails is handed out in, and whoever crashes, it
\* stays in the queue and unclaimed; no other message is lost.
THEOREM FailuresNeverLoseMessages == Spec => []FailedMessagesAreKept
<1>1. Init => DeliveryFits
  BY DEF Init, DeliveryFits
<1>2. ProjectionInvariant /\ DeliveryFits => FailedMessagesAreKept
  <2>. SUFFICES ASSUME ProjectionInvariant, DeliveryFits, NEW m \in sent
                PROVE  /\ Event(m).type \in SnapshotTypes => m \in queue /\ m \notin inbox
                       /\ m \in queue \/ m \in inbox
    BY DEF FailedMessagesAreKept
  <2>1. Event(m).type = "match.created.v1" <=> m.position = 1
    BY EventType DEF ProjectionInvariant, QueueFits
  <2>2. Event(m).type \in SnapshotTypes => m.position # 1
    BY <2>1 DEF SnapshotTypes, EventTypes
  <2>. QED  BY <2>2 DEF DeliveryFits
<1>. QED  BY <1>1, <1>2, DeliveryNext, ProjectionIsConsistent, PTL DEF Spec

-----------------------------------------------------------------------------
(* Where one operator rebuilds *)

OneRebuildAtATime == \A o, p \in Rebuilders : o = p

\* What the operator has read is not older than what the row shows.
ReadIsLatest ==
    \A o \in Rebuilders :
        rebuild[o] # None /\ row # None => row.sequence <= rebuild[o].sequence

LEMMA ReadIsLatestNext ==
    ASSUME OneRebuildAtATime, ProjectionInvariant, ReadIsLatest, [Next]_vars
    PROVE  ReadIsLatest'
<1>. USE DEF readModel
<1>0. RowFits /\ RebuildsFit
  BY DEF ProjectionInvariant
<1>1. CASE row' = row /\ rebuild' = rebuild
  BY <1>1 DEF ReadIsLatest
<1>2. ASSUME NEW w \in Workers, ProjectCreated(w) PROVE ReadIsLatest'
  <2>1. row'.sequence = 0 /\ rebuild' = rebuild
    BY <1>2, ProjectCreatedStep DEF ProjectCreated, Advance
  <2>2. \A o \in Rebuilders : rebuild[o] # None => rebuild[o].sequence \in Nat
    BY <1>0 DEF RebuildsFit, Snapshots
  <2>. QED  BY <2>1, <2>2 DEF ReadIsLatest
<1>3. ASSUME NEW o \in Rebuilders, RebuildRead(o) PROVE ReadIsLatest'
  <2>1. row' = row /\ rebuild'[o] = source
    BY <1>0, <1>3 DEF RebuildRead, RebuildsFit
  <2>2. row # None => row.sequence <= source.sequence
    BY <1>0 DEF RowFits, Authentic, ProjectionInvariant, SourceFits, Snapshots
  <2>. QED  BY <2>1, <2>2 DEF ReadIsLatest, OneRebuildAtATime
<1>4. ASSUME NEW o \in Rebuilders, RebuildWrite(o) \/ RebuildAbort(o) PROVE ReadIsLatest'
  <2>1. rebuild'[o] = None
    BY <1>0, <1>4 DEF RebuildWrite, RebuildAbort, RebuildsFit
  <2>. QED  BY <2>1 DEF ReadIsLatest, OneRebuildAtATime
<1>. QED
  BY <1>1, <1>2, <1>3, <1>4 DEF Next, vars, MarkReady, StartLiveSession, RecordEvent,
     Publish, Receive, Process, Duplicate, RejectSnapshot, Acknowledge, Crash, EndBatch,
     Advance, Rebuild

\* A single operator never undoes the row with what it has read: only a creation
\* that comes late does.
THEOREM RowsFallBackOnlyOnCreation ==
    ASSUME OneRebuildAtATime PROVE Spec => RowFallsBackOnlyOnCreation
<1>. DEFINE Created(w) == /\ HasMore(w)
                          /\ Event(Current(w)).type = "match.created.v1"
                          /\ inbox' \ inbox = {Current(w)}
            FallsBack == row # None /\ row'.sequence < row.sequence =>
                             \E w \in Workers : Created(w)
<1>1. Init => ReadIsLatest
  BY DEF Init, ReadIsLatest
<1>2. ProjectionInvariant /\ ReadIsLatest /\ [Next]_vars => ReadIsLatest'
  BY ReadIsLatestNext
<1>3. ProjectionInvariant /\ ReadIsLatest /\ [Next]_vars => [FallsBack]_vars
  <2>. SUFFICES ASSUME ProjectionInvariant, ReadIsLatest, Next PROVE FallsBack
    OBVIOUS
  <2>1. row # None => row.sequence \in Nat
    BY DEF ProjectionInvariant, RowFits, Snapshots
  <2>2. CASE row' = row
    BY <2>1, <2>2
  <2>3. ASSUME NEW w \in Workers, ProjectCreated(w) PROVE FallsBack
    <3>1. Created(w)
      BY <2>3 DEF ProjectCreated, Claim
    <3>. QED  BY <3>1
  <2>4. ASSUME NEW o \in Rebuilders, RebuildWrite(o) PROVE FallsBack
    <3>1. /\ row' = rebuild[o] /\ rebuild[o] # None
          /\ rebuild[o] \in Snapshots \union {None}
      BY <2>4 DEF RebuildWrite, ProjectionInvariant, RebuildsFit
    <3>2. rebuild[o].sequence \in Nat
      BY <3>1 DEF Snapshots
    <3>3. row # None => row.sequence <= row'.sequence
      BY <3>1 DEF ReadIsLatest
    <3>. QED  BY <2>1, <3>1, <3>2, <3>3
  <2>. HIDE DEF FallsBack
  <2>. QED
    BY <2>2, <2>3, <2>4 DEF Next, MarkReady, StartLiveSession, RecordEvent, Publish, Receive,
       Process, Duplicate, RejectSnapshot, Acknowledge, Crash, EndBatch, Advance, Rebuild,
       RebuildRead, RebuildAbort, readModel
<1>. QED
  BY <1>1, <1>2, <1>3, ProjectionIsConsistent, PTL DEF Spec, RowFallsBackOnlyOnCreation

=============================================================================
