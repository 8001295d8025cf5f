----------------------------- MODULE Projection -----------------------------
(***************************************************************************)
(* The read model of one match: internal/projection/projector.go, run by   *)
(* the queue consumer of cmd/projection-worker/main.go.                    *)
(*                                                                         *)
(* The write path commits a row of outbox_events with every change.  A     *)
(* publisher outside this repository sends the rows to a queue, each at    *)
(* least once and in any order, under a new message id each time.  The     *)
(* queue hands batches of messages to workers, in any order, and hands a   *)
(* message out again until a batch that contains it succeeds.              *)
(*                                                                         *)
(* Process claims a message in the inbox and changes the snapshot row in   *)
(* one transaction.  Of two such transactions the later waits for the      *)
(* earlier on the inbox key or on the row and then looks at the new row,   *)
(* so a transaction is one action here.  RebuildMatch is two: at READ      *)
(* COMMITTED nothing holds the row between its SELECT and its INSERT.      *)
(*                                                                         *)
(* Only match.created.v1 is ever projected: the statement for every other  *)
(* type fails (RejectSnapshot).                                            *)
(*                                                                         *)
(* The score of the match after its first n events is represented by n.    *)
(***************************************************************************)
EXTENDS Naturals, FiniteSets, Sequences, SequencesExt

CONSTANTS
    Workers,        \* invocations of the consumer that can run at the same time
    Rebuilders,     \* operators that can rebuild the match at the same time
    MaxEvents,      \* bound on the events of the match
    MaxRepeats,     \* bound on how often the publisher sends a row once more
    MaxBatch,       \* bound on the messages of a batch
    CreatedFirst,   \* does the publisher wait for the row to exist?
    None            \* no row

ASSUME ProjectionAssumption ==
    /\ MaxEvents \in Nat
    /\ MaxRepeats \in Nat
    /\ MaxBatch \in Nat \ {0}
    /\ CreatedFirst \in BOOLEAN

VARIABLES
    source,         \* matches and match_live_state
    outbox,         \* outbox_events, oldest first
    sent,           \* messages the publisher has sent
    queue,          \* messages the queue still holds
    batch,          \* the messages each worker has been handed
    done,           \* how many of them it has processed
    inbox,          \* consumer_inbox
    row,            \* match_snapshots
    rebuild         \* what each operator has read of the write model

writeModel == <<source, outbox>>
transport  == <<sent, queue>>
worker     == <<batch, done>>
readModel  == <<inbox, row>>
vars == <<source, outbox, sent, queue, batch, done, inbox, row, rebuild>>

Statuses == {"DRAFT", "READY", "LIVE"}

Snapshot(status, sequence) == [status |-> status, sequence |-> sequence, score |-> sequence]

Init ==
    /\ source = Snapshot("DRAFT", 0)
    /\ outbox = <<[type |-> "match.created.v1", snapshot |-> source]>>
    /\ sent = {}
    /\ queue = {}
    /\ batch = [w \in Workers |-> <<>>]
    /\ done = [w \in Workers |-> 0]
    /\ inbox = {}
    /\ row = None
    /\ rebuild = [o \in Rebuilders |-> None]

-----------------------------------------------------------------------------
(* The write model: what its transactions put into the outbox *)

EventTypes == {"match.event-recorded.v1", "match.event-reversed.v1"}

\* MarkReady tells nobody.
MarkReady ==
    /\ source.status = "DRAFT"
    /\ source' = Snapshot("READY", 0)
    /\ UNCHANGED <<outbox, transport, worker, readModel, rebuild>>

StartLiveSession ==
    /\ source.status = "READY"
    /\ source' = Snapshot("LIVE", 0)
    /\ outbox' = Append(outbox, [type |-> "match.status-changed.v1", snapshot |-> source])
    /\ UNCHANGED <<transport, worker, readModel, rebuild>>

\* Append, or Reverse of an earlier event.
RecordEvent(type) ==
    /\ source.status = "LIVE"
    /\ source.sequence < MaxEvents
    /\ type = "match.event-reversed.v1" => source.sequence > 0
    /\ source' = Snapshot("LIVE", source.sequence + 1)
    /\ outbox' = Append(outbox, [type |-> type, snapshot |-> source'])
    /\ UNCHANGED <<transport, worker, readModel, rebuild>>

-----------------------------------------------------------------------------
(* The publisher and the queue, as far as the consumer relies on them *)

\* With CreatedFirst, match.created.v1 is sent once and has been projected
\* before any other row is sent.
MayPublish(n) ==
    CreatedFirst => IF n = 1 THEN sent = {} ELSE row # None

Publish(n) ==
    LET copies == {m \in sent : m.position = n}
        m      == [position |-> n, copy |-> Cardinality(copies) + 1]
    IN  /\ n \in DOMAIN outbox
        /\ copies = {} \/ Cardinality({c \in sent : c.copy > 1}) < MaxRepeats
        /\ MayPublish(n)
        /\ sent' = sent \union {m}
        /\ queue' = queue \union {m}
        /\ UNCHANGED <<writeModel, worker, readModel, rebuild>>

\* A batch with m in front of other messages the queue holds, in any order.
BatchesFrom(m) ==
    {<<m>> \o rest : rest \in UNION {{b \in [1 .. n -> queue \ {m}] : IsInjective(b)} :
                                       n \in 0 .. MaxBatch - 1}}

Batches == UNION {BatchesFrom(m) : m \in queue}

\* The queue invokes the consumer; other workers may hold the same messages.
Receive(w, messages) ==
    /\ batch[w] = <<>>
    /\ batch' = [batch EXCEPT ![w] = messages]
    /\ done' = [done EXCEPT ![w] = 0]
    /\ UNCHANGED <<writeModel, transport, readModel, rebuild>>

-----------------------------------------------------------------------------
(* Process *)

Event(m) == outbox[m.position]

Current(w) == batch[w][done[w] + 1]

HasMore(w) == batch[w] # <<>> /\ done[w] < Len(batch[w])

Advance(w) ==
    /\ done' = [done EXCEPT ![w] = @ + 1]
    /\ UNCHANGED <<writeModel, transport, batch, rebuild>>

\* The claim finds the message in the inbox: acknowledged, nothing else.
Duplicate(w) ==
    /\ HasMore(w)
    /\ Current(w) \in inbox
    /\ Advance(w)
    /\ UNCHANGED readModel

\* Mutant of Claim: a message that is in the inbox is handled once more.
ClaimAgain(w) == inbox' = inbox \union {Current(w)}

\* INSERT INTO consumer_inbox affects one row.
Claim(w) == Current(w) \notin inbox /\ inbox' = inbox \union {Current(w)}

\* Mutant of CreatedRow: the upsert leaves an existing sequence alone.
CreatedRowKeepsSequence(old, new) ==
    IF old = None THEN new ELSE [old EXCEPT !.status = new.status, !.score = 0]

\* What the upsert of match.created.v1 makes of the row: status and sequence
\* are overwritten whatever the row holds, the scores are not.
CreatedRow(old, new) ==
    IF old = None THEN new
    ELSE [old EXCEPT !.status = new.status, !.sequence = new.sequence]

ProjectCreated(w) ==
    /\ HasMore(w)
    /\ Event(Current(w)).type = "match.created.v1"
    /\ Claim(w)
    /\ row' = CreatedRow(row, Event(Current(w)).snapshot)
    /\ Advance(w)

\* Mutant of EndBatch: the position in the batch is kept.
EndBatchKeepingDone(w) ==
    /\ batch' = [batch EXCEPT ![w] = <<>>]
    /\ UNCHANGED <<writeModel, transport, done, readModel, rebuild>>

\* The invocation ends without success: the queue keeps the whole batch.
EndBatch(w) ==
    /\ batch' = [batch EXCEPT ![w] = <<>>]
    /\ done' = [done EXCEPT ![w] = 0]
    /\ UNCHANGED <<writeModel, transport, readModel, rebuild>>

SnapshotTypes == EventTypes \union {"match.status-changed.v1"}

\* Mutants of RejectSnapshot: the failure is logged and the batch goes on, and the
\* message is tried again in place until it succeeds.
SkipSnapshot(w) ==
    /\ HasMore(w)
    /\ Event(Current(w)).type \in SnapshotTypes
    /\ Advance(w)
    /\ UNCHANGED readModel

RetrySnapshot(w) ==
    /\ HasMore(w)
    /\ Event(Current(w)).type \in SnapshotTypes
    /\ UNCHANGED vars

\* The UPDATE is never prepared.  PostgreSQL analyses its WHERE clause first, where
\* CASE $2 makes $2 a text, and then refuses to assign a text to the enum column
\* in SET status = $2 (SQLSTATE 42804).  The transaction with the claim rolls
\* back and the loop of the consumer returns the error.
RejectSnapshot(w) ==
    /\ HasMore(w)
    /\ Event(Current(w)).type \in SnapshotTypes
    /\ Current(w) \notin inbox
    /\ EndBatch(w)

\* The invocation times out or its database connection breaks.
Crash(w) ==
    /\ batch[w] # <<>>
    /\ EndBatch(w)

\* All records are processed, the handler returns nil, the queue deletes them.
Acknowledge(w) ==
    /\ batch[w] # <<>>
    /\ done[w] = Len(batch[w])
    /\ queue' = queue \ {batch[w][i] : i \in DOMAIN batch[w]}
    /\ batch' = [batch EXCEPT ![w] = <<>>]
    /\ done' = [done EXCEPT ![w] = 0]
    /\ UNCHANGED <<writeModel, sent, readModel, rebuild>>

-----------------------------------------------------------------------------
(* RebuildMatch *)

RebuildRead(o) ==
    /\ rebuild[o] = None
    /\ rebuild' = [rebuild EXCEPT ![o] = source]
    /\ UNCHANGED <<writeModel, transport, worker, readModel>>

\* The upsert overwrites every column, whatever was projected since.
RebuildWrite(o) ==
    /\ rebuild[o] # None
    /\ row' = rebuild[o]
    /\ rebuild' = [rebuild EXCEPT ![o] = None]
    /\ UNCHANGED <<writeModel, transport, worker, inbox>>

RebuildAbort(o) ==
    /\ rebuild[o] # None
    /\ rebuild' = [rebuild EXCEPT ![o] = None]
    /\ UNCHANGED <<writeModel, transport, worker, readModel>>

-----------------------------------------------------------------------------

Process(w) == Duplicate(w) \/ ProjectCreated(w) \/ RejectSnapshot(w)

Rebuild(o) == RebuildRead(o) \/ RebuildWrite(o) \/ RebuildAbort(o)

Next ==
    \/ MarkReady \/ StartLiveSession
    \/ \E type \in EventTypes : RecordEvent(type)
    \/ \E n \in 1 .. MaxEvents + 2 : Publish(n)
    \/ \E w \in Workers : \/ \E messages \in Batches : Receive(w, messages)
                          \/ Process(w) \/ Acknowledge(w) \/ Crash(w)
    \/ \E o \in Rebuilders : Rebuild(o)

Spec == Init /\ [][Next]_vars

Messages == [position : 1 .. MaxEvents + 2, copy : 1 .. MaxRepeats + 1]

\* The publisher sends every row in the end.  The queue hands the first copy of a
\* row out again and again while it holds it, at times as the first message of its
\* batch, and at times the worker that has it does not crash before it is through
\* with it.  Nothing is assumed of other copies, of clients and of operators.
Fairness ==
    /\ \A n \in 1 .. MaxEvents + 2 : WF_vars(Publish(n) /\ \A m \in sent : m.position # n)
    /\ \A m \in [position : 1 .. MaxEvents + 2, copy : {1}] :
          /\ SF_vars(/\ m \in queue
                     /\ \E w \in Workers, messages \in BatchesFrom(m) : Receive(w, messages))
          /\ SF_vars(\E w \in Workers : HasMore(w) /\ Current(w) = m /\ Process(w))
    /\ \A w \in Workers : WF_vars(Process(w) \/ Acknowledge(w))

FairSpec == Spec /\ Fairness

-----------------------------------------------------------------------------
(* Properties *)

Snapshots == [status : Statuses, sequence : 0 .. MaxEvents, score : 0 .. MaxEvents]

Rows == [type : SnapshotTypes \union {"match.created.v1"},
         snapshot : Snapshots]

\* No row is not a row.
ASSUME NoneAssumption == None \notin Snapshots

\* The type invariant of the write model, the queue, the workers and the row.
TypeOK ==
    /\ source \in Snapshots
    /\ outbox \in Seq(Rows)
    /\ sent \subseteq Messages /\ queue \subseteq sent /\ inbox \subseteq sent
    /\ \A w \in Workers : batch[w] \in Seq(sent) /\ done[w] \in 0 .. Len(batch[w])
    /\ row \in Snapshots \union {None}
    /\ rebuild \in [Rebuilders -> Snapshots \union {None}]

\* In whatever order messages and rebuilds arrive, a row that shows events is a
\* state the match was in: its scores are those after exactly the events its
\* sequence counts.  Of a row that shows none this is not so: a late
\* match.created.v1 takes the sequence back to 0 and leaves the scores.
RowIsAuthentic ==
    row # None /\ row.sequence > 0 =>
        /\ row.status = "LIVE"
        /\ row.score = row.sequence
        /\ row.sequence <= source.sequence

\* A message takes effect at most once, however often it is delivered, and its
\* effect and its claim become visible together.
EffectsAreClaimed ==
    [][row' # row => \/ \E w \in Workers : HasMore(w) /\ inbox' \ inbox = {Current(w)}
                     \/ inbox' = inbox /\ \E o \in Rebuilders : row' = rebuild[o]]_vars

\* Where one operator rebuilds, the row loses events it has shown only to the first
\* handling of a creation that comes late: not to a redelivery, and not to a
\* rebuild, however old what it read is by the time it writes.
RowFallsBackOnlyOnCreation ==
    [][row # None /\ row'.sequence < row.sequence =>
          \E w \in Workers : /\ HasMore(w)
                             /\ Event(Current(w)).type = "match.created.v1"
                             /\ inbox' \ inbox = {Current(w)}]_vars

\* A message that cannot be projected is neither claimed nor lost, whatever batches
\* it shares with messages that can, and whatever is deleted from the queue has
\* been projected.
FailedMessagesAreKept ==
    \A m \in sent : /\ Event(m).type \in SnapshotTypes => m \in queue /\ m \notin inbox
                    /\ m \in queue \/ m \in inbox

\* The creation of the match is projected in the end, although it shares batches
\* with messages that fail for ever.
CreationIsProjected == <>(\E m \in inbox : Event(m).type = "match.created.v1")

-----------------------------------------------------------------------------
(* What the documentation says and the code does not do *)

\* The projection produces snapshots of the outbox: a match that is live is shown
\* as live, and with its events.  Where it is checked no message is sent before the
\* row is there.
LiveMatchIsProjected ==
    \A n \in 0 .. MaxEvents :
        source.status = "LIVE" /\ source.sequence >= n
            ~> row # None /\ row.status = "LIVE" /\ row.sequence >= n

=============================================================================
