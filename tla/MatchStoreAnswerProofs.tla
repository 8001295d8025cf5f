----------------------- MODULE MatchStoreAnswerProofs -----------------------
(***************************************************************************)
(* Proofs about what MatchStore tells its clients and the outbox: that an  *)
(* answer, fresh or replayed, fits the ledger however often a request was  *)
(* sent, that the outbox has a row for each event, and why a request may   *)
(* fail with an unnamed error.                                             *)
(*                                                                         *)
(* Stored responses outlive the state they were given in, so the invariant *)
(* says of every answer what the ledger holds for it, and the lemmas show  *)
(* that a ledger which only grows goes on holding it.                      *)
(***************************************************************************)
EXTENDS MatchStoreProofs, SequenceTheorems

\* The score after the first n events, by the tables it is derived from.
CountAfter(L, R, n, s, d) ==
    {e \in L : /\ e.sequence <= n
               /\ e.side = s
               /\ ScoreDelta(e) = d
               /\ \A link \in R : link.reversed = e.sequence => link.reversal > n}

ScoreAfter(L, R, n) ==
    [s \in Sides |-> Cardinality(CountAfter(L, R, n, s, 1))
                       - Cardinality(CountAfter(L, R, n, s, -1))]

\* What a success says: of a start that the match is live and had no score, of an
\* event that it is in the ledger where its client expected it, with the snapshot
\* of that moment.
Answers(m, L, R, r, result) ==
    /\ result.snapshot \in Snapshots
    /\ IF r.op = "start"
       THEN /\ m.status = "LIVE" /\ result.event = 0
            /\ result.snapshot.score = ScoreAfter(L, R, 0)
       ELSE /\ \E e \in L : e.client = r.client /\ e.sequence = result.event
            /\ result.event = r.expected + 1
            /\ result.snapshot = [status |-> "LIVE", sequence |-> result.event,
                                  score |-> ScoreAfter(L, R, result.event)]

\* What a worker has written for its request and not committed.
StartWritten(m, d) ==
    /\ m.status = "READY"
    /\ d.match = [m EXCEPT !.status = "LIVE"]
    /\ d.event = {} /\ d.reversal = {}
    /\ d.row.type = "match.status-changed.v1"
    /\ d.result = Success(0, m)

EventWritten(m, L, r, d, e) ==
    /\ m.status = "LIVE" /\ m.sequence = r.expected
    /\ \A f \in L : f.client # r.client
    /\ d.event = {e}
    /\ d.match.status = "LIVE" /\ d.match.sequence = m.sequence + 1
    /\ \A s \in Sides : d.match.score[s] <= MaxScore
    /\ d.row.sequence = m.sequence + 1 /\ d.row.snapshot = d.match
    /\ d.result = Success(m.sequence + 1, d.match)

NewEvent(m, r, action, from) ==
    [sequence |-> m.sequence + 1, client |-> r.client, action |-> action,
     side |-> from.side, adjustment |-> from.adjustment]

AppendWritten(m, L, r, d) ==
    /\ EventWritten(m, L, r, d, NewEvent(m, r, r.action, r))
    /\ r.rostered
    /\ d.reversal = {}
    /\ d.row.type = "match.event-recorded.v1"

ReverseWritten(m, L, R, r, d) ==
    \E o \in L :
        /\ EventWritten(m, L, r, d, NewEvent(m, r, "EVENT_REVERSAL", o))
        /\ o.sequence = r.target /\ ScoreDelta(o) # 0
        /\ \A link \in R : link.reversed # r.target
        /\ d.reversal = {[reversal |-> m.sequence + 1, reversed |-> r.target]}
        /\ d.row.type = "match.event-reversed.v1"

WrittenFor(m, L, R, r, d) ==
    \/ r.op = "start" /\ StartWritten(m, d)
    \/ r.op = "append" /\ AppendWritten(m, L, r, d)
    \/ r.op = "reverse" /\ ReverseWritten(m, L, R, r, d)

\* A taken key leads to a record, a draft is what its request asks for, and an
\* answer is right.
WorkerOK(w) ==
    LET k == RecordKey(req[w]) IN
    /\ pc[w] = "idle" <=> req[w] = None
    /\ pc[w] = "reply" <=> reply[w] # None
    /\ pc[w] = "lock" => owner[k] = w \/ records[k] # None
    /\ pc[w] = "replay" => records[k] # None
    /\ pc[w] = "commit" => WrittenFor(match, ledger, reversals, req[w], draft[w])
    /\ pc[w] = "reply" /\ reply[w].outcome = "ok" =>
          Answers(match, ledger, reversals, req[w], reply[w])

RecordOK(k) ==
    records[k] # None =>
        \E r \in Requests : /\ RecordKey(r) = k
                            /\ records[k].hash = RequestHash(r)
                            /\ records[k].result.outcome = "ok"
                            /\ Answers(match, ledger, reversals, r, records[k].result)

ClientsAreUnique == \A d, e \in ledger : d.client = e.client => d = e

StatusOK == \/ match.status = "READY" /\ match.sequence = 0
            \/ match.status = "LIVE"

ScoresFit == \A s \in Sides : match.score[s] <= MaxScore

TablesOK == ClientsAreUnique /\ StatusOK /\ ScoresFit

AnswerInvariant ==
    /\ InductiveInvariant
    /\ TablesOK
    /\ \A k \in RecordKeys : RecordOK(k)
    /\ \A w \in Workers : WorkerOK(w)
    /\ OutboxFollowsLedger

-----------------------------------------------------------------------------
(* Answers and the growing ledger *)

LEMMA LedgerScoreIsAfter ==
    /\ \A n : LedgerScore(n) = ScoreAfter(ledger, reversals, n)
    /\ \A n : LedgerScore(n)' = ScoreAfter(ledger', reversals', n)
  BY DEF LedgerScore, Counting, ScoreAfter, CountAfter

\* Tables that hold all the events and links of others, and only later ones
\* besides, give the same score after n events.
LEMMA ScoreAfterStays ==
    ASSUME NEW L, NEW M, NEW R, NEW Q, NEW n,
           L \subseteq M, \A e \in M \ L : ~(e.sequence <= n),
           R \subseteq Q, \A link \in Q \ R : link.reversal > n
    PROVE  ScoreAfter(M, Q, n) = ScoreAfter(L, R, n)
<1>1. \A s, d : CountAfter(M, Q, n, s, d) = CountAfter(L, R, n, s, d)
  BY DEF CountAfter
<1>. QED  BY <1>1 DEF ScoreAfter

\* What a commit brings in is numbered after everything there is.
LEMMA CommitBringsLater ==
    ASSUME InductiveInvariant, NEW w \in Workers, Commit(w)
    PROVE  /\ ledger \subseteq ledger' /\ reversals \subseteq reversals'
           /\ \A e \in ledger' \ ledger : e.sequence = match.sequence + 1
           /\ \A link \in reversals' \ reversals : link.reversal = match.sequence + 1
<1>1. /\ DraftOK(draft[w])
      /\ ledger' = ledger \union draft[w].event
      /\ reversals' = reversals \union draft[w].reversal
  BY CommitStep
<1>2. CASE StartsMatch(draft[w])
  BY <1>1, <1>2 DEF StartsMatch
<1>3. CASE AppendsEvent(draft[w])
  BY <1>1, <1>3 DEF AppendsEvent
<1>4. CASE ReversesEvent(draft[w])
  <2>1. PICK e \in draft[w].event, o \in ledger :
           /\ draft[w].event = {e}
           /\ draft[w].reversal = {[reversal |-> e.sequence, reversed |-> o.sequence]}
           /\ e.sequence = match.sequence + 1
    BY <1>4 DEF ReversesEvent
  <2>. QED  BY <1>1, <2>1
<1>. QED  BY <1>1, <1>2, <1>3, <1>4 DEF DraftOK

LEMMA ScoreStays ==
    ASSUME InductiveInvariant, NEW w \in Workers, Commit(w), NEW n \in 0 .. match.sequence
    PROVE  ScoreAfter(ledger', reversals', n) = ScoreAfter(ledger, reversals, n)
<1>1. match.sequence \in Nat
  BY DEF InductiveInvariant, TypeOK, Snapshots
<1>2. ~(match.sequence + 1 <= n) /\ match.sequence + 1 > n
  BY <1>1
<1>. QED  BY <1>2, CommitBringsLater, ScoreAfterStays

\* An answer that was right stays right.
LEMMA AnswersStay ==
    ASSUME InductiveInvariant, NEW w \in Workers, Commit(w),
           match.status = "LIVE" => match'.status = "LIVE",
           NEW r, NEW result, Answers(match, ledger, reversals, r, result)
    PROVE  Answers(match', ledger', reversals', r, result)
<1>1. /\ match.sequence \in Nat
      /\ \A e \in ledger : e.sequence \in 1 .. match.sequence
  BY DEF InductiveInvariant, TypeOK, Snapshots, GaplessLedger
<1>2. ledger \subseteq ledger'
  BY CommitBringsLater
<1>3. CASE r.op = "start"
  <2>1. ScoreAfter(ledger', reversals', 0) = ScoreAfter(ledger, reversals, 0)
    BY <1>1, ScoreStays
  <2>. QED  BY <1>3, <2>1 DEF Answers
<1>4. CASE r.op # "start"
  <2>1. result.event \in 0 .. match.sequence
    BY <1>1, <1>4 DEF Answers
  <2>2. ScoreAfter(ledger', reversals', result.event)
          = ScoreAfter(ledger, reversals, result.event)
    BY <2>1, ScoreStays
  <2>. QED  BY <1>2, <1>4, <2>2 DEF Answers
<1>. QED  BY <1>3, <1>4

-----------------------------------------------------------------------------
(* What a step leaves alone *)

\* The step of a worker changes its own session only.
LEMMA OneWorkerSteps ==
    ASSUME TypeOK, [Next]_vars, NEW v \in Workers
    PROVE  \/ /\ pc'[v] = pc[v] /\ req'[v] = req[v] /\ reply'[v] = reply[v]
              /\ \A k \in RecordKeys : owner[k] = v => owner'[k] = v
           \/ (\E r \in Requests : Receive(v, r)) \/ Serve(v) \/ Crash(v)
<1>. DEFINE Kept == /\ pc'[v] = pc[v] /\ req'[v] = req[v] /\ reply'[v] = reply[v]
                    /\ \A k \in RecordKeys : owner[k] = v => owner'[k] = v
<1>0. v # None
  BY WorkersAssumption
<1>1. ASSUME NEW w \in Workers, w # v, NEW r \in Requests, Receive(w, r)
      PROVE  Kept
  BY <1>1 DEF Receive, Goto, TypeOK, locks
<1>2. ASSUME NEW w \in Workers, w # v, Reserve(w)
      PROVE  Kept
  <2>1. \A k \in RecordKeys : owner[k] = v => owner'[k] = v
    BY <1>0, <1>2 DEF Reserve, TypeOK
  <2>. QED  BY <1>2, <2>1 DEF Reserve, Goto, TypeOK
<1>3. ASSUME NEW w \in Workers, w # v, LockMatch(w)
      PROVE  Kept
  BY <1>3 DEF LockMatch, Goto, TypeOK
<1>4. ASSUME NEW w \in Workers, w # v, NEW result, Finish(w, result)
      PROVE  Kept
  BY <1>4 DEF Finish, Release, Goto, TypeOK
<1>5. ASSUME NEW w \in Workers, w # v, NEW next, NEW event, NEW link, NEW result,
             Prepare(w, next, event, link, result)
      PROVE  Kept
  BY <1>5 DEF Prepare, Goto, locks, TypeOK
<1>6. ASSUME NEW w \in Workers, w # v, StartWrite(w) \/ AppendWrite(w) \/ ReverseWrite(w)
      PROVE  Kept
  BY <1>4, <1>5, <1>6 DEF StartWrite, AppendWrite, ReverseWrite, Rollback
<1>7. ASSUME NEW w \in Workers, w # v, EndSession(w), Release(w) \/ UNCHANGED locks
      PROVE  Kept
  BY <1>7 DEF EndSession, Release, Goto, locks, TypeOK
<1>8. ASSUME NEW k \in RecordKeys, Expire(k)
      PROVE  Kept
  BY <1>8 DEF Expire, locks, session
<1>9. ASSUME UNCHANGED vars
      PROVE  Kept
  BY <1>9 DEF vars
<1>10. ASSUME NEW w \in Workers, w # v, Replay(w) \/ Commit(w)
       PROVE  Kept
  BY <1>4, <1>10 DEF Replay, Commit
<1>11. ASSUME NEW w \in Workers, w # v, Reply(w) \/ Crash(w)
       PROVE  Kept
  BY <1>7, <1>11 DEF Reply, Crash
<1>. HIDE DEF Kept
<1>12. ASSUME NEW w \in Workers, w # v, Serve(w)
       PROVE  Kept
  BY <1>2, <1>3, <1>6, <1>10, <1>11, <1>12 DEF Serve
<1>. DEFINE Acts(w) == (\E r \in Requests : Receive(w, r)) \/ Serve(w) \/ Crash(w)
<1>13. ASSUME NEW w \in Workers, w # v, Acts(w)
       PROVE  Kept
  BY <1>1, <1>11, <1>12, <1>13
<1>14. UNCHANGED vars \/ (\E w \in Workers : Acts(w)) \/ \E k \in RecordKeys : Expire(k)
  BY DEF Next
<1>. HIDE DEF Acts
<1>15. Kept \/ Acts(v)
  BY <1>8, <1>9, <1>13, <1>14
<1>. QED  BY <1>15 DEF Kept, Acts

\* Only a commit changes a table, apart from the day that passes.
LEMMA QuietStep ==
    ASSUME TypeOK, [Next]_vars, \A w \in Workers : ~Commit(w)
    PROVE  /\ UNCHANGED <<match, ledger, reversals, outbox>>
           /\ UNCHANGED records \/ \E k \in RecordKeys : Expire(k)
<1>1. ASSUME NEW w \in Workers, NEW r \in Requests, Receive(w, r)
      PROVE  UNCHANGED store
  BY <1>1 DEF Receive, store
<1>2. ASSUME NEW w \in Workers, Reserve(w) \/ LockMatch(w) \/ Replay(w)
      PROVE  UNCHANGED store
  BY <1>2 DEF Reserve, LockMatch, Replay, store
<1>3. ASSUME NEW w \in Workers, StartWrite(w) \/ AppendWrite(w) \/ ReverseWrite(w)
      PROVE  UNCHANGED store
  BY <1>3 DEF StartWrite, AppendWrite, ReverseWrite, Rollback, Prepare, store
<1>4. ASSUME NEW w \in Workers, Reply(w) \/ Crash(w)
      PROVE  UNCHANGED store
  BY <1>4 DEF Reply, Crash, EndSession, store
<1>5. ASSUME NEW k \in RecordKeys, Expire(k)
      PROVE  UNCHANGED <<match, ledger, reversals, outbox>>
  BY <1>5 DEF Expire
<1>6. ASSUME UNCHANGED vars
      PROVE  UNCHANGED store
  BY <1>6 DEF vars, store
<1>. QED  BY <1>1, <1>2, <1>3, <1>4, <1>5, <1>6 DEF Next, Serve, store

\* An expired record is still a record of the same answer.
LEMMA ExpireStep ==
    ASSUME TypeOK, NEW x \in RecordKeys, Expire(x), NEW k \in RecordKeys
    PROVE  /\ records'[k] # None <=> records[k] # None
           /\ records[k] # None => /\ records'[k].hash = records[k].hash
                                   /\ records'[k].result = records[k].result
<1>1. CASE k # x
  BY <1>1 DEF Expire, TypeOK
<1>2. CASE k = x
  <2>1. records[k] \in Records /\ records'[k] = [records[k] EXCEPT !.expired = TRUE]
    BY <1>2 DEF Expire, TypeOK
  <2>2. records'[k] \in Records
    BY <2>1 DEF Records
  <2>. QED  BY <2>1, <2>2, NoneAssumption DEF Records
<1>. QED  BY <1>1, <1>2

-----------------------------------------------------------------------------
(* What the three writes leave in a draft *)

LEMMA ErrorsAreNoSuccess ==
    /\ \A snapshot : StartError(snapshot) # "ok"
    /\ \A snapshot, r : AppendError(snapshot, r) # "ok"
    /\ \A snapshot, r : ReversalError(snapshot, r) # "ok"
<1>1. \A snapshot : StartError(snapshot) # "ok"
  BY DEF StartError
<1>2. \A snapshot, r : AppendError(snapshot, r) # "ok"
  BY DEF AppendError, ApplyError
<1>3. \A snapshot, r : ReversalError(snapshot, r) # "ok"
  BY DEF ReversalError, ReverseError
<1>. QED  BY <1>1, <1>2, <1>3

\* A request that cannot be carried out is refused with the error, and nothing
\* is written.
LEMMA RefusedWrite ==
    ASSUME TypeOK, NEW w \in Workers, NEW err, Rollback(w, err)
    PROVE  /\ UNCHANGED <<match, ledger, reversals, records, outbox, req>>
           /\ pc'[w] = "reply" /\ reply'[w] = Failure(err)
  BY DEF Rollback, Finish, Goto, store, TypeOK

LEMMA PreparedWrite ==
    ASSUME TypeOK, NEW w \in Workers, NEW next, NEW event, NEW link, NEW result,
           Prepare(w, next, event, link, result)
    PROVE  /\ UNCHANGED <<match, ledger, reversals, records, outbox, req, reply>>
           /\ pc'[w] = "commit"
           /\ draft'[w].match = next /\ draft'[w].event = event
           /\ draft'[w].reversal = link /\ draft'[w].result = result
           /\ draft'[w].row.type = OutboxType(req[w].op)
           /\ draft'[w].row.sequence = next.sequence
           /\ draft'[w].row.snapshot = result.snapshot
  BY DEF Prepare, Goto, store, TypeOK

\* The score that an accepted event leads to fits its column.
LEMMA NewScoreFits ==
    ASSUME NEW score \in [Sides -> Nat], \A s \in Sides : score[s] <= MaxScore,
           NEW side \in Sides, NEW n \in Int, score[side] + n <= MaxScore
    PROVE  \A s \in Sides : [score EXCEPT ![side] = @ + n][s] <= MaxScore
  OBVIOUS

LEMMA StartIsWritten ==
    ASSUME InductiveInvariant, NEW w \in Workers, StartWrite(w)
    PROVE  /\ UNCHANGED <<match, ledger, reversals, records, outbox, req>>
           /\ \/ /\ pc'[w] = "reply"
                 /\ \E err \in Outcomes \ {"ok"} : reply'[w] = Failure(err)
              \/ /\ pc'[w] = "commit" /\ reply' = reply
                 /\ WrittenFor(match, ledger, reversals, req[w], draft'[w])
<1>. DEFINE err  == StartError(read[w])
            next == [read[w] EXCEPT !.status = "LIVE"]
<1>0. TypeOK /\ pc[w] = "write" /\ req[w].op = "start"
  BY DEF InductiveInvariant, StartWrite
<1>1. read[w] = match /\ match \in Snapshots
  BY <1>0, WriterFacts
<1>2. CASE err # "none" /\ Rollback(w, err)
  <2>1. err \in Outcomes \ {"ok"}
    BY <1>2, ErrorTypes, ErrorsAreNoSuccess
  <2>. QED  BY <1>0, <1>2, <2>1, RefusedWrite
<1>3. CASE err = "none" /\ Prepare(w, next, {}, {}, Success(0, read[w]))
  <2>1. match.status = "READY"
    BY <1>1, <1>3 DEF StartError
  <2>. HIDE DEF next
  <2>2. /\ UNCHANGED <<match, ledger, reversals, records, outbox, req, reply>>
        /\ pc'[w] = "commit"
        /\ draft'[w].match = next /\ draft'[w].event = {} /\ draft'[w].reversal = {}
        /\ draft'[w].result = Success(0, match)
        /\ draft'[w].row.type = OutboxType(req[w].op)
    <3>1. Prepare(w, next, {}, {}, Success(0, match))
      BY <1>1, <1>3
    <3>. QED  BY <1>0, <3>1, PreparedWrite
  <2>3. StartWritten(match, draft'[w])
    BY <1>0, <1>1, <2>1, <2>2 DEF StartWritten, OutboxType, next
  <2>. QED  BY <1>0, <2>2, <2>3 DEF WrittenFor
<1>. QED  BY <1>2, <1>3 DEF StartWrite

LEMMA AppendIsWritten ==
    ASSUME InductiveInvariant, ScoresFit, NEW w \in Workers, AppendWrite(w)
    PROVE  /\ UNCHANGED <<match, ledger, reversals, records, outbox, req>>
           /\ \/ /\ pc'[w] = "reply"
                 /\ \E err \in Outcomes \ {"ok"} : reply'[w] = Failure(err)
              \/ /\ pc'[w] = "commit" /\ reply' = reply
                 /\ WrittenFor(match, ledger, reversals, req[w], draft'[w])
<1>. DEFINE r     == req[w]
            err   == AppendError(read[w], r)
            next  == ApplyEvent(read[w], r)
            event == [sequence |-> next.sequence, client |-> r.client, action |-> r.action,
                      side |-> r.side, adjustment |-> r.adjustment]
<1>0. TypeOK /\ pc[w] = "write" /\ r.op = "append"
  BY DEF InductiveInvariant, AppendWrite
<1>1. /\ r \in Requests /\ r.action \in Actions /\ r.side \in Sides
      /\ r.adjustment \in {-1, 1}
      /\ read[w] = match /\ match \in Snapshots
  BY <1>0, WriterFacts, RequestFacts
<1>2. CASE err # "none" /\ Rollback(w, err)
  <2>1. err \in Outcomes \ {"ok"}
    BY <1>2, ErrorTypes, ErrorsAreNoSuccess
  <2>. QED  BY <1>0, <1>2, <2>1, RefusedWrite
<1>3. CASE err = "none" /\ Prepare(w, next, {event}, {}, EventResult(read[w], next))
  <2>1. /\ r.rostered /\ ApplyError(match, r) = "none"
        /\ r.client \notin ClientEvents
        /\ ~(ApplyEvent(match, r).score[r.side] > MaxScore)
    BY <1>1, <1>3 DEF AppendError
  <2>2. /\ next \in Snapshots
        /\ next.status = "LIVE" /\ match.status = "LIVE"
        /\ next.sequence = match.sequence + 1
        /\ next.score = [match.score EXCEPT ![r.side] = @ + ScoreDelta(r)]
    BY <1>1, <2>1, ApplyEventType
  <2>3. match.sequence = r.expected
    BY <2>1 DEF ApplyError
  <2>4. \A s \in Sides : next.score[s] <= MaxScore
    <3>1. match.score \in [Sides -> Nat] /\ ScoreDelta(r) \in Int
      BY <1>1, ScoreDeltaType DEF Snapshots
    <3>2. match.score[r.side] + ScoreDelta(r) <= MaxScore
      BY <1>1, <2>1, <2>2, <3>1, MaxScoreAssumption
    <3>. QED  BY <1>1, <2>2, <3>1, <3>2, NewScoreFits DEF ScoresFit
  <2>5. Prepare(w, next, {event}, {}, Success(match.sequence + 1, next))
    BY <1>3, <2>2 DEF EventResult
  <2>6. event = NewEvent(match, r, r.action, r)
    BY <2>2 DEF NewEvent
  <2>7. \A f \in ledger : f.client # r.client
    BY <2>1 DEF ClientEvents
  <2>. HIDE DEF next, event
  <2>8. /\ UNCHANGED <<match, ledger, reversals, records, outbox, req, reply>>
        /\ pc'[w] = "commit"
        /\ draft'[w].match = next /\ draft'[w].event = {event} /\ draft'[w].reversal = {}
        /\ draft'[w].result = Success(match.sequence + 1, next)
        /\ draft'[w].row.type = OutboxType(r.op)
        /\ draft'[w].row.sequence = next.sequence /\ draft'[w].row.snapshot = next
    <3>1. Success(match.sequence + 1, next).snapshot = next
      BY DEF Success
    <3>. QED  BY <1>0, <2>5, <3>1, PreparedWrite
  <2>9. EventWritten(match, ledger, r, draft'[w], event)
    BY <2>2, <2>3, <2>4, <2>7, <2>8 DEF EventWritten
  <2>10. AppendWritten(match, ledger, r, draft'[w])
    BY <1>0, <2>1, <2>6, <2>8, <2>9 DEF AppendWritten, OutboxType
  <2>. QED  BY <1>0, <2>8, <2>10 DEF WrittenFor
<1>. QED  BY <1>2, <1>3 DEF AppendWrite

LEMMA ReverseIsWritten ==
    ASSUME InductiveInvariant, ScoresFit, NEW w \in Workers, ReverseWrite(w)
    PROVE  /\ UNCHANGED <<match, ledger, reversals, records, outbox, req>>
           /\ \/ /\ pc'[w] = "reply"
                 /\ \E err \in Outcomes \ {"ok"} : reply'[w] = Failure(err)
              \/ /\ pc'[w] = "commit" /\ reply' = reply
                 /\ WrittenFor(match, ledger, reversals, req[w], draft'[w])
<1>. DEFINE r        == req[w]
            err      == ReversalError(read[w], r)
            original == EventAt(r.target)
            next     == ReverseEvent(read[w], original)
            event    == [sequence |-> next.sequence, client |-> r.client,
                         action |-> "EVENT_REVERSAL", side |-> original.side,
                         adjustment |-> original.adjustment]
            link     == [reversal |-> next.sequence, reversed |-> r.target]
<1>0. TypeOK /\ pc[w] = "write" /\ r.op = "reverse"
  BY DEF InductiveInvariant, ReverseWrite
<1>1. r \in Requests /\ read[w] = match /\ match \in Snapshots
  BY <1>0, WriterFacts
<1>2. CASE err # "none" /\ Rollback(w, err)
  <2>1. err \in Outcomes \ {"ok"}
    BY <1>2, ErrorTypes, ErrorsAreNoSuccess
  <2>. QED  BY <1>0, <1>2, <2>1, RefusedWrite
<1>3. CASE err = "none" /\ Prepare(w, next, {event}, {link}, EventResult(read[w], next))
  <2>1. /\ match.sequence = r.expected
        /\ \E e \in ledger : e.sequence = r.target
        /\ ~Reversed(r.target)
        /\ ReverseError(match, original) = "none"
        /\ r.client \notin ClientEvents
        /\ ~(ReverseEvent(match, original).score[original.side] > MaxScore)
    BY <1>1, <1>3 DEF ReversalError
  <2>2. original \in ledger /\ original.sequence = r.target
    BY <2>1 DEF EventAt
  <2>3. /\ original.action \in Actions /\ original.side \in Sides
        /\ original.adjustment \in {-1, 1}
    BY <1>0, <2>2 DEF TypeOK, Events
  <2>. HIDE DEF original
  <2>4. /\ next \in Snapshots
        /\ next.status = "LIVE" /\ match.status = "LIVE"
        /\ next.sequence = match.sequence + 1
        /\ next.score = [match.score EXCEPT ![original.side] = @ - ScoreDelta(original)]
        /\ ScoreDelta(original) # 0
    BY <1>1, <2>1, <2>3, ReverseEventType
  <2>5. \A s \in Sides : next.score[s] <= MaxScore
    <3>1. match.score \in [Sides -> Nat] /\ ScoreDelta(original) \in Int
      BY <1>1, <2>3, ScoreDeltaType DEF Snapshots
    <3>2. next.score[original.side] = match.score[original.side] - ScoreDelta(original)
      BY <2>3, <2>4, <3>1
    <3>3. match.score[original.side] - ScoreDelta(original) <= MaxScore
      BY <1>1, <2>1, <2>3, <3>1, <3>2, MaxScoreAssumption
    <3>4. \A s \in Sides : next.score[s] = IF s = original.side
                               THEN match.score[s] - ScoreDelta(original) ELSE match.score[s]
      BY <2>4, <3>1
    <3>. QED  BY <3>3, <3>4 DEF ScoresFit
  <2>6. Prepare(w, next, {event}, {link}, Success(match.sequence + 1, next))
    BY <1>3, <2>4 DEF EventResult
  <2>7. /\ event = NewEvent(match, r, "EVENT_REVERSAL", original)
        /\ link = [reversal |-> match.sequence + 1, reversed |-> r.target]
    BY <2>4 DEF NewEvent
  <2>8. \A f \in ledger : f.client # r.client
    BY <2>1 DEF ClientEvents
  <2>. HIDE DEF next, event, link
  <2>9. /\ UNCHANGED <<match, ledger, reversals, records, outbox, req, reply>>
        /\ pc'[w] = "commit"
        /\ draft'[w].match = next /\ draft'[w].event = {event}
        /\ draft'[w].reversal = {link}
        /\ draft'[w].result = Success(match.sequence + 1, next)
        /\ draft'[w].row.type = OutboxType(r.op)
        /\ draft'[w].row.sequence = next.sequence /\ draft'[w].row.snapshot = next
    <3>1. Success(match.sequence + 1, next).snapshot = next
      BY DEF Success
    <3>. QED  BY <1>0, <2>6, <3>1, PreparedWrite
  <2>10. EventWritten(match, ledger, r, draft'[w], event)
    BY <2>1, <2>4, <2>5, <2>8, <2>9 DEF EventWritten
  <2>11. \A l \in reversals : l.reversed # r.target
    BY <2>1 DEF Reversed
  <2>12. ReverseWritten(match, ledger, reversals, r, draft'[w])
    BY <1>0, <2>2, <2>4, <2>7, <2>9, <2>10, <2>11 DEF ReverseWritten, OutboxType
  <2>. QED  BY <1>0, <2>9, <2>12 DEF WrittenFor
<1>. QED  BY <1>2, <1>3 DEF ReverseWrite

-----------------------------------------------------------------------------
(* What a commit does to the tables, the outbox and the answers *)

\* The commit of a start, an append or a reversal.
LEMMA CommitWritten ==
    ASSUME AnswerInvariant, NEW w \in Workers, Commit(w)
    PROVE  /\ InductiveInvariant /\ TypeOK /\ InductiveInvariant'
           /\ WrittenFor(match, ledger, reversals, req[w], draft[w])
           /\ req[w] \in Requests
           /\ match' = draft[w].match /\ match'.status = "LIVE"
           /\ ledger' = ledger \union draft[w].event
           /\ reversals' = reversals \union draft[w].reversal
           /\ outbox' = Append(outbox, draft[w].row)
           /\ match.status = "LIVE" => match'.status = "LIVE"
<1>1. InductiveInvariant /\ TypeOK /\ pc[w] = "commit"
  BY DEF AnswerInvariant, InductiveInvariant, Commit
<1>2. InductiveInvariant'
  <2>1. Next
    BY DEF Next, Serve
  <2>. QED  BY <1>1, <2>1, InvStep
<1>3. WrittenFor(match, ledger, reversals, req[w], draft[w])
  BY <1>1 DEF AnswerInvariant, WorkerOK
<1>4. req[w] \in Requests
  BY <1>1 DEF InductiveInvariant, SessionOK
<1>5. draft[w].match.status = "LIVE"
  <2>1. match \in Snapshots
    BY <1>1 DEF TypeOK
  <2>. QED
    BY <1>3, <2>1 DEF WrittenFor, StartWritten, AppendWritten, ReverseWritten, EventWritten, Snapshots
<1>. QED  BY <1>1, <1>2, <1>3, <1>4, <1>5 DEF Commit

\* A committed event is the next one, of a client_event_id that was not in the
\* ledger.
LEMMA CommittedEvent ==
    ASSUME AnswerInvariant, NEW w \in Workers, Commit(w), req[w].op # "start"
    PROVE  /\ match.status = "LIVE" /\ match.sequence = req[w].expected
           /\ match.sequence \in Nat
           /\ \A f \in ledger : f.client # req[w].client
           /\ \E e : /\ ledger' = ledger \union {e}
                     /\ e.sequence = match.sequence + 1 /\ e.client = req[w].client
                     /\ e.action = "EVENT_REVERSAL"
                          <=> draft[w].row.type = "match.event-reversed.v1"
           /\ match'.sequence = match.sequence + 1
           /\ match' \in Snapshots /\ match'.status = "LIVE"
           /\ \A s \in Sides : match'.score[s] <= MaxScore
           /\ EventRow(draft[w].row)
           /\ draft[w].row.sequence = match.sequence + 1
           /\ draft[w].row.snapshot = match'
           /\ draft[w].result = Success(match.sequence + 1, match')
<1>. DEFINE r == req[w]  d == draft[w]
<1>1. /\ WrittenFor(match, ledger, reversals, r, d) /\ r \in Requests /\ TypeOK /\ TypeOK'
      /\ match' = d.match /\ ledger' = ledger \union d.event
  BY CommitWritten DEF InductiveInvariant
<1>2. match.sequence \in Nat /\ match' \in Snapshots
  BY <1>1 DEF TypeOK, Snapshots
<1>3. \E e : /\ EventWritten(match, ledger, r, d, e)
             /\ e.sequence = match.sequence + 1 /\ e.client = r.client
             /\ EventRow(d.row)
             /\ e.action = "EVENT_REVERSAL" <=> d.row.type = "match.event-reversed.v1"
  <2>1. CASE AppendWritten(match, ledger, r, d)
    <3>1. r.action # "EVENT_REVERSAL"
      BY <1>1, RequestFacts
    <3>. QED  BY <2>1, <3>1 DEF AppendWritten, NewEvent, EventRow
  <2>2. CASE ReverseWritten(match, ledger, reversals, r, d)
    BY <2>2 DEF ReverseWritten, NewEvent, EventRow
  <2>. QED  BY <1>1, <2>1, <2>2 DEF WrittenFor
<1>. HIDE DEF r, d
<1>4. PICK e : /\ EventWritten(match, ledger, r, d, e)
               /\ e.sequence = match.sequence + 1 /\ e.client = r.client
               /\ EventRow(d.row)
               /\ e.action = "EVENT_REVERSAL" <=> d.row.type = "match.event-reversed.v1"
  BY <1>3
<1>5. ledger' = ledger \union {e}
  BY <1>1, <1>4 DEF EventWritten
<1>6. /\ match.status = "LIVE" /\ match.sequence = r.expected
      /\ \A f \in ledger : f.client # r.client
      /\ match'.sequence = match.sequence + 1 /\ match'.status = "LIVE"
      /\ \A s \in Sides : match'.score[s] <= MaxScore
      /\ d.row.sequence = match.sequence + 1
      /\ d.row.snapshot = match'
      /\ d.result = Success(match.sequence + 1, match')
  BY <1>1, <1>4 DEF EventWritten
<1>. QED  BY <1>2, <1>4, <1>5, <1>6 DEF r, d

\* A committed start finds an empty ledger and leaves it empty.
LEMMA CommittedStart ==
    ASSUME AnswerInvariant, NEW w \in Workers, Commit(w), req[w].op = "start"
    PROVE  /\ match.sequence = 0 /\ match \in Snapshots
           /\ ledger' = ledger /\ reversals' = reversals
           /\ match'.sequence = match.sequence /\ match'.score = match.score
           /\ ~EventRow(draft[w].row)
           /\ draft[w].result = Success(0, match)
<1>1. /\ WrittenFor(match, ledger, reversals, req[w], draft[w]) /\ TypeOK
      /\ match' = draft[w].match /\ ledger' = ledger \union draft[w].event
      /\ reversals' = reversals \union draft[w].reversal
  BY CommitWritten
<1>2. StartWritten(match, draft[w])
  BY <1>1 DEF WrittenFor
<1>3. match.sequence = 0
  BY <1>2 DEF AnswerInvariant, TablesOK, StatusOK, StartWritten
<1>4. match \in Snapshots
  BY <1>1 DEF TypeOK
<1>. QED  BY <1>1, <1>2, <1>3, <1>4 DEF StartWritten, EventRow, Snapshots

LEMMA CommitTables ==
    ASSUME AnswerInvariant, NEW w \in Workers, Commit(w)
    PROVE  TablesOK'
<1>0. ClientsAreUnique /\ ScoresFit /\ match'.status = "LIVE"
  BY CommitWritten DEF AnswerInvariant, TablesOK
<1>1. CASE req[w].op = "start"
  BY <1>0, <1>1, CommittedStart DEF TablesOK, ClientsAreUnique, StatusOK, ScoresFit
<1>2. CASE req[w].op # "start"
  <2>1. ClientsAreUnique'
    <3>1. PICK e : ledger' = ledger \union {e} /\ e.client = req[w].client
      BY <1>2, CommittedEvent
    <3>2. \A f \in ledger : f.client # e.client
      BY <1>2, <3>1, CommittedEvent
    <3>. QED  BY <1>0, <3>1, <3>2 DEF ClientsAreUnique
  <2>2. ScoresFit'
    BY <1>2, CommittedEvent DEF ScoresFit
  <2>. QED  BY <1>0, <2>1, <2>2 DEF TablesOK, StatusOK
<1>. QED  BY <1>1, <1>2

\* The response that is stored and told is right.
LEMMA CommitAnswers ==
    ASSUME AnswerInvariant, NEW w \in Workers, Commit(w)
    PROVE  /\ Answers(match', ledger', reversals', req[w], draft[w].result)
           /\ draft[w].result.outcome = "ok" /\ draft[w].result \in Results
<1>0. /\ InductiveInvariant /\ InductiveInvariant' /\ match'.status = "LIVE"
      /\ TypeOK
  BY CommitWritten
<1>1. /\ match.score = ScoreAfter(ledger, reversals, match.sequence)
      /\ match'.score = ScoreAfter(ledger', reversals', match'.sequence)
  <2>1. ScoreIsDerived /\ ScoreIsDerived'
    BY <1>0 DEF InductiveInvariant
  <2>. QED  BY <2>1, LedgerScoreIsAfter DEF ScoreIsDerived
<1>2. CASE req[w].op = "start"
  <2>1. /\ match.sequence = 0 /\ match \in Snapshots
        /\ ledger' = ledger /\ reversals' = reversals
        /\ draft[w].result = Success(0, match)
    BY <1>2, CommittedStart
  <2>2. Success(0, match) \in Results
    BY <2>1, ResultTypes
  <2>. QED  BY <1>0, <1>1, <1>2, <2>1, <2>2 DEF Answers, Success
<1>3. CASE req[w].op # "start"
  <2>1. /\ match.sequence = req[w].expected /\ match.sequence \in Nat
        /\ \E e : /\ ledger' = ledger \union {e}
                  /\ e.sequence = match.sequence + 1 /\ e.client = req[w].client
        /\ match'.sequence = match.sequence + 1
        /\ match' \in Snapshots /\ match'.status = "LIVE"
        /\ draft[w].result = Success(match.sequence + 1, match')
    BY <1>3, CommittedEvent
  <2>2. Success(match.sequence + 1, match') \in Results
    BY <2>1, ResultTypes
  <2>3. match' = [status |-> "LIVE", sequence |-> match.sequence + 1,
                  score |-> ScoreAfter(ledger', reversals', match.sequence + 1)]
    BY <1>1, <2>1 DEF Snapshots
  <2>4. /\ draft[w].result.event = match.sequence + 1
        /\ draft[w].result.snapshot = match'
        /\ draft[w].result.outcome = "ok"
    BY <2>1 DEF Success
  <2>5. \E e \in ledger' : e.client = req[w].client /\ e.sequence = draft[w].result.event
    BY <2>1, <2>4
  <2>. QED  BY <1>3, <2>1, <2>2, <2>3, <2>4, <2>5 DEF Answers
<1>. QED  BY <1>2, <1>3

LEMMA CommitOutbox ==
    ASSUME AnswerInvariant, NEW w \in Workers, Commit(w)
    PROVE  OutboxFollowsLedger'
<1>. DEFINE n    == Len(outbox)
            row  == draft[w].row
            rows == {i \in DOMAIN outbox : EventRow(outbox[i])}
            next == {i \in DOMAIN outbox' : EventRow(outbox'[i])}
<1>0. /\ InductiveInvariant /\ InductiveInvariant' /\ TypeOK /\ match.sequence \in Nat
      /\ outbox' = Append(outbox, row)
  BY CommitWritten DEF TypeOK, Snapshots
<1>1. /\ n \in Nat /\ DOMAIN outbox = 1 .. n /\ DOMAIN outbox' = 1 .. n + 1
      /\ \A i \in 1 .. n : outbox'[i] = outbox[i]
      /\ outbox'[n + 1] = row
  <2>1. outbox \in Seq(Rows)
    BY <1>0 DEF TypeOK
  <2>2. row \in Rows
    BY <1>0 DEF InductiveInvariant, SessionOK, DraftOK, Drafts, Commit
  <2>. HIDE DEF row
  <2>. QED  BY <1>0, <2>1, <2>2, AppendProperties
<1>2. /\ {outbox[i].sequence : i \in rows} = 1 .. match.sequence
      /\ \A i, j \in rows : i < j => outbox[i].sequence < outbox[j].sequence
      /\ \A i \in rows :
            /\ outbox[i].snapshot.score = LedgerScore(outbox[i].sequence)
            /\ \E e \in ledger :
                  /\ e.sequence = outbox[i].sequence
                  /\ e.action = "EVENT_REVERSAL"
                       <=> outbox[i].type = "match.event-reversed.v1"
  BY DEF AnswerInvariant, OutboxFollowsLedger
<1>3. ledger \subseteq ledger'
  BY <1>0, CommitBringsLater
<1>4. \A i \in rows :
         /\ i \in 1 .. n /\ outbox'[i] = outbox[i]
         /\ outbox[i].sequence \in 1 .. match.sequence
         /\ outbox[i].snapshot.score = ScoreAfter(ledger', reversals', outbox[i].sequence)
  <2>1. \A i \in rows : i \in 1 .. n /\ outbox'[i] = outbox[i]
                        /\ outbox[i].sequence \in 1 .. match.sequence
    BY <1>1, <1>2
  <2>2. \A k \in 1 .. match.sequence :
           ScoreAfter(ledger', reversals', k) = ScoreAfter(ledger, reversals, k)
    BY <1>0, ScoreStays
  <2>. QED  BY <1>2, <2>1, <2>2, LedgerScoreIsAfter
<1>5. SUFFICES
         /\ {outbox'[i].sequence : i \in next} = 1 .. match'.sequence
         /\ \A i, j \in next : i < j => outbox'[i].sequence < outbox'[j].sequence
         /\ \A i \in next :
               /\ outbox'[i].snapshot.score
                    = ScoreAfter(ledger', reversals', outbox'[i].sequence)
               /\ \E e \in ledger' :
                     /\ e.sequence = outbox'[i].sequence
                     /\ e.action = "EVENT_REVERSAL"
                          <=> outbox'[i].type = "match.event-reversed.v1"
  BY DEF OutboxFollowsLedger, LedgerScore, Counting, ScoreAfter, CountAfter, EventRow
<1>6. \A i \in 1 .. n : i \in next <=> i \in rows
  BY <1>1
<1>7. CASE req[w].op = "start"
  <2>1. match'.sequence = match.sequence /\ ~EventRow(row)
    BY <1>7, CommittedStart
  <2>2. next = rows
    BY <1>1, <1>6, <2>1
  <2>. HIDE DEF rows, next
  <2>3. {outbox'[i].sequence : i \in next} = {outbox[i].sequence : i \in rows}
    BY <1>4, <2>2
  <2>. QED  BY <1>2, <1>3, <1>4, <2>1, <2>2, <2>3
<1>8. CASE req[w].op # "start"
  <2>1. PICK e : /\ ledger' = ledger \union {e}
                 /\ e.sequence = match.sequence + 1
                 /\ e.action = "EVENT_REVERSAL" <=> row.type = "match.event-reversed.v1"
    BY <1>8, CommittedEvent
  <2>2. /\ match'.sequence = match.sequence + 1
        /\ EventRow(row) /\ row.sequence = match.sequence + 1 /\ row.snapshot = match'
    BY <1>8, CommittedEvent
  <2>3. match'.score = ScoreAfter(ledger', reversals', match.sequence + 1)
    <3>1. ScoreIsDerived'
      BY <1>0 DEF InductiveInvariant
    <3>. QED  BY <2>2, <3>1, LedgerScoreIsAfter DEF ScoreIsDerived
  <2>4. next = rows \union {n + 1} /\ n + 1 \notin rows
    BY <1>1, <1>6, <2>2
  <2>. HIDE DEF rows, next, row, n
  <2>5. {outbox'[i].sequence : i \in next}
          = {outbox[i].sequence : i \in rows} \union {match.sequence + 1}
    BY <1>1, <1>4, <2>2, <2>4
  <2>6. {outbox'[i].sequence : i \in next} = 1 .. match'.sequence
    <3>1. 1 .. match.sequence + 1 = (1 .. match.sequence) \union {match.sequence + 1}
      BY <1>0
    <3>. QED  BY <1>2, <2>2, <2>5, <3>1
  <2>7. ASSUME NEW i \in next, NEW j \in next, i < j
        PROVE  outbox'[i].sequence < outbox'[j].sequence
    <3>1. i \in rows
      BY <1>1, <1>4, <2>4, <2>7
    <3>. QED  BY <1>0, <1>1, <1>2, <1>4, <2>2, <2>4, <2>7, <3>1
  <2>8. ASSUME NEW i \in next
        PROVE  /\ outbox'[i].snapshot.score
                    = ScoreAfter(ledger', reversals', outbox'[i].sequence)
               /\ \E f \in ledger' :
                     /\ f.sequence = outbox'[i].sequence
                     /\ f.action = "EVENT_REVERSAL"
                          <=> outbox'[i].type = "match.event-reversed.v1"
    <3>1. CASE i \in rows
      BY <1>2, <1>3, <1>4, <3>1
    <3>2. CASE i = n + 1
      BY <1>1, <2>1, <2>2, <2>3, <3>2
    <3>. QED  BY <2>4, <3>1, <3>2
  <2>. QED  BY <2>6, <2>7, <2>8
<1>. QED  BY <1>7, <1>8

-----------------------------------------------------------------------------
(* The invariant is inductive *)

LEMMA TablesStep ==
    ASSUME AnswerInvariant, [Next]_vars
    PROVE  TablesOK' /\ OutboxFollowsLedger'
<1>0. TypeOK /\ TablesOK /\ OutboxFollowsLedger
  BY DEF AnswerInvariant, InductiveInvariant
<1>1. ASSUME \A w \in Workers : ~Commit(w)
      PROVE  TablesOK' /\ OutboxFollowsLedger'
  <2>1. UNCHANGED <<match, ledger, reversals, outbox>>
    BY <1>0, <1>1, QuietStep
  <2>2. TablesOK'
    BY <1>0, <2>1 DEF TablesOK, ClientsAreUnique, StatusOK, ScoresFit
  <2>3. OutboxFollowsLedger'
    BY <1>0, <2>1 DEF OutboxFollowsLedger, EventRow, LedgerScore, Counting
  <2>. QED  BY <2>2, <2>3
<1>2. ASSUME NEW w \in Workers, Commit(w)
      PROVE  TablesOK' /\ OutboxFollowsLedger'
  BY <1>2, CommitTables, CommitOutbox
<1>. QED  BY <1>1, <1>2

LEMMA AnswersHold ==
    ASSUME AnswerInvariant, [Next]_vars,
           NEW r, NEW result, Answers(match, ledger, reversals, r, result)
    PROVE  Answers(match', ledger', reversals', r, result)
<1>0. InductiveInvariant /\ TypeOK
  BY DEF AnswerInvariant, InductiveInvariant
<1>1. ASSUME \A w \in Workers : ~Commit(w)
      PROVE  Answers(match', ledger', reversals', r, result)
  BY <1>0, <1>1, QuietStep
<1>2. ASSUME NEW w \in Workers, Commit(w)
      PROVE  Answers(match', ledger', reversals', r, result)
  BY <1>0, <1>2, CommitWritten, AnswersStay
<1>. QED  BY <1>1, <1>2

\* A stored response stays, except that a retry after a day replaces it by one of
\* its own.
LEMMA RecordStep ==
    ASSUME AnswerInvariant, [Next]_vars, NEW k \in RecordKeys
    PROVE  /\ records[k] # None => records'[k] # None
           /\ RecordOK(k)'
<1>0. TypeOK /\ RecordOK(k)
  BY DEF AnswerInvariant, InductiveInvariant
<1>1. ASSUME records[k] # None, records'[k].hash = records[k].hash,
             records'[k].result = records[k].result
      PROVE  RecordOK(k)'
  <2>1. PICK r \in Requests : /\ RecordKey(r) = k
                              /\ records[k].hash = RequestHash(r)
                              /\ records[k].result.outcome = "ok"
                              /\ Answers(match, ledger, reversals, r, records[k].result)
    BY <1>0, <1>1 DEF RecordOK
  <2>2. Answers(match', ledger', reversals', r, records'[k].result)
    BY <1>1, <2>1, AnswersHold
  <2>. QED  BY <1>1, <2>1, <2>2 DEF RecordOK
<1>2. ASSUME records[k] = None, records'[k] = None
      PROVE  RecordOK(k)'
  BY <1>2 DEF RecordOK
<1>3. ASSUME \A w \in Workers : ~Commit(w)
      PROVE  /\ records[k] # None => records'[k] # None
             /\ RecordOK(k)'
  <2>1. UNCHANGED records \/ \E x \in RecordKeys : Expire(x)
    BY <1>0, <1>3, QuietStep
  <2>2. CASE UNCHANGED records
    BY <1>1, <1>2, <2>2
  <2>3. ASSUME NEW x \in RecordKeys, Expire(x)
        PROVE  /\ records[k] # None => records'[k] # None
               /\ RecordOK(k)'
    BY <1>0, <1>1, <1>2, <2>3, ExpireStep
  <2>. QED  BY <2>1, <2>2, <2>3
<1>4. ASSUME NEW w \in Workers, Commit(w)
      PROVE  /\ records[k] # None => records'[k] # None
             /\ RecordOK(k)'
  <2>. DEFINE record == [hash |-> RequestHash(req[w]), result |-> draft[w].result,
                         expired |-> FALSE]
  <2>1. records' = [records EXCEPT ![RecordKey(req[w])] = record] /\ req[w] \in Requests
    BY <1>4, CommitWritten DEF Commit
  <2>2. CASE k # RecordKey(req[w])
    <3>1. records'[k] = records[k]
      BY <1>0, <2>1, <2>2 DEF TypeOK
    <3>. QED  BY <1>1, <1>2, <3>1
  <2>3. CASE k = RecordKey(req[w])
    <3>1. records'[k] = record
      BY <1>0, <2>1, <2>3 DEF TypeOK
    <3>2. /\ Answers(match', ledger', reversals', req[w], record.result)
          /\ record.result.outcome = "ok" /\ record.result \in Results
      BY <1>4, CommitAnswers
    <3>3. record.hash = RequestHash(req[w]) /\ record.expired = FALSE
      OBVIOUS
    <3>4. record \in Records
      BY <2>1, <3>2 DEF Records
    <3>. HIDE DEF record
    <3>5. record # None
      BY <3>4, NoneAssumption
    <3>. QED  BY <2>1, <2>3, <3>1, <3>2, <3>3, <3>5 DEF RecordOK
  <2>. QED  BY <2>2, <2>3
<1>. QED  BY <1>3, <1>4

\* The same key and the same digest belong to requests that the same answer fits.
LEMMA SameDigest ==
    ASSUME NEW q \in Requests, NEW r \in Requests,
           RecordKey(q) = RecordKey(r), RequestHash(q) = RequestHash(r),
           NEW m, NEW L, NEW R, NEW result, Answers(m, L, R, q, result)
    PROVE  Answers(m, L, R, r, result)
<1>1. q.op = r.op /\ (q.op # "start" => q.client = r.client)
  BY DEF RecordKey
<1>2. CASE q.op = "start"
  BY <1>1, <1>2 DEF Answers
<1>3. CASE q.op # "start"
  <2>1. q.op \in {"append", "reverse"}
    BY <1>3, RequestFacts DEF Ops
  <2>2. q.expected = r.expected
    <3>1. CASE q.op = "append"
      <4>1. <<q.client, q.expected, q.action, q.side, q.adjustment, q.rostered>>
              = <<r.client, r.expected, r.action, r.side, r.adjustment, r.rostered>>
        BY <1>1, <3>1 DEF RequestHash
      <4>. QED  BY <4>1
    <3>2. CASE q.op = "reverse"
      <4>1. <<q.client, q.expected>> = <<r.client, r.expected>>
        BY <1>1, <3>2 DEF RequestHash
      <4>. QED  BY <4>1
    <3>. QED  BY <2>1, <3>1, <3>2
  <2>. QED  BY <1>1, <1>3, <2>2 DEF Answers
<1>. QED  BY <1>2, <1>3

\* A replayed answer was given to a request with the same digest.
LEMMA ReplayStep ==
    ASSUME AnswerInvariant, NEW w \in Workers, Replay(w)
    PROVE  /\ pc'[w] = "reply" /\ reply'[w] # None /\ req' = req /\ UNCHANGED store
           /\ \/ reply'[w] = Failure("ErrIdempotencyConflict")
              \/ /\ reply'[w].outcome = "ok"
                 /\ Answers(match, ledger, reversals, req[w], reply'[w])
<1>. DEFINE k == RecordKey(req[w])
            record == records[k]
<1>0. /\ TypeOK /\ pc[w] = "replay" /\ req[w] \in Requests /\ k \in RecordKeys
  BY RequestFacts DEF AnswerInvariant, InductiveInvariant, SessionOK, Replay
<1>1. record # None /\ record \in Records /\ RecordOK(k)
  BY <1>0 DEF AnswerInvariant, WorkerOK, TypeOK
<1>2. PICK q \in Requests : /\ RecordKey(q) = k
                            /\ record.hash = RequestHash(q)
                            /\ record.result.outcome = "ok"
                            /\ Answers(match, ledger, reversals, q, record.result)
  BY <1>1 DEF RecordOK
<1>3. /\ req' = req /\ UNCHANGED store /\ pc'[w] = "reply"
      /\ reply'[w] = IF record.hash # RequestHash(req[w])
                     THEN Failure("ErrIdempotencyConflict") ELSE record.result
  BY <1>0, <1>1 DEF Replay, Finish, Goto, TypeOK
<1>4. CASE record.hash = RequestHash(req[w])
  <2>1. record.result \in Results
    BY <1>1 DEF Records
  <2>2. Answers(match, ledger, reversals, req[w], record.result)
    BY <1>0, <1>2, <1>4, SameDigest
  <2>. QED  BY <1>2, <1>3, <1>4, <2>1, <2>2, NoneAssumption
<1>5. CASE record.hash # RequestHash(req[w])
  <2>1. Failure("ErrIdempotencyConflict") \in Results
    BY ResultTypes DEF Outcomes
  <2>. QED  BY <1>3, <1>5, <2>1, NoneAssumption
<1>. QED  BY <1>4, <1>5

\* A worker that does not move is not disturbed by the others.
LEMMA WaitingStep ==
    ASSUME AnswerInvariant, [Next]_vars, NEW v \in Workers,
           pc'[v] = pc[v], req'[v] = req[v], reply'[v] = reply[v],
           \A k \in RecordKeys : owner[k] = v => owner'[k] = v
    PROVE  WorkerOK(v)'
<1>. DEFINE k == RecordKey(req[v])
<1>0. InductiveInvariant /\ TypeOK /\ WorkerOK(v)
  BY DEF AnswerInvariant, InductiveInvariant
<1>1. ASSUME pc[v] \in {"lock", "replay"}
      PROVE  /\ owner[k] = v => owner'[k] = v
             /\ records[k] # None => records'[k] # None
  <2>1. k \in RecordKeys
    BY <1>0, <1>1 DEF InductiveInvariant, SessionOK, RecordKeys
  <2>. QED  BY <2>1, RecordStep
<1>2. ASSUME pc[v] = "commit"
      PROVE  WrittenFor(match', ledger', reversals', req[v], draft'[v])
  <2>1. WrittenFor(match, ledger, reversals, req[v], draft[v])
    BY <1>0, <1>2 DEF WorkerOK
  <2>2. /\ draft'[v] = draft[v] /\ match' = match
        /\ ledger' = ledger /\ reversals' = reversals
    BY <1>0, <1>2, OthersKeepTheirLocks
  <2>. QED  BY <2>1, <2>2
<1>3. ASSUME pc[v] = "reply", reply[v].outcome = "ok"
      PROVE  Answers(match', ledger', reversals', req[v], reply[v])
  BY <1>0, <1>3, AnswersHold DEF WorkerOK
<1>. HIDE DEF k
<1>4. /\ pc'[v] = "idle" <=> req'[v] = None
      /\ pc'[v] = "reply" <=> reply'[v] # None
  BY <1>0 DEF WorkerOK
<1>5. /\ pc'[v] = "lock" => owner'[k] = v \/ records'[k] # None
      /\ pc'[v] = "replay" => records'[k] # None
  BY <1>0, <1>1 DEF WorkerOK, k
<1>. QED  BY <1>2, <1>3, <1>4, <1>5 DEF WorkerOK, k

\* The steps of a worker itself.
LEMMA ReceiveKeepsWorker ==
    ASSUME AnswerInvariant, NEW w \in Workers, NEW r \in Requests, Receive(w, r)
    PROVE  WorkerOK(w)'
<1>1. TypeOK /\ WorkerOK(w) /\ r # None
  BY RequestsAssumption DEF AnswerInvariant, InductiveInvariant
<1>2. pc[w] = "idle" /\ pc'[w] = "reserve" /\ req'[w] = r /\ reply'[w] = reply[w]
  BY <1>1 DEF Receive, Goto, TypeOK
<1>. QED  BY <1>1, <1>2 DEF WorkerOK

LEMMA LocksKeepWorker ==
    ASSUME AnswerInvariant, NEW w \in Workers, Reserve(w) \/ LockMatch(w)
    PROVE  WorkerOK(w)'
<1>. DEFINE k == RecordKey(req[w])
<1>0. TypeOK /\ WorkerOK(w) /\ pc[w] \in {"reserve", "lock"} /\ k \in RecordKeys
  BY DEF AnswerInvariant, InductiveInvariant, SessionOK, Reserve, LockMatch, RecordKeys
<1>1. req' = req /\ reply' = reply /\ records' = records
  BY DEF Reserve, LockMatch, store
<1>2. CASE Reserve(w)
  <2>1. CASE Reservable(k)
    BY <1>0, <1>1, <1>2, <2>1 DEF Reserve, Goto, TypeOK, WorkerOK, Reservable
  <2>2. CASE ~Reservable(k)
    <3>1. records[k] # None
      BY <2>2 DEF Reservable
    <3>2. pc'[w] \in {"lock", "replay"}
      BY <1>0, <1>2, <2>2 DEF Reserve, Goto, TypeOK
    <3>. QED  BY <1>0, <1>1, <3>1, <3>2 DEF WorkerOK
  <2>. QED  BY <2>1, <2>2
<1>3. CASE LockMatch(w)
  <2>1. /\ pc[w] = "lock" /\ pc'[w] \in {"write", "replay"}
        /\ owner[k] # w => pc'[w] = "replay"
        /\ owner[k] = w => pc'[w] = "write"
    BY <1>0, <1>3 DEF LockMatch, Goto, TypeOK
  <2>. QED  BY <1>0, <1>1, <2>1 DEF WorkerOK
<1>. QED  BY <1>2, <1>3

\* What a write leaves behind, whichever of the three it is.
LEMMA WriteOutcome ==
    ASSUME AnswerInvariant, NEW w \in Workers,
           StartWrite(w) \/ AppendWrite(w) \/ ReverseWrite(w)
    PROVE  /\ UNCHANGED <<match, ledger, reversals, records, outbox, req>>
           /\ \/ /\ pc'[w] = "reply"
                 /\ \E err \in Outcomes \ {"ok"} : reply'[w] = Failure(err)
              \/ /\ pc'[w] = "commit" /\ reply' = reply
                 /\ WrittenFor(match, ledger, reversals, req[w], draft'[w])
<1>1. InductiveInvariant /\ ScoresFit
  BY DEF AnswerInvariant, TablesOK
<1>2. CASE StartWrite(w)
  BY <1>1, <1>2, StartIsWritten
<1>3. CASE AppendWrite(w)
  BY <1>1, <1>3, AppendIsWritten
<1>4. CASE ReverseWrite(w)
  BY <1>1, <1>4, ReverseIsWritten
<1>. QED  BY <1>2, <1>3, <1>4

LEMMA WritesKeepWorker ==
    ASSUME AnswerInvariant, NEW w \in Workers,
           StartWrite(w) \/ AppendWrite(w) \/ ReverseWrite(w)
    PROVE  WorkerOK(w)'
<1>0. WorkerOK(w) /\ pc[w] = "write"
  BY DEF AnswerInvariant, StartWrite, AppendWrite, ReverseWrite
<1>1. CASE pc'[w] = "reply" /\ \E err \in Outcomes \ {"ok"} : reply'[w] = Failure(err)
  <2>1. reply'[w] # None /\ reply'[w].outcome # "ok"
    BY <1>1, ResultTypes, NoneAssumption DEF Failure
  <2>. QED  BY <1>0, <1>1, <2>1, WriteOutcome DEF WorkerOK
<1>2. CASE /\ pc'[w] = "commit" /\ reply' = reply
           /\ WrittenFor(match, ledger, reversals, req[w], draft'[w])
  <2>1. UNCHANGED <<match, ledger, reversals, req>>
    BY WriteOutcome
  <2>. QED  BY <1>0, <1>2, <2>1 DEF WorkerOK
<1>. QED  BY <1>1, <1>2, WriteOutcome

LEMMA AnswersKeepWorker ==
    ASSUME AnswerInvariant, NEW w \in Workers, Replay(w) \/ Commit(w)
    PROVE  WorkerOK(w)'
<1>0. TypeOK /\ WorkerOK(w) /\ pc[w] # "idle"
  BY DEF AnswerInvariant, InductiveInvariant, Replay, Commit
<1>1. CASE Replay(w)
  <2>1. /\ pc'[w] = "reply" /\ reply'[w] # None /\ req' = req
        /\ UNCHANGED <<match, ledger, reversals>>
    BY <1>1, ReplayStep DEF store
  <2>2. reply'[w].outcome = "ok" => Answers(match, ledger, reversals, req[w], reply'[w])
    BY <1>1, ReplayStep DEF Failure
  <2>. QED  BY <1>0, <2>1, <2>2 DEF WorkerOK
<1>2. CASE Commit(w)
  <2>1. pc'[w] = "reply" /\ req' = req /\ reply'[w] = draft[w].result
    BY <1>0, <1>2 DEF Commit, Finish, Goto, TypeOK
  <2>2. /\ Answers(match', ledger', reversals', req[w], reply'[w])
        /\ reply'[w] # None
    BY <1>2, <2>1, CommitAnswers, NoneAssumption
  <2>. QED  BY <1>0, <2>1, <2>2 DEF WorkerOK
<1>. QED  BY <1>1, <1>2

LEMMA EndKeepsWorker ==
    ASSUME AnswerInvariant, NEW w \in Workers, Reply(w) \/ Crash(w)
    PROVE  WorkerOK(w)'
<1>1. TypeOK
  BY DEF AnswerInvariant, InductiveInvariant
<1>2. pc'[w] = "idle" /\ req'[w] = None /\ reply'[w] = None
  BY <1>1 DEF Reply, Crash, EndSession, Goto, TypeOK
<1>. QED  BY <1>2 DEF WorkerOK

LEMMA AnswerInvStep == AnswerInvariant /\ [Next]_vars => AnswerInvariant'
<1>. SUFFICES ASSUME AnswerInvariant, [Next]_vars
              PROVE  AnswerInvariant'
  OBVIOUS
<1>1. InductiveInvariant' /\ TypeOK
  BY InvStep DEF AnswerInvariant, InductiveInvariant
<1>2. TablesOK' /\ OutboxFollowsLedger' /\ \A k \in RecordKeys : RecordOK(k)'
  BY TablesStep, RecordStep
<1>3. ASSUME NEW v \in Workers
      PROVE  WorkerOK(v)'
  <2>1. CASE /\ pc'[v] = pc[v] /\ req'[v] = req[v] /\ reply'[v] = reply[v]
             /\ \A k \in RecordKeys : owner[k] = v => owner'[k] = v
    BY <2>1, WaitingStep
  <2>2. CASE \E r \in Requests : Receive(v, r)
    BY <2>2, ReceiveKeepsWorker
  <2>3. CASE Serve(v) \/ Crash(v)
    BY <2>3, LocksKeepWorker, WritesKeepWorker, AnswersKeepWorker, EndKeepsWorker DEF Serve
  <2>. QED  BY <1>1, <2>1, <2>2, <2>3, OneWorkerSteps
<1>. QED  BY <1>1, <1>2, <1>3 DEF AnswerInvariant, RecordKeys

LEMMA AnswerInvInit == Init => AnswerInvariant
<1>. SUFFICES ASSUME Init PROVE AnswerInvariant
  OBVIOUS
<1>1. InductiveInvariant
  BY InvInit
<1>2. TablesOK
  BY MaxScoreAssumption DEF Init, TablesOK, ClientsAreUnique, StatusOK, ScoresFit
<1>3. \A k \in RecordKeys : RecordOK(k)
  BY DEF Init, RecordOK
<1>4. \A w \in Workers : WorkerOK(w)
  BY DEF Init, WorkerOK
<1>5. OutboxFollowsLedger
  <2>1. DOMAIN outbox = {1} /\ ~EventRow(outbox[1])
    BY DEF Init, EventRow
  <2>2. {i \in DOMAIN outbox : EventRow(outbox[i])} = {}
    BY <2>1
  <2>3. 1 .. match.sequence = {}
    BY DEF Init
  <2>. QED  BY <2>2, <2>3 DEF OutboxFollowsLedger
<1>. QED  BY <1>1, <1>2, <1>3, <1>4, <1>5 DEF AnswerInvariant

-----------------------------------------------------------------------------
(* What clients and readers of the outbox can rely on *)

\* The stronger invariant always holds.
THEOREM AnswerInvariantHolds == Spec => []AnswerInvariant
  BY AnswerInvInit, AnswerInvStep, PTL DEF Spec

\* However often a request is sent, with whatever keys and in whatever race, a
\* success names the one event of its client_event_id, where it was expected.
THEOREM EffectsHappenOnce == Spec => []ExactlyOnce
<1>1. AnswerInvariant => ExactlyOnce
  <2>. SUFFICES ASSUME AnswerInvariant, NEW w \in Workers, Answering(w), req[w].op # "start"
                PROVE  \E e \in ledger :
                          /\ \A d \in ledger : d.client = req[w].client <=> d = e
                          /\ e.sequence = reply[w].event
                          /\ e.sequence = req[w].expected + 1
    BY DEF ExactlyOnce
  <2>1. Answers(match, ledger, reversals, req[w], reply[w]) /\ ClientsAreUnique
    BY DEF AnswerInvariant, WorkerOK, Answering, TablesOK
  <2>. QED  BY <2>1 DEF Answers, ClientsAreUnique
<1>. QED  BY <1>1, AnswerInvariantHolds, PTL

\* Fresh or replayed, an answer comes with the state right after its event.
THEOREM AnswersCarryTheirSnapshots == Spec => []AnswerCarriesItsSnapshot
<1>1. AnswerInvariant => AnswerCarriesItsSnapshot
  <2>. SUFFICES ASSUME AnswerInvariant, NEW w \in Workers, Answering(w), req[w].op # "start"
                PROVE  reply[w].snapshot = [status |-> "LIVE", sequence |-> reply[w].event,
                                            score |-> LedgerScore(reply[w].event)]
    BY DEF AnswerCarriesItsSnapshot
  <2>1. Answers(match, ledger, reversals, req[w], reply[w])
    BY DEF AnswerInvariant, WorkerOK, Answering
  <2>. QED  BY <2>1, LedgerScoreIsAfter DEF Answers
<1>. QED  BY <1>1, AnswerInvariantHolds, PTL

\* The outbox has one row for each event of the ledger, in order and in kind.
THEOREM OutboxAlwaysFollowsLedger == Spec => []OutboxFollowsLedger
<1>1. AnswerInvariant => OutboxFollowsLedger
  BY DEF AnswerInvariant
<1>. QED  BY <1>1, AnswerInvariantHolds, PTL

-----------------------------------------------------------------------------
(* Unnamed errors *)

\* The sequence constraint never fires: what is left is a text PostgreSQL refuses, a
\* full score column, or a reversal that reuses a client_event_id.
LEMMA AppendInternal ==
    ASSUME AnswerInvariant, NEW r \in Requests, AppendError(match, r) = "internal"
    PROVE  ~r.storable \/ \E s \in Sides : match.score[s] = MaxScore
<1>. SUFFICES ASSUME r.storable
              PROVE  \E s \in Sides : match.score[s] = MaxScore
  OBVIOUS
<1>1. /\ match \in Snapshots /\ match.sequence \in Nat /\ match.score \in [Sides -> Nat]
      /\ ScoresFit /\ GaplessLedger
  BY DEF AnswerInvariant, InductiveInvariant, TypeOK, TablesOK, Snapshots
<1>2. \A e \in ledger : e.sequence # match.sequence + 1
  <2>1. \A e \in ledger : e.sequence \in 1 .. match.sequence
    BY <1>1 DEF GaplessLedger
  <2>. QED  BY <1>1, <2>1
<1>3. /\ ApplyError(match, r) = "none"
      /\ ApplyEvent(match, r).score[r.side] > MaxScore
  BY <1>2 DEF AppendError, ApplyError
<1>4. /\ r.action \in Actions /\ r.side \in Sides /\ r.adjustment \in {-1, 1}
      /\ ScoreDelta(r) \in {-1, 0, 1}
  BY RequestFacts, ScoreDeltaType
<1>5. ApplyEvent(match, r).score = [match.score EXCEPT ![r.side] = @ + ScoreDelta(r)]
  BY <1>1, <1>3, <1>4, ApplyEventType
<1>6. match.score[r.side] + ScoreDelta(r) > MaxScore /\ match.score[r.side] <= MaxScore
  BY <1>1, <1>3, <1>4, <1>5 DEF ScoresFit
<1>7. match.score[r.side] = MaxScore
  BY <1>1, <1>4, <1>6, MaxScoreAssumption
<1>. QED  BY <1>4, <1>7

LEMMA ReversalInternal ==
    ASSUME AnswerInvariant, NEW r \in Requests, ReversalError(match, r) = "internal"
    PROVE  \/ ~r.storable
           \/ r.client \in ClientEvents
           \/ \E s \in Sides : match.score[s] = MaxScore
<1>. SUFFICES ASSUME r.storable, r.client \notin ClientEvents
              PROVE  \E s \in Sides : match.score[s] = MaxScore
  OBVIOUS
<1>. DEFINE o == EventAt(r.target)
<1>1. /\ match \in Snapshots /\ match.sequence \in Nat /\ match.score \in [Sides -> Nat]
      /\ ScoresFit /\ GaplessLedger /\ TypeOK
  BY DEF AnswerInvariant, InductiveInvariant, TypeOK, TablesOK, Snapshots
<1>2. \A e \in ledger : e.sequence # match.sequence + 1
  <2>1. \A e \in ledger : e.sequence \in 1 .. match.sequence
    BY <1>1 DEF GaplessLedger
  <2>. QED  BY <1>1, <2>1
<1>3. /\ \E e \in ledger : e.sequence = r.target
      /\ ReverseError(match, o) = "none"
      /\ ReverseEvent(match, o).score[o.side] > MaxScore
  BY <1>2 DEF ReversalError, ReverseError
<1>4. o \in ledger
  BY <1>3 DEF EventAt
<1>. HIDE DEF o
<1>5. /\ o.action \in Actions /\ o.side \in Sides /\ o.adjustment \in {-1, 1}
      /\ ScoreDelta(o) \in {-1, 0, 1}
  BY <1>1, <1>4, ScoreDeltaType DEF TypeOK, Events
<1>6. ReverseEvent(match, o).score = [match.score EXCEPT ![o.side] = @ - ScoreDelta(o)]
  BY <1>1, <1>3, <1>5, ReverseEventType
<1>7. match.score[o.side] - ScoreDelta(o) > MaxScore /\ match.score[o.side] <= MaxScore
  BY <1>1, <1>3, <1>5, <1>6 DEF ScoresFit
<1>8. match.score[o.side] = MaxScore
  BY <1>1, <1>5, <1>7, MaxScoreAssumption
<1>. QED  BY <1>5, <1>8

LEMMA InternalStep ==
    ASSUME AnswerInvariant, [Next]_vars, NEW w \in Workers,
           pc[w] # "reply", pc'[w] = "reply", reply'[w].outcome = "internal"
    PROVE  \/ ~req[w].storable
           \/ req[w].op = "reverse" /\ req[w].client \in ClientEvents
           \/ \E s \in Sides : match.score[s] = MaxScore
<1>0. TypeOK /\ InductiveInvariant
  BY DEF AnswerInvariant, InductiveInvariant
<1>1. StartWrite(w) \/ AppendWrite(w) \/ ReverseWrite(w)
  <2>1. (\E r \in Requests : Receive(w, r)) \/ Serve(w) \/ Crash(w)
    BY <1>0, OneWorkerSteps
  <2>2. ~Replay(w)
    BY ReplayStep DEF Failure
  <2>3. ~Commit(w)
    <3>1. ASSUME Commit(w)
          PROVE  FALSE
      <4>1. reply'[w] = draft[w].result
        BY <1>0, <3>1 DEF Commit, Finish, TypeOK
      <4>. QED  BY <3>1, <4>1, CommitAnswers
    <3>. QED  BY <3>1
  <2>4. ~Reserve(w) /\ ~LockMatch(w) /\ ~Reply(w) /\ ~Crash(w)
        /\ \A r \in Requests : ~Receive(w, r)
    BY <1>0 DEF Reserve, LockMatch, Reply, Crash, EndSession, Receive, Goto, TypeOK
  <2>. QED  BY <2>1, <2>2, <2>3, <2>4 DEF Serve
<1>2. pc[w] = "write" /\ req[w] \in Requests /\ read[w] = match
  BY <1>0, <1>1, WriterFacts DEF StartWrite, AppendWrite, ReverseWrite
<1>3. ASSUME NEW err, Rollback(w, err)
      PROVE  err = "internal"
  <2>1. reply'[w] = Failure(err)
    BY <1>0, <1>3, RefusedWrite
  <2>. QED  BY <2>1 DEF Failure
<1>4. ASSUME NEW next, NEW event, NEW link, NEW result,
             Prepare(w, next, event, link, result)
      PROVE  FALSE
  BY <1>0, <1>4, PreparedWrite
<1>5. CASE StartWrite(w)
  <2>1. StartError(read[w]) = "internal"
    BY <1>3, <1>4, <1>5 DEF StartWrite
  <2>. QED  BY <2>1 DEF StartError
<1>6. CASE AppendWrite(w)
  <2>1. AppendError(read[w], req[w]) = "internal"
    BY <1>3, <1>4, <1>6 DEF AppendWrite
  <2>. QED  BY <1>2, <2>1, AppendInternal
<1>7. CASE ReverseWrite(w)
  <2>1. ReversalError(read[w], req[w]) = "internal" /\ req[w].op = "reverse"
    BY <1>3, <1>4, <1>7 DEF ReverseWrite
  <2>. QED  BY <1>2, <2>1, ReversalInternal
<1>. QED  BY <1>1, <1>5, <1>6, <1>7

\* No race and no retry costs a client an unnamed error, and a replay always finds
\* the stored response it was told of: who gets one has sent a text PostgreSQL
\* refuses, reuses a client_event_id in a reversal, or met a full score column.
THEOREM InternalErrorsAreAlwaysExplained == Spec => InternalErrorsAreExplained
<1>1. AnswerInvariant /\ [Next]_vars =>
        [\A w \in Workers :
           (pc[w] # "reply" /\ pc'[w] = "reply" /\ reply'[w].outcome = "internal") =>
              \/ ~req[w].storable
              \/ req[w].op = "reverse" /\ req[w].client \in ClientEvents
              \/ \E s \in Sides : match.score[s] = MaxScore]_vars
  BY InternalStep
<1>. QED  BY <1>1, AnswerInvariantHolds, PTL DEF Spec, InternalErrorsAreExplained

=============================================================================
