-------------------------- MODULE MatchStoreProofs --------------------------
(***************************************************************************)
(* Proofs about MatchStore for every number of workers, every set of       *)
(* requests and every width of the score columns.                          *)
(***************************************************************************)
EXTENDS MatchStore, MatchDomainProofs, FiniteSetTheorems, TLAPS

-----------------------------------------------------------------------------
(* The inductive invariant *)

\* What a worker that is about to commit has written, in terms of the committed
\* tables: nothing but the status, or the next event and what it does to the
\* score, which for a reversal is to take back a standing event.
StartsMatch(d) ==
    /\ d.event = {} /\ d.reversal = {}
    /\ d.match.sequence = match.sequence
    /\ d.match.score = match.score

AppendsEvent(d) ==
    /\ match.status = "LIVE" /\ d.match.status = "LIVE"
    /\ d.match.sequence = match.sequence + 1
    /\ d.reversal = {}
    /\ \E e \in d.event :
          /\ d.event = {e}
          /\ e.sequence = match.sequence + 1
          /\ e.action # "EVENT_REVERSAL"
          /\ d.match.score = [match.score EXCEPT ![e.side] = @ + ScoreDelta(e)]

ReversesEvent(d) ==
    /\ match.status = "LIVE" /\ d.match.status = "LIVE"
    /\ d.match.sequence = match.sequence + 1
    /\ \E e \in d.event, original \in ledger :
          /\ d.event = {e}
          /\ d.reversal = {[reversal |-> e.sequence, reversed |-> original.sequence]}
          /\ e.sequence = match.sequence + 1
          /\ e.action = "EVENT_REVERSAL"
          /\ e.side = original.side
          /\ ScoreDelta(original) # 0
          /\ ~Reversed(original.sequence)
          /\ d.match.score = [match.score EXCEPT ![e.side] = @ - ScoreDelta(original)]

DraftOK(d) ==
    d \in Drafts /\ (StartsMatch(d) \/ AppendsEvent(d) \/ ReversesEvent(d))

SessionOK ==
    \A w \in Workers :
        /\ pc[w] \in {"reserve", "lock", "write", "commit", "replay"} => req[w] \in Requests
        /\ pc[w] = "commit" => DraftOK(draft[w])

\* The conjunction that every step preserves, and so the one that is proved:
\* the ledger stays gapless and the score derived because a commit writes what
\* was computed from the committed tables, and it does because of the lock.
InductiveInvariant ==
    /\ TypeOK
    /\ SessionOK
    /\ LockedReadIsCurrent
    /\ GaplessLedger
    /\ ReversalsAreSound
    /\ ScoreIsDerived

-----------------------------------------------------------------------------
(* Keys, results and the helpers of the transactions *)

LEMMA RequestFacts ==
    ASSUME NEW r \in Requests
    PROVE  /\ r.op \in Ops /\ r.client \in Clients
           /\ r.expected \in Nat /\ r.target \in Nat
           /\ r.action \in Actions /\ r.action # "EVENT_REVERSAL"
           /\ r.side \in Sides /\ r.adjustment \in {-1, 1}
           /\ RecordKey(r) \in RecordKeys
  BY RequestsAssumption DEF Clients, RecordKeys

LEMMA ResultTypes ==
    /\ \A err \in Outcomes : Failure(err) \in Results
    /\ \A n \in Nat, s \in Snapshots : Success(n, s) \in Results
  BY DEF Failure, Success, Results, Outcomes

LEMMA ReleaseType ==
    ASSUME TypeOK, NEW w \in Workers, Release(w)
    PROVE  /\ owner' \in [RecordKeys -> Workers \union {None}]
           /\ rowLock' \in Workers \union {None}
  BY DEF TypeOK, Release

LEMMA FinishType ==
    ASSUME TypeOK, NEW w \in Workers, NEW result \in Results, Finish(w, result)
    PROVE  /\ owner' \in [RecordKeys -> Workers \union {None}]
           /\ rowLock' \in Workers \union {None}
           /\ pc' \in [Workers -> Phases]
           /\ req' \in [Workers -> Requests \union {None}]
           /\ read' \in [Workers -> Snapshots \union {None}]
           /\ draft' \in [Workers -> Drafts \union {None}]
           /\ reply' \in [Workers -> Results \union {None}]
<1>1. Release(w)
  BY DEF Finish
<1>2. /\ owner' \in [RecordKeys -> Workers \union {None}]
      /\ rowLock' \in Workers \union {None}
  BY <1>1, ReleaseType
<1>3. "reply" \in Phases
  BY DEF Phases
<1>. QED  BY <1>2, <1>3 DEF TypeOK, Finish, Forget, Goto

LEMMA RollbackType ==
    ASSUME TypeOK, NEW w \in Workers, NEW err \in Outcomes, Rollback(w, err)
    PROVE  TypeOK'
<1>1. Failure(err) \in Results /\ Finish(w, Failure(err)) /\ UNCHANGED store
  BY ResultTypes DEF Rollback
<1>. QED  BY <1>1, FinishType DEF TypeOK, store

\* What a worker writes: a draft of the right type.
LEMMA PrepareType ==
    ASSUME TypeOK, NEW w \in Workers, req[w].op \in Ops,
           NEW next \in Snapshots, NEW event \in SUBSET Events,
           NEW link \in SUBSET Links, NEW n \in Nat, NEW s \in Snapshots,
           Prepare(w, next, event, link, Success(n, s))
    PROVE  TypeOK' /\ draft'[w] \in Drafts
<1>1. Success(n, s) \in Results /\ Success(n, s).snapshot = s
  BY ResultTypes DEF Success
<1>2. OutboxType(req[w].op) \in {"match.created.v1", "match.status-changed.v1",
                 "match.event-recorded.v1", "match.event-reversed.v1"}
  BY DEF OutboxType, Ops
<1>3. next.sequence \in Nat
  BY DEF Snapshots
<1>. DEFINE row == [type |-> OutboxType(req[w].op), sequence |-> next.sequence,
                    snapshot |-> Success(n, s).snapshot]
            d   == [match |-> next, event |-> event, reversal |-> link, row |-> row,
                    result |-> Success(n, s)]
<1>4. row \in Rows
  BY <1>1, <1>2, <1>3 DEF Rows
<1>5. d \in Drafts
  BY <1>1, <1>4 DEF Drafts
<1>6. draft' = [draft EXCEPT ![w] = d]
  BY DEF Prepare
<1>7. "commit" \in Phases
  BY DEF Phases
<1>8. draft' \in [Workers -> Drafts \union {None}] /\ draft'[w] = d
  BY <1>5, <1>6 DEF TypeOK
<1>9. pc' \in [Workers -> Phases]
  BY <1>7 DEF TypeOK, Prepare, Goto
<1>. QED  BY <1>5, <1>8, <1>9 DEF TypeOK, Prepare, store, locks

-----------------------------------------------------------------------------
(* What the three writes leave in the draft *)

LEMMA ErrorTypes ==
    /\ \A snapshot : StartError(snapshot) \in Outcomes \union {"none"}
    /\ \A snapshot, c : ApplyError(snapshot, c) \in Outcomes \union {"none"}
    /\ \A snapshot, e : ReverseError(snapshot, e) \in Outcomes \union {"none"}
    /\ \A snapshot, r : AppendError(snapshot, r) \in Outcomes \union {"none"}
    /\ \A snapshot, r : ReversalError(snapshot, r) \in Outcomes \union {"none"}
<1>1. \A snapshot : StartError(snapshot) \in Outcomes \union {"none"}
  BY DEF StartError, Outcomes
<1>2. \A snapshot, c : ApplyError(snapshot, c) \in Outcomes \union {"none"}
  BY DEF ApplyError, Outcomes
<1>3. \A snapshot, e : ReverseError(snapshot, e) \in Outcomes \union {"none"}
  BY DEF ReverseError, Outcomes
<1>4. \A snapshot, r : AppendError(snapshot, r) \in Outcomes \union {"none"}
  BY <1>2 DEF AppendError, Outcomes
<1>5. \A snapshot, r : ReversalError(snapshot, r) \in Outcomes \union {"none"}
  BY <1>3 DEF ReversalError, Outcomes
<1>. QED  BY <1>1, <1>2, <1>3, <1>4, <1>5

\* A worker that writes serves a request, on the committed state of the match.
LEMMA WriterFacts ==
    ASSUME InductiveInvariant, NEW w \in Workers, pc[w] = "write"
    PROVE  /\ req[w] \in Requests
           /\ read[w] = match /\ match \in Snapshots
           /\ rowLock = w
  BY DEF InductiveInvariant, SessionOK, LockedReadIsCurrent, TypeOK

LEMMA StartWriteStep ==
    ASSUME InductiveInvariant, NEW w \in Workers, StartWrite(w)
    PROVE  TypeOK' /\ (pc'[w] = "commit" => DraftOK(draft[w])')
<1>. DEFINE err  == StartError(read[w])
            next == [read[w] EXCEPT !.status = "LIVE"]
<1>0. TypeOK /\ pc[w] = "write" /\ pc \in [Workers -> Phases]
  BY DEF InductiveInvariant, StartWrite, TypeOK
<1>1. /\ req[w] \in Requests /\ req[w].op \in Ops
      /\ read[w] = match /\ match \in Snapshots
  BY <1>0, WriterFacts, RequestFacts
<1>2. CASE err # "none" /\ Rollback(w, err)
  <2>1. err \in Outcomes
    BY <1>2, ErrorTypes
  <2>2. pc'[w] = "reply"
    BY <1>0, <1>2 DEF Rollback, Finish, Goto
  <2>. QED  BY <1>0, <1>2, <2>1, <2>2, RollbackType
<1>3. CASE Prepare(w, next, {}, {}, Success(0, read[w]))
  <2>1. next \in Snapshots /\ next.sequence = match.sequence /\ next.score = match.score
    BY <1>1 DEF Snapshots, Statuses
  <2>2. TypeOK' /\ draft'[w] \in Drafts
    BY <1>0, <1>1, <1>3, <2>1, PrepareType
  <2>3. /\ draft'[w].event = {} /\ draft'[w].reversal = {}
        /\ draft'[w].match = next /\ match' = match
    BY <1>0, <1>3 DEF Prepare, TypeOK, store
  <2>4. StartsMatch(draft[w])'
    BY <2>1, <2>3 DEF StartsMatch
  <2>. QED  BY <2>2, <2>4 DEF DraftOK
<1>. QED  BY <1>2, <1>3 DEF StartWrite

LEMMA AppendWriteStep ==
    ASSUME InductiveInvariant, NEW w \in Workers, AppendWrite(w)
    PROVE  TypeOK' /\ (pc'[w] = "commit" => DraftOK(draft[w])')
<1>. DEFINE r     == req[w]
            err   == AppendError(read[w], r)
            next  == ApplyEvent(read[w], r)
            event == [sequence |-> next.sequence, client |-> r.client, action |-> r.action,
                      side |-> r.side, adjustment |-> r.adjustment]
<1>0. TypeOK /\ pc[w] = "write" /\ pc \in [Workers -> Phases]
  BY DEF InductiveInvariant, AppendWrite, TypeOK
<1>1. /\ r \in Requests /\ r.op \in Ops /\ r.client \in Clients
      /\ r.action \in Actions /\ r.action # "EVENT_REVERSAL"
      /\ r.side \in Sides /\ r.adjustment \in {-1, 1}
      /\ read[w] = match /\ match \in Snapshots
  BY <1>0, WriterFacts, RequestFacts
<1>2. CASE err # "none" /\ Rollback(w, err)
  <2>1. err \in Outcomes
    BY <1>2, ErrorTypes
  <2>2. pc'[w] = "reply"
    BY <1>0, <1>2 DEF Rollback, Finish, Goto
  <2>. QED  BY <1>0, <1>2, <2>1, <2>2, RollbackType
<1>3. CASE err = "none" /\ Prepare(w, next, {event}, {}, EventResult(read[w], next))
  <2>1. ApplyError(match, r) = "none"
    BY <1>1, <1>3 DEF AppendError
  <2>2. /\ next \in Snapshots
        /\ next.status = "LIVE" /\ match.status = "LIVE"
        /\ next.sequence = match.sequence + 1
        /\ next.score = [match.score EXCEPT ![r.side] = @ + ScoreDelta(r)]
    BY <1>1, <2>1, ApplyEventType
  <2>3. next.sequence \in Nat \ {0}
    BY <1>1, <2>2 DEF Snapshots
  <2>4. /\ event \in Events /\ event.sequence = match.sequence + 1
        /\ event.action # "EVENT_REVERSAL" /\ event.side = r.side
    BY <1>1, <2>2, <2>3 DEF Events
  <2>5. ScoreDelta(event) = ScoreDelta(r)
    BY DEF ScoreDelta
  <2>6. Prepare(w, next, {event}, {}, Success(next.sequence, next))
    BY <1>3 DEF EventResult
  <2>. HIDE DEF next, event
  <2>7. TypeOK' /\ draft'[w] \in Drafts
    BY <1>0, <1>1, <2>2, <2>3, <2>4, <2>6, PrepareType
  <2>8. /\ draft'[w].event = {event} /\ draft'[w].reversal = {}
        /\ draft'[w].match = next /\ match' = match
    BY <1>0, <2>6 DEF Prepare, TypeOK, store
  <2>9. AppendsEvent(draft[w])'
    BY <2>2, <2>4, <2>5, <2>8 DEF AppendsEvent
  <2>. QED  BY <2>7, <2>9 DEF DraftOK
<1>. QED  BY <1>2, <1>3 DEF AppendWrite

LEMMA ReverseWriteStep ==
    ASSUME InductiveInvariant, NEW w \in Workers, ReverseWrite(w)
    PROVE  TypeOK' /\ (pc'[w] = "commit" => DraftOK(draft[w])')
<1>. DEFINE r        == req[w]
            err      == ReversalError(read[w], r)
            original == EventAt(r.target)
            next     == ReverseEvent(read[w], original)
            event    == [sequence |-> next.sequence, client |-> r.client,
                         action |-> "EVENT_REVERSAL", side |-> original.side,
                         adjustment |-> original.adjustment]
            link     == [reversal |-> next.sequence, reversed |-> r.target]
<1>0. TypeOK /\ pc[w] = "write" /\ pc \in [Workers -> Phases]
  BY DEF InductiveInvariant, ReverseWrite, TypeOK
<1>1. /\ r \in Requests /\ r.op \in Ops /\ r.client \in Clients /\ r.target \in Nat
      /\ read[w] = match /\ match \in Snapshots
  BY <1>0, WriterFacts, RequestFacts
<1>2. CASE err # "none" /\ Rollback(w, err)
  <2>1. err \in Outcomes
    BY <1>2, ErrorTypes
  <2>2. pc'[w] = "reply"
    BY <1>0, <1>2 DEF Rollback, Finish, Goto
  <2>. QED  BY <1>0, <1>2, <2>1, <2>2, RollbackType
<1>3. CASE err = "none" /\ Prepare(w, next, {event}, {link}, EventResult(read[w], next))
  <2>1. /\ \E e \in ledger : e.sequence = r.target
        /\ ~Reversed(r.target)
        /\ ReverseError(match, original) = "none"
    BY <1>1, <1>3 DEF ReversalError
  <2>2. original \in ledger /\ original.sequence = r.target
    BY <2>1 DEF EventAt
  <2>3. /\ original.action \in Actions /\ original.side \in Sides
        /\ original.adjustment \in {-1, 1}
    BY <1>0, <2>2 DEF TypeOK, Events
  <2>. HIDE DEF original
  <2>4. /\ next \in Snapshots
        /\ next.status = "LIVE" /\ match.status = "LIVE"
        /\ next.sequence = match.sequence + 1
        /\ next.score = [match.score EXCEPT ![original.side] = @ - ScoreDelta(original)]
        /\ ScoreDelta(original) # 0
    BY <1>1, <2>1, <2>3, ReverseEventType
  <2>5. next.sequence \in Nat \ {0}
    BY <1>1, <2>4 DEF Snapshots
  <2>6. /\ event \in Events /\ event.sequence = match.sequence + 1
        /\ event.action = "EVENT_REVERSAL" /\ event.side = original.side
        /\ link \in Links
        /\ link = [reversal |-> event.sequence, reversed |-> original.sequence]
    BY <1>1, <2>2, <2>3, <2>4, <2>5 DEF Events, Links, Actions
  <2>7. Prepare(w, next, {event}, {link}, Success(next.sequence, next))
    BY <1>3 DEF EventResult
  <2>. HIDE DEF next, event, link
  <2>8. TypeOK' /\ draft'[w] \in Drafts
    BY <1>0, <1>1, <2>4, <2>5, <2>6, <2>7, PrepareType
  <2>9. /\ draft'[w].event = {event} /\ draft'[w].reversal = {link}
        /\ draft'[w].match = next
        /\ match' = match /\ ledger' = ledger /\ reversals' = reversals
    BY <1>0, <2>7 DEF Prepare, TypeOK, store
  <2>10. ~ \E l \in reversals' : l.reversed = original.sequence
    BY <2>1, <2>2, <2>9 DEF Reversed
  <2>11. next.score = [match'.score EXCEPT ![event.side] = @ - ScoreDelta(original)]
    BY <2>4, <2>6, <2>9
  <2>12. ReversesEvent(draft[w])'
    <3>. SUFFICES /\ draft'[w].match.status = "LIVE" /\ match'.status = "LIVE"
                  /\ draft'[w].match.sequence = match'.sequence + 1
                  /\ \E e \in draft'[w].event, o \in ledger' :
                        /\ draft'[w].event = {e}
                        /\ draft'[w].reversal = {[reversal |-> e.sequence, reversed |-> o.sequence]}
                        /\ e.sequence = match'.sequence + 1
                        /\ e.action = "EVENT_REVERSAL"
                        /\ e.side = o.side
                        /\ ScoreDelta(o) # 0
                        /\ ~ \E l \in reversals' : l.reversed = o.sequence
                        /\ draft'[w].match.score
                             = [match'.score EXCEPT ![e.side] = @ - ScoreDelta(o)]
      BY DEF ReversesEvent, Reversed
    <3>1. event \in draft'[w].event /\ original \in ledger'
      BY <2>2, <2>9
    <3>. QED  BY <2>4, <2>6, <2>9, <2>10, <2>11, <3>1
  <2>. QED  BY <2>8, <2>12 DEF DraftOK
<1>. QED  BY <1>2, <1>3 DEF ReverseWrite

-----------------------------------------------------------------------------
(* The sessions: types, locks and drafts *)

LEMMA TypeInit == Init => TypeOK
<1>. SUFFICES ASSUME Init PROVE TypeOK
  OBVIOUS
<1>1. match \in Snapshots /\ [match EXCEPT !.status = "DRAFT"] \in Snapshots
  BY DEF Init, Snapshots, Statuses
<1>2. outbox \in Seq(Rows)
  BY <1>1 DEF Init, Rows
<1>. QED  BY <1>1, <1>2 DEF Init, TypeOK, Phases

\* The end of a session: the worker is idle again and the tables are untouched.
LEMMA EndSessionType ==
    ASSUME TypeOK, NEW w \in Workers, EndSession(w),
           owner' \in [RecordKeys -> Workers \union {None}],
           rowLock' \in Workers \union {None}
    PROVE  TypeOK'
  BY DEF TypeOK, EndSession, Goto, Forget, store, Phases

LEMMA CommitType ==
    ASSUME InductiveInvariant, NEW w \in Workers, Commit(w)
    PROVE  TypeOK'
<1>1. /\ TypeOK /\ draft[w] \in Drafts
      /\ req[w] \in Requests /\ RecordKey(req[w]) \in RecordKeys
  BY DEF InductiveInvariant, SessionOK, DraftOK, Commit, RecordKeys
<1>2. /\ draft[w].match \in Snapshots /\ draft[w].event \in SUBSET Events
      /\ draft[w].reversal \in SUBSET Links /\ draft[w].row \in Rows
      /\ draft[w].result \in Results
  BY <1>1 DEF Drafts
<1>3. match' \in Snapshots /\ ledger' \subseteq Events /\ reversals' \subseteq Links
  BY <1>1, <1>2 DEF Commit, TypeOK
<1>4. outbox' \in Seq(Rows)
  BY <1>1, <1>2 DEF Commit, TypeOK
<1>. DEFINE record == [hash |-> RequestHash(req[w]), result |-> draft[w].result,
                       expired |-> FALSE]
<1>5. record \in Records
  BY <1>1, <1>2 DEF Records
<1>6. records' = [records EXCEPT ![RecordKey(req[w])] = record]
  BY DEF Commit
<1>7. records' \in [RecordKeys -> Records \union {None}]
  BY <1>1, <1>5, <1>6 DEF TypeOK
<1>8. Finish(w, draft[w].result)
  BY DEF Commit
<1>. QED  BY <1>1, <1>2, <1>3, <1>4, <1>7, <1>8, FinishType DEF TypeOK

LEMMA TypeStep ==
    ASSUME InductiveInvariant, [Next]_vars
    PROVE  TypeOK'
<1>0. TypeOK /\ SessionOK
  BY DEF InductiveInvariant
<1>1. ASSUME NEW w \in Workers, NEW r \in Requests, Receive(w, r)
      PROVE  TypeOK'
  BY <1>0, <1>1 DEF Receive, TypeOK, Goto, store, locks, Phases
<1>2. ASSUME NEW w \in Workers, Reserve(w)
      PROVE  TypeOK'
  <2>1. pc' \in [Workers -> Phases]
    BY <1>0, <1>2 DEF Reserve, TypeOK, Goto, Phases
  <2>2. owner' \in [RecordKeys -> Workers \union {None}]
    BY <1>0, <1>2 DEF Reserve, TypeOK
  <2>. QED  BY <1>0, <1>2, <2>1, <2>2 DEF Reserve, TypeOK, store
<1>3. ASSUME NEW w \in Workers, LockMatch(w)
      PROVE  TypeOK'
  <2>1. pc' \in [Workers -> Phases]
    BY <1>0, <1>3 DEF LockMatch, TypeOK, Goto, Phases
  <2>. QED  BY <1>0, <1>3, <2>1 DEF LockMatch, TypeOK, store
<1>4. ASSUME NEW w \in Workers, Replay(w)
      PROVE  TypeOK'
  <2>1. RecordKey(req[w]) \in RecordKeys
    BY <1>0, <1>4 DEF SessionOK, Replay, RecordKeys
  <2>. DEFINE record == records[RecordKey(req[w])]
              result == IF record = None THEN Failure("internal")
                        ELSE IF record.hash # RequestHash(req[w])
                             THEN Failure("ErrIdempotencyConflict")
                        ELSE record.result
  <2>2. record \in Records \union {None}
    BY <1>0, <2>1 DEF TypeOK
  <2>3. /\ Failure("internal") \in Results
        /\ Failure("ErrIdempotencyConflict") \in Results
    BY ResultTypes DEF Outcomes
  <2>4. result \in Results
    BY <2>2, <2>3 DEF Records
  <2>5. Finish(w, result) /\ UNCHANGED store
    BY <1>4 DEF Replay
  <2>. HIDE DEF result
  <2>. QED  BY <1>0, <2>4, <2>5, FinishType DEF TypeOK, store
<1>5. ASSUME NEW w \in Workers, StartWrite(w) \/ AppendWrite(w) \/ ReverseWrite(w)
      PROVE  TypeOK'
  BY <1>5, StartWriteStep, AppendWriteStep, ReverseWriteStep
<1>6. ASSUME NEW w \in Workers, Reply(w)
      PROVE  TypeOK'
  BY <1>0, <1>6, EndSessionType DEF Reply, locks, TypeOK
<1>7. ASSUME NEW w \in Workers, Crash(w)
      PROVE  TypeOK'
  BY <1>0, <1>7, EndSessionType, ReleaseType DEF Crash
<1>8. ASSUME NEW k \in RecordKeys, Expire(k)
      PROVE  TypeOK'
  <2>1. records[k] \in Records
    BY <1>0, <1>8 DEF Expire, TypeOK
  <2>2. [records[k] EXCEPT !.expired = TRUE] \in Records
    BY <2>1 DEF Records
  <2>3. records' \in [RecordKeys -> Records \union {None}]
    BY <1>0, <1>8, <2>2 DEF Expire, TypeOK
  <2>. QED  BY <1>0, <1>8, <2>3 DEF Expire, TypeOK, locks, session
<1>9. CASE UNCHANGED vars
  BY <1>0, <1>9 DEF TypeOK, vars
<1>. QED
  BY <1>1, <1>2, <1>3, <1>4, <1>5, <1>6, <1>7, <1>8, <1>9, CommitType DEF Next, Serve

\* A worker that writes or commits is not disturbed by the steps of others:
\* only the holder of the row changes the tables a draft was computed from.
LEMMA OthersKeepTheirLocks ==
    ASSUME InductiveInvariant, [Next]_vars,
           NEW v \in Workers, pc[v] \in {"write", "commit"}, pc'[v] = pc[v]
    PROVE  /\ rowLock' = v
           /\ req'[v] = req[v] /\ owner'[RecordKey(req[v])] = v
           /\ read'[v] = read[v] /\ draft'[v] = draft[v]
           /\ match' = match /\ ledger' = ledger /\ reversals' = reversals
<1>0. /\ TypeOK /\ v # None
      /\ req[v] \in Requests /\ RecordKey(req[v]) \in RecordKeys
      /\ rowLock = v /\ owner[RecordKey(req[v])] = v
      /\ \A w \in Workers : pc[w] = "commit" => rowLock = w
  BY WorkersAssumption
     DEF InductiveInvariant, SessionOK, LockedReadIsCurrent, RecordKeys
<1>. DEFINE Kept == /\ rowLock' = v
                    /\ req'[v] = req[v] /\ owner'[RecordKey(req[v])] = v
                    /\ read'[v] = read[v] /\ draft'[v] = draft[v]
                    /\ match' = match /\ ledger' = ledger /\ reversals' = reversals
<1>1. ASSUME NEW w \in Workers, NEW r \in Requests, Receive(w, r)
      PROVE  Kept
  <2>1. w # v
    BY <1>1 DEF Receive
  <2>. QED  BY <1>0, <1>1, <2>1 DEF Receive, TypeOK, store, locks
<1>2. ASSUME NEW w \in Workers, Reserve(w)
      PROVE  Kept
  <2>1. w # v /\ owner[RecordKey(req[w])] = None
    BY <1>2 DEF Reserve
  <2>2. owner'[RecordKey(req[v])] = v
    BY <1>0, <1>2, <2>1 DEF Reserve, TypeOK
  <2>. QED  BY <1>0, <1>2, <2>1, <2>2 DEF Reserve, store
<1>3. ASSUME NEW w \in Workers, LockMatch(w)
      PROVE  Kept
  BY <1>0, <1>3 DEF LockMatch
<1>4. ASSUME NEW w \in Workers, NEW result, Finish(w, result), UNCHANGED store
      PROVE  Kept
  <2>1. w # v
    BY <1>0, <1>4 DEF Finish, Goto, TypeOK
  <2>. QED  BY <1>0, <1>4, <2>1 DEF Finish, Release, Forget, store, TypeOK
<1>5. ASSUME NEW w \in Workers, NEW next, NEW event, NEW link, NEW result,
             Prepare(w, next, event, link, result), pc[w] = "write"
      PROVE  Kept
  <2>1. w # v
    BY <1>0, <1>5 DEF Prepare, Goto, TypeOK
  <2>. QED  BY <1>0, <1>5, <2>1 DEF Prepare, store, locks, TypeOK
<1>6. ASSUME NEW w \in Workers, StartWrite(w) \/ AppendWrite(w) \/ ReverseWrite(w)
      PROVE  Kept
  BY <1>4, <1>5, <1>6 DEF StartWrite, AppendWrite, ReverseWrite, Rollback
<1>7. ASSUME NEW w \in Workers, Commit(w)
      PROVE  Kept
  <2>1. w = v
    BY <1>0, <1>7 DEF Commit
  <2>2. pc'[v] = "reply"
    BY <1>0, <1>7, <2>1 DEF Commit, Finish, Goto, TypeOK
  <2>. QED  BY <2>2
<1>8. ASSUME NEW w \in Workers, EndSession(w), Release(w) \/ UNCHANGED locks
      PROVE  Kept
  <2>1. w # v
    BY <1>0, <1>8 DEF EndSession, Goto, TypeOK
  <2>. QED  BY <1>0, <1>8, <2>1 DEF EndSession, Release, Forget, store, locks, TypeOK
<1>9. ASSUME NEW k \in RecordKeys, Expire(k)
      PROVE  Kept
  BY <1>0, <1>9 DEF Expire, locks, session
<1>10. ASSUME UNCHANGED vars
       PROVE  Kept
  BY <1>0, <1>10 DEF vars
<1>11. ASSUME NEW w \in Workers, Replay(w)
       PROVE  Kept
  BY <1>4, <1>11 DEF Replay
<1>12. ASSUME NEW w \in Workers, Reply(w) \/ Crash(w)
       PROVE  Kept
  BY <1>8, <1>12 DEF Reply, Crash
<1>. HIDE DEF Kept
<1>13. ASSUME NEW w \in Workers, Serve(w)
       PROVE  Kept
  BY <1>2, <1>3, <1>6, <1>7, <1>11, <1>12, <1>13 DEF Serve
<1>14. ASSUME Next
       PROVE  Kept
  BY <1>1, <1>9, <1>12, <1>13, <1>14 DEF Next
<1>15. Kept
  BY <1>10, <1>14
<1>. QED  BY <1>15 DEF Kept

\* The steps that change where a worker is, and where they take it.
LEMMA PhaseStep ==
    ASSUME TypeOK, [Next]_vars, NEW v \in Workers, pc'[v] # pc[v]
    PROVE  \/ pc'[v] \in {"idle", "reply"}
           \/ pc'[v] = "reserve" /\ \E r \in Requests : Receive(v, r)
           \/ pc'[v] \in {"lock", "replay"} /\ Reserve(v)
           \/ pc'[v] \in {"write", "replay"} /\ LockMatch(v)
           \/ pc'[v] = "commit" /\ (StartWrite(v) \/ AppendWrite(v) \/ ReverseWrite(v))
<1>. DEFINE Moved(w) == \A u \in Workers \ {w} : pc'[u] = pc[u]
<1>1. ASSUME NEW w \in Workers, NEW label, Goto(w, label)
      PROVE  Moved(w) /\ pc'[w] = label
  BY <1>1 DEF Goto, TypeOK
<1>. HIDE DEF Moved
<1>2. ASSUME NEW w \in Workers, NEW r \in Requests, Receive(w, r)
      PROVE  Moved(w) /\ pc'[w] = "reserve"
  BY <1>1, <1>2 DEF Receive
<1>3. ASSUME NEW w \in Workers, Reserve(w)
      PROVE  Moved(w) /\ pc'[w] \in {"lock", "replay"}
  BY <1>1, <1>3 DEF Reserve
<1>4. ASSUME NEW w \in Workers, LockMatch(w)
      PROVE  Moved(w) /\ pc'[w] \in {"write", "replay"}
  BY <1>1, <1>4 DEF LockMatch
<1>5. ASSUME NEW w \in Workers, StartWrite(w) \/ AppendWrite(w) \/ ReverseWrite(w)
      PROVE  Moved(w) /\ pc'[w] \in {"commit", "reply"}
  BY <1>1, <1>5 DEF StartWrite, AppendWrite, ReverseWrite, Rollback, Finish, Prepare
<1>6. ASSUME NEW w \in Workers, Replay(w) \/ Commit(w) \/ Reply(w) \/ Crash(w)
      PROVE  Moved(w) /\ pc'[w] \in {"idle", "reply"}
  BY <1>1, <1>6 DEF Replay, Commit, Reply, Crash, Finish, EndSession
<1>7. ASSUME NEW k \in RecordKeys, Expire(k)
      PROVE  pc' = pc
  BY <1>7 DEF Expire, session
<1>8. CASE UNCHANGED vars
  BY <1>8 DEF vars
<1>9. ASSUME NEW w \in Workers, w # v, Moved(w)
      PROVE  FALSE
  BY <1>9 DEF Moved
<1>. QED
  BY <1>2, <1>3, <1>4, <1>5, <1>6, <1>7, <1>8, <1>9 DEF Next, Serve

\* A worker that stays where it is keeps its request.
LEMMA RequestStep ==
    ASSUME TypeOK, [Next]_vars, NEW v \in Workers, pc'[v] = pc[v], pc[v] # "idle"
    PROVE  req'[v] = req[v]
<1>1. ASSUME NEW w \in Workers, NEW r \in Requests, Receive(w, r)
      PROVE  req'[v] = req[v]
  <2>1. w # v
    BY <1>1 DEF Receive
  <2>. QED  BY <1>1, <2>1 DEF Receive, TypeOK
<1>2. ASSUME NEW w \in Workers, Reserve(w) \/ LockMatch(w) \/ Replay(w) \/ Commit(w)
      PROVE  req'[v] = req[v]
  BY <1>2 DEF Reserve, LockMatch, Replay, Commit, Finish
<1>3. ASSUME NEW w \in Workers, StartWrite(w) \/ AppendWrite(w) \/ ReverseWrite(w)
      PROVE  req'[v] = req[v]
  BY <1>3 DEF StartWrite, AppendWrite, ReverseWrite, Rollback, Finish, Prepare
<1>4. ASSUME NEW w \in Workers, Reply(w) \/ Crash(w)
      PROVE  req'[v] = req[v]
  <2>1. w # v
    BY <1>4 DEF Reply, Crash, EndSession, Goto, TypeOK
  <2>. QED  BY <1>4, <2>1 DEF Reply, Crash, EndSession, TypeOK
<1>5. ASSUME NEW k \in RecordKeys, Expire(k)
      PROVE  req'[v] = req[v]
  BY <1>5 DEF Expire, session
<1>6. ASSUME UNCHANGED vars
      PROVE  req'[v] = req[v]
  BY <1>6 DEF vars
<1>. QED  BY <1>1, <1>2, <1>3, <1>4, <1>5, <1>6 DEF Next, Serve

\* Every worker that writes or commits holds its locks, and what it read under
\* them is what the tables hold.
LEMMA LockStep ==
    ASSUME InductiveInvariant, [Next]_vars
    PROVE  LockedReadIsCurrent'
<1>. SUFFICES ASSUME NEW v \in Workers, pc'[v] \in {"write", "commit"}
              PROVE  /\ rowLock' = v
                     /\ owner'[RecordKey(req'[v])] = v
                     /\ read'[v] = match'
  BY DEF LockedReadIsCurrent, RecordKey
<1>1. TypeOK /\ LockedReadIsCurrent
  BY DEF InductiveInvariant
<1>2. CASE pc'[v] = pc[v]
  BY <1>1, <1>2, OthersKeepTheirLocks DEF LockedReadIsCurrent
<1>3. CASE pc'[v] # pc[v]
  <2>1. \/ pc'[v] = "write" /\ LockMatch(v)
        \/ StartWrite(v) \/ AppendWrite(v) \/ ReverseWrite(v)
    BY <1>1, <1>3, PhaseStep
  <2>2. CASE pc'[v] = "write" /\ LockMatch(v)
    <3>1. owner[RecordKey(req[v])] = v
      BY <1>1, <2>2 DEF LockMatch, Goto, TypeOK
    <3>. QED  BY <1>1, <2>2, <3>1 DEF LockMatch, TypeOK, store
  <2>3. CASE StartWrite(v) \/ AppendWrite(v) \/ ReverseWrite(v)
    <3>1. pc[v] = "write" /\ pc'[v] = "commit"
      BY <1>3, <2>3 DEF StartWrite, AppendWrite, ReverseWrite
    <3>2. ASSUME NEW err, Rollback(v, err)
          PROVE  FALSE
      BY <1>1, <3>1, <3>2 DEF Rollback, Finish, Goto, TypeOK
    <3>3. UNCHANGED <<store, locks, req, read>>
      BY <2>3, <3>2 DEF StartWrite, AppendWrite, ReverseWrite, Prepare
    <3>. QED  BY <1>1, <3>1, <3>3 DEF LockedReadIsCurrent, store, locks
  <2>. QED  BY <2>1, <2>2, <2>3
<1>. QED  BY <1>2, <1>3

\* Requests stay with their workers, and drafts stay computed from the tables.
LEMMA SessionStep ==
    ASSUME InductiveInvariant, [Next]_vars
    PROVE  SessionOK'
<1>1. TypeOK /\ SessionOK /\ LockedReadIsCurrent
  BY DEF InductiveInvariant
<1>. SUFFICES ASSUME NEW v \in Workers
              PROVE  /\ pc'[v] \in {"reserve", "lock", "write", "commit", "replay"}
                          => req'[v] \in Requests
                     /\ pc'[v] = "commit" => DraftOK(draft[v])'
  BY DEF SessionOK
<1>2. ASSUME pc'[v] = "commit"
      PROVE  DraftOK(draft[v])'
  <2>1. CASE pc[v] = "commit"
    <3>1. DraftOK(draft[v])
      BY <1>1, <2>1 DEF SessionOK
    <3>2. /\ draft'[v] = draft[v]
          /\ match' = match /\ ledger' = ledger /\ reversals' = reversals
      BY <1>2, <2>1, OthersKeepTheirLocks
    <3>3. draft'[v] \in Drafts
      BY <3>1, <3>2 DEF DraftOK
    <3>4. CASE StartsMatch(draft[v])
      BY <3>2, <3>3, <3>4 DEF DraftOK, StartsMatch
    <3>5. CASE AppendsEvent(draft[v])
      <4>1. AppendsEvent(draft[v])'
        BY <3>2, <3>5 DEF AppendsEvent
      <4>. QED  BY <3>3, <4>1 DEF DraftOK
    <3>6. CASE ReversesEvent(draft[v])
      <4>1. ReversesEvent(draft[v])'
        <5>1. PICK e \in draft[v].event, o \in ledger :
                /\ draft[v].event = {e}
                /\ draft[v].reversal = {[reversal |-> e.sequence, reversed |-> o.sequence]}
                /\ e.sequence = match.sequence + 1
                /\ e.action = "EVENT_REVERSAL"
                /\ e.side = o.side
                /\ ScoreDelta(o) # 0
                /\ ~Reversed(o.sequence)
                /\ draft[v].match.score
                     = [match.score EXCEPT ![e.side] = @ - ScoreDelta(o)]
          BY <3>6 DEF ReversesEvent
        <5>2. ~ \E l \in reversals' : l.reversed = o.sequence
          BY <3>2, <5>1 DEF Reversed
        <5>3. /\ draft'[v].match.status = "LIVE" /\ match'.status = "LIVE"
              /\ draft'[v].match.sequence = match'.sequence + 1
              /\ e \in draft'[v].event /\ o \in ledger'
              /\ draft'[v].event = {e}
              /\ draft'[v].reversal = {[reversal |-> e.sequence, reversed |-> o.sequence]}
              /\ e.sequence = match'.sequence + 1
          BY <3>2, <3>6, <5>1 DEF ReversesEvent
        <5>4. draft'[v].match.score
                = [match'.score EXCEPT ![e.side] = @ - ScoreDelta(o)]
          BY <3>2, <5>1
        <5>. SUFFICES /\ draft'[v].match.status = "LIVE" /\ match'.status = "LIVE"
                      /\ draft'[v].match.sequence = match'.sequence + 1
                      /\ \E f \in draft'[v].event, p \in ledger' :
                            /\ draft'[v].event = {f}
                            /\ draft'[v].reversal = {[reversal |-> f.sequence, reversed |-> p.sequence]}
                            /\ f.sequence = match'.sequence + 1
                            /\ f.action = "EVENT_REVERSAL"
                            /\ f.side = p.side
                            /\ ScoreDelta(p) # 0
                            /\ ~ \E l \in reversals' : l.reversed = p.sequence
                            /\ draft'[v].match.score
                                 = [match'.score EXCEPT ![f.side] = @ - ScoreDelta(p)]
          BY DEF ReversesEvent, Reversed
        <5>. QED  BY <5>1, <5>2, <5>3, <5>4
      <4>. QED  BY <3>3, <4>1 DEF DraftOK
    <3>. QED  BY <3>1, <3>4, <3>5, <3>6 DEF DraftOK
  <2>2. CASE pc[v] # "commit"
    <3>1. StartWrite(v) \/ AppendWrite(v) \/ ReverseWrite(v)
      BY <1>1, <1>2, <2>2, PhaseStep
    <3>. QED  BY <1>2, <3>1, StartWriteStep, AppendWriteStep, ReverseWriteStep
  <2>. QED  BY <2>1, <2>2
<1>3. ASSUME pc'[v] \in {"reserve", "lock", "write", "commit", "replay"}
      PROVE  req'[v] \in Requests
  <2>1. CASE pc'[v] = pc[v]
    <3>1. req[v] \in Requests
      BY <1>1, <1>3, <2>1 DEF SessionOK
    <3>2. req'[v] = req[v]
      BY <1>1, <1>3, <2>1, RequestStep
    <3>. QED  BY <3>1, <3>2
  <2>2. CASE pc'[v] # pc[v]
    <3>1. \/ \E r \in Requests : Receive(v, r)
          \/ Reserve(v) \/ LockMatch(v)
          \/ StartWrite(v) \/ AppendWrite(v) \/ ReverseWrite(v)
      BY <1>1, <1>3, <2>2, PhaseStep
    <3>2. CASE \E r \in Requests : Receive(v, r)
      BY <1>1, <3>2 DEF Receive, TypeOK
    <3>3. CASE Reserve(v) \/ LockMatch(v)
      BY <1>1, <3>3 DEF SessionOK, Reserve, LockMatch
    <3>4. CASE StartWrite(v) \/ AppendWrite(v) \/ ReverseWrite(v)
      <4>1. req' = req /\ pc[v] = "write"
        BY <3>4 DEF StartWrite, AppendWrite, ReverseWrite, Rollback, Finish, Prepare
      <4>. QED  BY <1>1, <4>1 DEF SessionOK
    <3>. QED  BY <3>1, <3>2, <3>3, <3>4
  <2>. QED  BY <2>1, <2>2
<1>. QED  BY <1>2, <1>3

-----------------------------------------------------------------------------
(* The tables: what a commit does to the ledger and the score *)

\* Only a commit changes the tables the invariants speak of.
LEMMA StoreStep ==
    ASSUME [Next]_vars, \A w \in Workers : ~Commit(w)
    PROVE  match' = match /\ ledger' = ledger /\ reversals' = reversals
<1>1. ASSUME NEW w \in Workers, NEW r \in Requests, Receive(w, r)
      PROVE  UNCHANGED <<match, ledger, reversals>>
  BY <1>1 DEF Receive, store
<1>2. ASSUME NEW w \in Workers, Reserve(w) \/ LockMatch(w) \/ Replay(w)
      PROVE  UNCHANGED <<match, ledger, reversals>>
  BY <1>2 DEF Reserve, LockMatch, Replay, store
<1>3. ASSUME NEW w \in Workers, StartWrite(w) \/ AppendWrite(w) \/ ReverseWrite(w)
      PROVE  UNCHANGED <<match, ledger, reversals>>
  BY <1>3 DEF StartWrite, AppendWrite, ReverseWrite, Rollback, Prepare, store
<1>4. ASSUME NEW w \in Workers, Reply(w) \/ Crash(w)
      PROVE  UNCHANGED <<match, ledger, reversals>>
  BY <1>4 DEF Reply, Crash, EndSession, store
<1>5. ASSUME NEW k \in RecordKeys, Expire(k)
      PROVE  UNCHANGED <<match, ledger, reversals>>
  BY <1>5 DEF Expire
<1>6. ASSUME UNCHANGED vars
      PROVE  UNCHANGED <<match, ledger, reversals>>
  BY <1>6 DEF vars
<1>. QED  BY <1>1, <1>2, <1>3, <1>4, <1>5, <1>6 DEF Next, Serve

\* A commit brings in what the draft says.
LEMMA CommitStep ==
    ASSUME InductiveInvariant, NEW w \in Workers, Commit(w)
    PROVE  /\ DraftOK(draft[w])
           /\ match' = draft[w].match
           /\ ledger' = ledger \union draft[w].event
           /\ reversals' = reversals \union draft[w].reversal
  BY DEF Commit, InductiveInvariant, SessionOK

\* The numbering stays gapless when the next event joins the ledger.
LEMMA NextEventKeepsLedgerGapless ==
    ASSUME GaplessLedger, match \in Snapshots, ledger \subseteq Events,
           NEW e, e.sequence = match.sequence + 1,
           ledger' = ledger \union {e}, match'.sequence = match.sequence + 1
    PROVE  GaplessLedger'
<1>. DEFINE n == match.sequence
<1>0. n \in Nat
  BY DEF Snapshots
<1>1. IsFiniteSet(ledger')
  BY FS_AddElement DEF GaplessLedger
<1>2. /\ {d.sequence : d \in ledger} = 1 .. n
      /\ \A c, d \in ledger : c.sequence = d.sequence => c = d
  BY DEF GaplessLedger
<1>3. {d.sequence : d \in ledger'} = {d.sequence : d \in ledger} \union {n + 1}
  OBVIOUS
<1>4. {d.sequence : d \in ledger'} = 1 .. match'.sequence
  BY <1>0, <1>2, <1>3
<1>5. \A d \in ledger : d.sequence # n + 1
  BY <1>0, <1>2
<1>6. \A c, d \in ledger' : c.sequence = d.sequence => c = d
  BY <1>2, <1>5
<1>. QED  BY <1>1, <1>4, <1>6 DEF GaplessLedger

LEMMA GaplessStep ==
    ASSUME InductiveInvariant, [Next]_vars
    PROVE  GaplessLedger'
<1>0. TypeOK /\ GaplessLedger
  BY DEF InductiveInvariant
<1>1. CASE \A w \in Workers : ~Commit(w)
  BY <1>0, <1>1, StoreStep DEF GaplessLedger
<1>2. ASSUME NEW w \in Workers, Commit(w)
      PROVE  GaplessLedger'
  <2>1. /\ DraftOK(draft[w])
        /\ match' = draft[w].match
        /\ ledger' = ledger \union draft[w].event
    BY <1>2, CommitStep
  <2>2. CASE StartsMatch(draft[w])
    <3>1. ledger' = ledger /\ match'.sequence = match.sequence
      BY <2>1, <2>2 DEF StartsMatch
    <3>. QED  BY <1>0, <3>1 DEF GaplessLedger
  <2>3. CASE AppendsEvent(draft[w]) \/ ReversesEvent(draft[w])
    <3>1. PICK e \in draft[w].event :
             draft[w].event = {e} /\ e.sequence = match.sequence + 1
      BY <2>3 DEF AppendsEvent, ReversesEvent
    <3>2. match'.sequence = match.sequence + 1
      BY <2>1, <2>3 DEF AppendsEvent, ReversesEvent
    <3>3. ledger' = ledger \union {e}
      BY <2>1, <3>1
    <3>. QED  BY <1>0, <3>1, <3>2, <3>3, NextEventKeepsLedgerGapless DEF TypeOK
  <2>. QED  BY <2>1, <2>2, <2>3 DEF DraftOK
<1>. QED  BY <1>1, <1>2

LEMMA ReversalsStep ==
    ASSUME InductiveInvariant, [Next]_vars
    PROVE  ReversalsAreSound'
<1>0. TypeOK /\ GaplessLedger /\ ReversalsAreSound
  BY DEF InductiveInvariant
<1>1. CASE \A w \in Workers : ~Commit(w)
  BY <1>0, <1>1, StoreStep DEF ReversalsAreSound
<1>2. ASSUME NEW w \in Workers, Commit(w)
      PROVE  ReversalsAreSound'
  <2>1. /\ DraftOK(draft[w])
        /\ ledger' = ledger \union draft[w].event
        /\ reversals' = reversals \union draft[w].reversal
    BY <1>2, CommitStep
  <2>2. CASE StartsMatch(draft[w])
    <3>1. ledger' = ledger /\ reversals' = reversals
      BY <2>1, <2>2 DEF StartsMatch
    <3>. QED  BY <1>0, <3>1 DEF ReversalsAreSound
  <2>3. CASE AppendsEvent(draft[w])
    <3>1. PICK e \in draft[w].event :
             draft[w].event = {e} /\ e.action # "EVENT_REVERSAL"
      BY <2>3 DEF AppendsEvent
    <3>2. ledger' = ledger \union {e} /\ reversals' = reversals
      BY <2>1, <2>3, <3>1 DEF AppendsEvent
    <3>. QED  BY <1>0, <3>1, <3>2 DEF ReversalsAreSound
  <2>4. CASE ReversesEvent(draft[w])
    <3>1. PICK e \in draft[w].event, original \in ledger :
             /\ draft[w].event = {e}
             /\ draft[w].reversal = {[reversal |-> e.sequence, reversed |-> original.sequence]}
             /\ e.sequence = match.sequence + 1
             /\ e.action = "EVENT_REVERSAL"
             /\ e.side = original.side
             /\ ScoreDelta(original) # 0
             /\ ~Reversed(original.sequence)
      BY <2>4 DEF ReversesEvent
    <3>. DEFINE l == [reversal |-> e.sequence, reversed |-> original.sequence]
    <3>2. ledger' = ledger \union {e} /\ reversals' = reversals \union {l}
      BY <2>1, <3>1
    <3>3. /\ l.reversal = e.sequence /\ l.reversed = original.sequence
          /\ l.reversed < l.reversal
      <4>1. match.sequence \in Nat /\ original.sequence \in 1 .. match.sequence
        BY <1>0 DEF TypeOK, Snapshots, GaplessLedger
      <4>. QED  BY <3>1, <4>1
    <3>4. \A k \in reversals : k.reversed # original.sequence
      BY <3>1 DEF Reversed
    <3>. HIDE DEF l
    <3>5. ASSUME NEW link \in reversals'
          PROVE  \E r, o \in ledger' : /\ r.sequence = link.reversal
                                       /\ o.sequence = link.reversed
                                       /\ link.reversed < link.reversal
                                       /\ r.action = "EVENT_REVERSAL"
                                       /\ r.side = o.side
                                       /\ ScoreDelta(o) # 0
      <4>1. CASE link = l
        BY <3>1, <3>2, <3>3, <4>1
      <4>2. CASE link \in reversals
        BY <1>0, <3>2, <4>2 DEF ReversalsAreSound
      <4>. QED  BY <3>2, <4>1, <4>2
    <3>6. \A l1, l2 \in reversals' : l1.reversed = l2.reversed => l1 = l2
      BY <1>0, <3>2, <3>3, <3>4 DEF ReversalsAreSound
    <3>7. \A f \in ledger' : f.action = "EVENT_REVERSAL" =>
             \E link \in reversals' : link.reversal = f.sequence
      BY <1>0, <3>2, <3>3 DEF ReversalsAreSound
    <3>. QED  BY <3>5, <3>6, <3>7 DEF ReversalsAreSound
  <2>. QED  BY <2>1, <2>2, <2>3, <2>4 DEF DraftOK
<1>. QED  BY <1>1, <1>2

-----------------------------------------------------------------------------
(* The score: what is counted, and how a commit changes the counts *)

\* The events of side s in L that change the score by d and that no link in R
\* reverses.
Standing(L, R, s, d) ==
    {e \in L : /\ e.side = s
               /\ ScoreDelta(e) = d
               /\ \A link \in R : link.reversed # e.sequence}

\* Once all events are counted, the bounds on the sequence play no part.
LEMMA CountingIsStanding ==
    ASSUME GaplessLedger, ReversalsAreSound, match.sequence \in Nat, NEW s, NEW d
    PROVE  Counting(match.sequence, s, d) = Standing(ledger, reversals, s, d)
<1>1. \A e \in ledger : e.sequence \in 1 .. match.sequence
  BY DEF GaplessLedger
<1>2. \A e \in ledger : e.sequence <= match.sequence
  BY <1>1
<1>3. \A link \in reversals : ~(link.reversal > match.sequence)
  <2>1. \A link \in reversals : \E e \in ledger : e.sequence = link.reversal
    BY DEF ReversalsAreSound
  <2>2. \A link \in reversals : link.reversal \in 1 .. match.sequence
    BY <1>1, <2>1
  <2>. QED  BY <2>2
<1>. QED  BY <1>2, <1>3 DEF Counting, Standing

\* The same in the next state.
LEMMA CountingIsStandingNext ==
    ASSUME GaplessLedger', ReversalsAreSound', match'.sequence \in Nat, NEW s, NEW d
    PROVE  Counting(match.sequence, s, d)' = Standing(ledger', reversals', s, d)
<1>1. \A e \in ledger' : e.sequence \in 1 .. match'.sequence
  BY DEF GaplessLedger
<1>2. \A e \in ledger' : e.sequence <= match'.sequence
  BY <1>1
<1>3. \A link \in reversals' : ~(link.reversal > match'.sequence)
  <2>1. \A link \in reversals' : \E e \in ledger' : e.sequence = link.reversal
    BY DEF ReversalsAreSound
  <2>2. \A link \in reversals' : link.reversal \in 1 .. match'.sequence
    BY <1>1, <2>1
  <2>. QED  BY <2>2
<1>. QED  BY <1>2, <1>3 DEF Counting, Standing

LEMMA StandingIsFinite ==
    ASSUME NEW L, IsFiniteSet(L), NEW R, NEW s, NEW d
    PROVE  IsFiniteSet(Standing(L, R, s, d)) /\ Cardinality(Standing(L, R, s, d)) \in Nat
<1>1. Standing(L, R, s, d) \in SUBSET L
  BY DEF Standing
<1>. QED  BY <1>1, FS_Subset, FS_CardinalityType

\* A new event of which nothing is reversed adds one to the count it belongs to.
LEMMA AddedEventCounts ==
    ASSUME NEW L, IsFiniteSet(L), NEW R, NEW e, e \notin L,
           \A link \in R : link.reversed # e.sequence, NEW s, NEW d
    PROVE  Cardinality(Standing(L \union {e}, R, s, d))
             = Cardinality(Standing(L, R, s, d))
                 + IF e.side = s /\ ScoreDelta(e) = d THEN 1 ELSE 0
<1>. DEFINE S == Standing(L, R, s, d)
<1>0. IsFiniteSet(S) /\ Cardinality(S) \in Nat
  BY StandingIsFinite
<1>1. e \notin S
  BY DEF Standing
<1>2. Cardinality(S \union {e}) = Cardinality(S) + 1
  <2>. HIDE DEF S
  <2>. QED  BY <1>0, <1>1, FS_AddElement
<1>3. CASE e.side = s /\ ScoreDelta(e) = d
  <2>1. Standing(L \union {e}, R, s, d) = S \union {e}
    BY <1>3 DEF Standing
  <2>. QED  BY <1>2, <1>3, <2>1
<1>4. CASE ~(e.side = s /\ ScoreDelta(e) = d)
  <2>1. Standing(L \union {e}, R, s, d) = S
    BY <1>4 DEF Standing
  <2>. QED  BY <1>0, <1>4, <2>1
<1>. QED  BY <1>3, <1>4

\* A reversed event no longer counts, and its reversal does not count either.
LEMMA ReversedEventCounts ==
    ASSUME NEW L, IsFiniteSet(L), NEW R, NEW e, NEW o \in L, NEW link,
           \A f \in L : f.sequence = o.sequence => f = o,
           \A k \in R : k.reversed # o.sequence,
           link.reversed = o.sequence,
           ScoreDelta(e) = 0, NEW s, NEW d, d # 0
    PROVE  Cardinality(Standing(L \union {e}, R \union {link}, s, d))
             = Cardinality(Standing(L, R, s, d))
                 - IF o.side = s /\ ScoreDelta(o) = d THEN 1 ELSE 0
<1>. DEFINE S == Standing(L, R, s, d)
<1>0. IsFiniteSet(S) /\ Cardinality(S) \in Nat
  BY StandingIsFinite
<1>1. Standing(L \union {e}, R \union {link}, s, d) = S \ {o}
  BY DEF Standing
<1>2. o \in S <=> o.side = s /\ ScoreDelta(o) = d
  BY DEF Standing
<1>3. Cardinality(S \ {o}) = Cardinality(S) - IF o \in S THEN 1 ELSE 0
  <2>. HIDE DEF S
  <2>1. Cardinality(S \ {o}) = IF o \in S THEN Cardinality(S) - 1 ELSE Cardinality(S)
    BY <1>0, FS_RemoveElement
  <2>. QED  BY <1>0, <2>1
<1>. QED  BY <1>1, <1>2, <1>3

\* The score a side has by the count of its standing events.
LEMMA ScoreByStanding ==
    ASSUME GaplessLedger, ReversalsAreSound, ScoreIsDerived,
           match.sequence \in Nat, NEW s \in Sides
    PROVE  match.score[s] = Cardinality(Standing(ledger, reversals, s, 1))
                              - Cardinality(Standing(ledger, reversals, s, -1))
<1>1. Counting(match.sequence, s, 1) = Standing(ledger, reversals, s, 1)
  BY CountingIsStanding
<1>2. Counting(match.sequence, s, -1) = Standing(ledger, reversals, s, -1)
  BY CountingIsStanding
<1>. QED  BY <1>1, <1>2 DEF ScoreIsDerived, LedgerScore

LEMMA ScoreStep ==
    ASSUME InductiveInvariant, [Next]_vars, TypeOK', GaplessLedger', ReversalsAreSound'
    PROVE  ScoreIsDerived'
<1>0. /\ TypeOK /\ GaplessLedger /\ ReversalsAreSound /\ ScoreIsDerived
      /\ IsFiniteSet(ledger) /\ match \in Snapshots /\ match' \in Snapshots
      /\ match.sequence \in Nat /\ match'.sequence \in Nat
  BY DEF InductiveInvariant, GaplessLedger, TypeOK, Snapshots
<1>1. CASE \A w \in Workers : ~Commit(w)
  BY <1>0, <1>1, StoreStep DEF ScoreIsDerived, LedgerScore, Counting
<1>2. ASSUME NEW w \in Workers, Commit(w)
      PROVE  ScoreIsDerived'
  <2>1. /\ DraftOK(draft[w])
        /\ match' = draft[w].match
        /\ ledger' = ledger \union draft[w].event
        /\ reversals' = reversals \union draft[w].reversal
    BY <1>2, CommitStep
  <2>. DEFINE Up(s)   == Cardinality(Standing(ledger, reversals, s, 1))
              Down(s) == Cardinality(Standing(ledger, reversals, s, -1))
              UpNext(s)   == Cardinality(Standing(ledger', reversals', s, 1))
              DownNext(s) == Cardinality(Standing(ledger', reversals', s, -1))
  <2>2. /\ \A s \in Sides : match.score[s] = Up(s) - Down(s)
        /\ \A s : Up(s) \in Nat /\ Down(s) \in Nat
    BY <1>0, ScoreByStanding, StandingIsFinite
  <2>3. SUFFICES ASSUME NEW s \in Sides
                 PROVE  match'.score[s] = UpNext(s) - DownNext(s)
    <3>1. match'.score = [s \in Sides |-> match'.score[s]]
      BY <1>0 DEF Snapshots
    <3>2. \A s \in Sides : /\ Counting(match.sequence, s, 1)' = Standing(ledger', reversals', s, 1)
                           /\ Counting(match.sequence, s, -1)' = Standing(ledger', reversals', s, -1)
      BY <1>0, CountingIsStandingNext
    <3>. QED  BY <2>3, <3>1, <3>2 DEF ScoreIsDerived, LedgerScore
  <2>4. CASE StartsMatch(draft[w])
    <3>1. ledger' = ledger /\ reversals' = reversals /\ match'.score = match.score
      BY <2>1, <2>4 DEF StartsMatch
    <3>. QED  BY <2>2, <3>1
  <2>5. CASE AppendsEvent(draft[w])
    <3>1. PICK e \in draft[w].event :
             /\ draft[w].event = {e}
             /\ e.sequence = match.sequence + 1
             /\ draft[w].match.score = [match.score EXCEPT ![e.side] = @ + ScoreDelta(e)]
      BY <2>5 DEF AppendsEvent
    <3>2. ledger' = ledger \union {e} /\ reversals' = reversals /\ e \in ledger'
      BY <2>1, <2>5, <3>1 DEF AppendsEvent
    <3>3. e \notin ledger /\ \A link \in reversals : link.reversed # e.sequence
      <4>1. \A f \in ledger : f.sequence \in 1 .. match.sequence
        BY <1>0 DEF GaplessLedger
      <4>2. \A f \in ledger : f.sequence # e.sequence
        BY <1>0, <3>1, <4>1
      <4>3. \A link \in reversals : \E f \in ledger : f.sequence = link.reversed
        BY <1>0 DEF ReversalsAreSound
      <4>. QED  BY <4>2, <4>3
    <3>4. /\ UpNext(s) = Up(s) + IF e.side = s /\ ScoreDelta(e) = 1 THEN 1 ELSE 0
          /\ DownNext(s) = Down(s) + IF e.side = s /\ ScoreDelta(e) = -1 THEN 1 ELSE 0
      BY <1>0, <3>2, <3>3, AddedEventCounts
    <3>5. ScoreDelta(e) \in {-1, 0, 1} /\ e.side \in Sides
      BY <3>2, ScoreDeltaType DEF TypeOK, Events
    <3>6. match'.score[s] = match.score[s] + IF e.side = s THEN ScoreDelta(e) ELSE 0
      BY <1>0, <2>1, <2>2, <3>1, <3>5 DEF Snapshots
    <3>. HIDE DEF Up, Down, UpNext, DownNext
    <3>. QED  BY <2>2, <3>4, <3>5, <3>6
  <2>6. CASE ReversesEvent(draft[w])
    <3>1. PICK e \in draft[w].event, o \in ledger :
             /\ draft[w].event = {e}
             /\ draft[w].reversal = {[reversal |-> e.sequence, reversed |-> o.sequence]}
             /\ e.action = "EVENT_REVERSAL"
             /\ e.side = o.side
             /\ ~Reversed(o.sequence)
             /\ draft[w].match.score = [match.score EXCEPT ![e.side] = @ - ScoreDelta(o)]
      BY <2>6 DEF ReversesEvent
    <3>. DEFINE l == [reversal |-> e.sequence, reversed |-> o.sequence]
    <3>2. ledger' = ledger \union {e} /\ reversals' = reversals \union {l} /\ e \in ledger'
      BY <2>1, <3>1
    <3>3. /\ l.reversed = o.sequence
          /\ \A k \in reversals : k.reversed # o.sequence
          /\ \A f \in ledger : f.sequence = o.sequence => f = o
      BY <1>0, <3>1 DEF Reversed, GaplessLedger
    <3>4. ScoreDelta(e) = 0 /\ ScoreDelta(o) \in {-1, 0, 1} /\ o.side \in Sides
      BY <1>0, <3>1, <3>2, ScoreDeltaType DEF TypeOK, Events
    <3>. HIDE DEF l
    <3>5. /\ UpNext(s) = Up(s) - IF o.side = s /\ ScoreDelta(o) = 1 THEN 1 ELSE 0
          /\ DownNext(s) = Down(s) - IF o.side = s /\ ScoreDelta(o) = -1 THEN 1 ELSE 0
      BY <1>0, <3>2, <3>3, <3>4, ReversedEventCounts
    <3>6. match'.score[s] = match.score[s] - IF o.side = s THEN ScoreDelta(o) ELSE 0
      BY <1>0, <2>1, <2>2, <3>1, <3>4 DEF Snapshots
    <3>. HIDE DEF Up, Down, UpNext, DownNext
    <3>. QED  BY <2>2, <3>4, <3>5, <3>6
  <2>. QED  BY <2>1, <2>4, <2>5, <2>6 DEF DraftOK
<1>. QED  BY <1>1, <1>2

-----------------------------------------------------------------------------
(* The inductive invariant and what it implies *)

LEMMA InvInit == Init => InductiveInvariant
<1>. SUFFICES ASSUME Init PROVE InductiveInvariant
  OBVIOUS
<1>1. TypeOK
  BY TypeInit
<1>2. SessionOK /\ LockedReadIsCurrent
  BY DEF Init, SessionOK, LockedReadIsCurrent
<1>3. GaplessLedger
  <2>1. {e.sequence : e \in ledger} = {} /\ 1 .. match.sequence = {}
    BY DEF Init
  <2>. QED  BY <2>1, FS_EmptySet DEF Init, GaplessLedger
<1>4. ReversalsAreSound
  BY DEF Init, ReversalsAreSound
<1>5. ScoreIsDerived
  <2>1. ledger = {} /\ match.score = [s \in Sides |-> 0]
    BY DEF Init
  <2>2. \A s, d : Counting(match.sequence, s, d) \subseteq ledger
    BY DEF Counting
  <2>3. \A s \in Sides : /\ Counting(match.sequence, s, 1) = {}
                         /\ Counting(match.sequence, s, -1) = {}
    BY <2>1, <2>2
  <2>4. Cardinality({}) = 0
    BY FS_EmptySet
  <2>5. LedgerScore(match.sequence) = [s \in Sides |-> 0]
    BY <2>3, <2>4 DEF LedgerScore
  <2>. QED  BY <2>1, <2>5 DEF ScoreIsDerived
<1>. QED  BY <1>1, <1>2, <1>3, <1>4, <1>5 DEF InductiveInvariant

LEMMA InvStep == InductiveInvariant /\ [Next]_vars => InductiveInvariant'
<1>. SUFFICES ASSUME InductiveInvariant, [Next]_vars
              PROVE  InductiveInvariant'
  OBVIOUS
<1>1. TypeOK'
  BY TypeStep
<1>2. SessionOK' /\ LockedReadIsCurrent'
  BY SessionStep, LockStep
<1>3. GaplessLedger' /\ ReversalsAreSound'
  BY GaplessStep, ReversalsStep
<1>4. ScoreIsDerived'
  BY <1>1, <1>3, ScoreStep
<1>. QED  BY <1>1, <1>2, <1>3, <1>4 DEF InductiveInvariant

\* The conjunction of the invariants is inductive, so it always holds.
THEOREM InductiveInvariantHolds == Spec => []InductiveInvariant
  BY InvInit, InvStep, PTL DEF Spec

\* Every table and every worker holds values of its type; in particular no
\* score is ever negative.
THEOREM TypeCorrect == Spec => []TypeOK
<1>1. InductiveInvariant => TypeOK
  BY DEF InductiveInvariant
<1>. QED  BY <1>1, InductiveInvariantHolds, PTL

\* Whoever writes holds the row and its key, and what it read is current.
THEOREM LocksProtect == Spec => []LockedReadIsCurrent
<1>1. InductiveInvariant => LockedReadIsCurrent
  BY DEF InductiveInvariant
<1>. QED  BY <1>1, InductiveInvariantHolds, PTL

\* The ledger is numbered without gap or repetition up to current_sequence,
\* whatever the number of workers and requests.
THEOREM LedgerIsGapless == Spec => []GaplessLedger
<1>1. InductiveInvariant => GaplessLedger
  BY DEF InductiveInvariant
<1>. QED  BY <1>1, InductiveInvariantHolds, PTL

\* Only earlier scoring events are reversed, each of them at most once.
THEOREM ReversalsStaySound == Spec => []ReversalsAreSound
<1>1. InductiveInvariant => ReversalsAreSound
  BY DEF InductiveInvariant
<1>. QED  BY <1>1, InductiveInvariantHolds, PTL

\* The score columns always equal what the ledger adds up to.
THEOREM ScoreIsAlwaysDerived == Spec => []ScoreIsDerived
<1>1. InductiveInvariant => ScoreIsDerived
  BY DEF InductiveInvariant
<1>. QED  BY <1>1, InductiveInvariantHolds, PTL

-----------------------------------------------------------------------------
(* What a step may do *)

\* A commit leaves ledger and score alone, or adds the next event.
LEMMA CommitAddsOneEvent ==
    ASSUME InductiveInvariant, NEW w \in Workers, Commit(w)
    PROVE  \/ UNCHANGED <<ledger, reversals, match.sequence, match.score>>
           \/ /\ match.status = "LIVE" /\ match'.status = "LIVE"
              /\ match'.sequence = match.sequence + 1
              /\ ledger \subseteq ledger'
              /\ \A e \in ledger' \ ledger : e.sequence = match'.sequence
              /\ reversals \subseteq reversals'
<1>1. /\ DraftOK(draft[w])
      /\ match' = draft[w].match
      /\ ledger' = ledger \union draft[w].event
      /\ reversals' = reversals \union draft[w].reversal
  BY CommitStep
<1>2. CASE StartsMatch(draft[w])
  BY <1>1, <1>2 DEF StartsMatch
<1>3. CASE AppendsEvent(draft[w]) \/ ReversesEvent(draft[w])
  <2>1. PICK e \in draft[w].event : draft[w].event = {e} /\ e.sequence = match.sequence + 1
    BY <1>3 DEF AppendsEvent, ReversesEvent
  <2>2. /\ draft[w].match.sequence = match.sequence + 1
        /\ draft[w].match.status = "LIVE" /\ match.status = "LIVE"
    BY <1>3 DEF AppendsEvent, ReversesEvent
  <2>. QED  BY <1>1, <2>1, <2>2
<1>. QED  BY <1>1, <1>2, <1>3 DEF DraftOK

\* The ledger is append-only: no step of any worker changes or removes an event
\* or a reversal, or moves the score without adding the next event.
THEOREM LedgerIsAppendOnly == Spec => OneEventAtATime
<1>1. InductiveInvariant /\ [Next]_vars =>
        [\/ UNCHANGED <<ledger, reversals, match.sequence, match.score>>
         \/ /\ match.status = "LIVE" /\ match'.status = "LIVE"
            /\ match'.sequence = match.sequence + 1
            /\ ledger \subseteq ledger'
            /\ \A e \in ledger' \ ledger : e.sequence = match'.sequence
            /\ reversals \subseteq reversals']_vars
  BY StoreStep, CommitAddsOneEvent
<1>. QED  BY <1>1, InductiveInvariantHolds, PTL DEF Spec, OneEventAtATime

=============================================================================
