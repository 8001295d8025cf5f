----------------------------- MODULE MatchStore -----------------------------
(***************************************************************************)
(* The write path of one live match: StartLiveSession, Append and Reverse  *)
(* of internal/match/postgres_repository.go, called by the handlers of     *)
(* internal/match/httpapi.                                                 *)
(*                                                                         *)
(* Every worker is one HTTP request being served: a database transaction   *)
(* on a READ COMMITTED PostgreSQL that                                     *)
(*                                                                         *)
(*    reserve   removes the expired idempotency record of its key and      *)
(*              inserts a new one ON CONFLICT DO NOTHING, which waits for  *)
(*              an open transaction that inserted the same key;            *)
(*    lock      SELECTs the match FOR UPDATE, which waits for the holder   *)
(*              of the row, and keeps what it read;                        *)
(*    write     checks the request against what it read and issues its     *)
(*              INSERTs and UPDATEs, invisible to other transactions;      *)
(*    commit    makes them visible and gives up the key and the row;       *)
(*    replay    instead of the last two, reads the stored response.        *)
(*                                                                         *)
(* Between any two steps other workers run, the worker may crash or lose   *)
(* its client (Crash), and clients send any request again at any time.     *)
(*                                                                         *)
(* The uuid PostgreSQL generates for an event is represented by the        *)
(* sequence number the event is inserted under: UNIQUE (match_id,          *)
(* sequence) makes the two interchangeable.                                *)
(***************************************************************************)
EXTENDS MatchDomain, FiniteSets, Sequences

CONSTANTS
    Workers,        \* requests that can be in service at the same time
    Requests,       \* what clients may send, again and again
    MaxScore,       \* largest value of the smallint score columns
    None            \* no worker, no request, no value

Ops == {"start", "append", "reverse"}

ASSUME WorkersAssumption == None \notin Workers

\* A request that passed the handler and Validate.  Fields an operation does
\* not have are filled with any value of the right type.  target is the event
\* named by the path of a reversal; rostered says that every subject of an
\* appended event is on the roster, and on the side its role calls for; storable
\* says that PostgreSQL takes the texts of the body.  It takes no reason of a
\* reversal with less than three characters, of which the Go code counts the
\* bytes, and no NUL in a jsonb column.
ASSUME RequestsAssumption ==
    /\ None \notin Requests
    /\ \A r \in Requests :
          /\ r.op \in Ops
          /\ r.expected \in Nat
          /\ r.action \in Actions \ {"EVENT_REVERSAL"}
          /\ r.side \in Sides
          /\ r.adjustment \in {-1, 1}
          /\ r.target \in Nat
          /\ r.rostered \in BOOLEAN
          /\ r.storable \in BOOLEAN

ASSUME MaxScoreAssumption == MaxScore \in Nat

VARIABLES
    match,          \* status, current_sequence and scores: matches, match_live_state
    ledger,         \* rows of match_events
    reversals,      \* rows of event_reversals
    records,        \* committed idempotency_records, by scope and key
    outbox,         \* rows of outbox_events in the order they were committed
    owner,          \* the open transaction that inserted a key, by scope and key
    rowLock,        \* the transaction that holds the match row
    pc,             \* where each worker is in its transaction
    req,            \* the request each worker serves
    read,           \* the snapshot its SELECT ... FOR UPDATE returned
    draft,          \* the rows it has written and not yet committed
    reply           \* the result it is about to return

store   == <<match, ledger, reversals, records, outbox>>
locks   == <<owner, rowLock>>
session == <<pc, req, read, draft, reply>>
vars    == <<match, ledger, reversals, records, outbox, owner, rowLock,
             pc, req, read, draft, reply>>

-----------------------------------------------------------------------------
(* Idempotency records *)

\* Where a request's record is kept.  The scope is the operation, the match
\* and, for events, the client_event_id; the target of a reversal is not part
\* of it.
RecordKey(r) ==
    [op |-> r.op, client |-> IF r.op = "start" THEN None ELSE r.client, key |-> r.key]

\* The digest of the request body.  A live-session request is hashed as an
\* empty object, a reversal's body does not name the event it reverses.
RequestHash(r) ==
    CASE r.op = "start"   -> <<>>
      [] r.op = "append"  -> <<r.client, r.expected, r.action, r.side, r.adjustment,
                                r.rostered, r.storable>>
      [] r.op = "reverse" -> <<r.client, r.expected, r.storable>>

RecordKeys == {RecordKey(r) : r \in Requests}

\* A key can be reserved when no unexpired record holds it.
Reservable(k) == records[k] # None => records[k].expired

-----------------------------------------------------------------------------
(* Results *)

Success(event, snapshot) ==
    [outcome |-> "ok", event |-> event, snapshot |-> snapshot]

Failure(err) == [outcome |-> err, event |-> 0, snapshot |-> None]

\* The handlers' translation of a result to an HTTP status.  In
\* event_handler.go three of the errors hit a case with an empty body.
HttpStatus(op, outcome) ==
    CASE outcome = "ok" -> 201
      [] outcome = "ErrInvalidMatchInput" -> 422
      [] op = "start" /\ outcome \in {"ErrMatchNotReady", "ErrIdempotencyConflict"} -> 409
      [] op = "append" /\ outcome = "ErrEventAlreadyExists" -> 409
      [] op = "reverse" /\ outcome = "ErrEventNotFound" -> 404
      [] op = "reverse" /\ outcome \in {"ErrSequenceConflict", "ErrMatchNotLive",
             "ErrEventAlreadyReversed", "ErrEventNotReversible",
             "ErrIdempotencyConflict"} -> 409
      [] OTHER -> 500

-----------------------------------------------------------------------------
(* Transactions *)

\* Mutant of Release: the row stays locked.
ReleaseKeysOnly(w) ==
    /\ owner' = [k \in RecordKeys |-> IF owner[k] = w THEN None ELSE owner[k]]
    /\ UNCHANGED rowLock

\* The locks a transaction holds end with it, however it ends.
Release(w) ==
    /\ owner' = [k \in RecordKeys |-> IF owner[k] = w THEN None ELSE owner[k]]
    /\ rowLock' = IF rowLock = w THEN None ELSE rowLock

Forget(w) ==
    /\ read' = [read EXCEPT ![w] = None]
    /\ draft' = [draft EXCEPT ![w] = None]

Goto(w, label) == pc' = [pc EXCEPT ![w] = label]

\* The transaction ends and the worker goes on to answer its client.
Finish(w, result) ==
    /\ Release(w)
    /\ Forget(w)
    /\ Goto(w, "reply")
    /\ reply' = [reply EXCEPT ![w] = result]
    /\ UNCHANGED req

Rollback(w, err) == Finish(w, Failure(err)) /\ UNCHANGED store

\* The match has been made ready.  How it gets there, and that its line-ups do not
\* come from this program, is in MatchSetup.
Init ==
    /\ match = [status |-> "READY", sequence |-> 0, score |-> [s \in Sides |-> 0]]
    /\ ledger = {}
    /\ reversals = {}
    /\ records = [k \in RecordKeys |-> None]
    /\ outbox = <<[type |-> "match.created.v1",
                   sequence |-> 0, snapshot |-> [match EXCEPT !.status = "DRAFT"]]>>
    /\ owner = [k \in RecordKeys |-> None]
    /\ rowLock = None
    /\ pc = [w \in Workers |-> "idle"]
    /\ req = [w \in Workers |-> None]
    /\ read = [w \in Workers |-> None]
    /\ draft = [w \in Workers |-> None]
    /\ reply = [w \in Workers |-> None]

\* A request arrives, for the first time or again.
Receive(w, r) ==
    /\ pc[w] = "idle"
    /\ Goto(w, "reserve")
    /\ req' = [req EXCEPT ![w] = r]
    /\ UNCHANGED <<store, locks, read, draft, reply>>

\* DELETE the expired record, INSERT ... ON CONFLICT DO NOTHING.  Append locks
\* the match before it looks at the stored response, the others do not.
Reserve(w) ==
    LET k == RecordKey(req[w]) IN
    /\ pc[w] = "reserve"
    /\ owner[k] = None
    /\ \/ /\ Reservable(k)
          /\ owner' = [owner EXCEPT ![k] = w]
          /\ Goto(w, "lock")
       \/ /\ ~Reservable(k)
          /\ Goto(w, IF req[w].op = "append" THEN "lock" ELSE "replay")
          /\ UNCHANGED owner
    /\ UNCHANGED <<store, rowLock, req, read, draft, reply>>

\* Mutant of LockMatch: the SELECT without FOR UPDATE.
ReadMatch(w) ==
    /\ pc[w] = "lock"
    /\ read' = [read EXCEPT ![w] = match]
    /\ Goto(w, IF owner[RecordKey(req[w])] = w THEN "write" ELSE "replay")
    /\ UNCHANGED <<store, locks, req, draft, reply>>

\* SELECT ... FOR UPDATE OF m, l
LockMatch(w) ==
    /\ pc[w] = "lock"
    /\ rowLock = None
    /\ rowLock' = w
    /\ read' = [read EXCEPT ![w] = match]
    /\ Goto(w, IF owner[RecordKey(req[w])] = w THEN "write" ELSE "replay")
    /\ UNCHANGED <<store, owner, req, draft, reply>>

\* The key was taken: answer with the stored response, or refuse a request
\* whose body differs from the one the response was given to.
Replay(w) ==
    LET record == records[RecordKey(req[w])] IN
    /\ pc[w] = "replay"
    /\ Finish(w, IF record = None THEN Failure("internal")
                 ELSE IF record.hash # RequestHash(req[w])
                      THEN Failure("ErrIdempotencyConflict")
                 ELSE record.result)
    /\ UNCHANGED store

-----------------------------------------------------------------------------
(* What each operation writes under the row lock *)

ClientEvents == {e.client : e \in ledger}

\* Mutant of OutboxType: the statement of Append, copied to Reverse.
OutboxTypeCopied(op) ==
    IF op = "start" THEN "match.status-changed.v1" ELSE "match.event-recorded.v1"

OutboxType(op) ==
    CASE op = "start"   -> "match.status-changed.v1"
      [] op = "append"  -> "match.event-recorded.v1"
      [] op = "reverse" -> "match.event-reversed.v1"

\* Mutant of EventResult: the answer carries the snapshot that was read.
EventResultOld(before, next) == Success(next.sequence, before)

\* Append and Reverse answer with the event and the updated snapshot.
EventResult(before, next) == Success(next.sequence, next)

\* The rows are written: they stay in draft until the commit.
Prepare(w, next, event, reversal, result) ==
    /\ draft' = [draft EXCEPT ![w] =
            [match |-> next, event |-> event, reversal |-> reversal,
             row |-> [type |-> OutboxType(req[w].op), sequence |-> next.sequence,
                      snapshot |-> result.snapshot],
             result |-> result]]
    /\ Goto(w, "commit")
    /\ UNCHANGED <<store, locks, req, read, reply>>

\* StartLiveSession discards the snapshot the domain function returns and
\* answers with the one it read, whose status is still READY.  Its check of the
\* line-ups is part of MatchSetup: it never fails on a match that MarkReady has
\* made READY.
StartWrite(w) ==
    LET err == StartError(read[w]) IN
    /\ pc[w] = "write" /\ req[w].op = "start"
    /\ \/ err # "none" /\ Rollback(w, err)
       \/ /\ err = "none"
          /\ Prepare(w, [read[w] EXCEPT !.status = "LIVE"], {}, {}, Success(0, read[w]))

\* Mutant of AppendError: no UNIQUE (match_id, client_event_id).
AppendErrorAnyClient(snapshot, r) ==
    IF ~r.rostered THEN "ErrInvalidMatchInput"
    ELSE IF ApplyError(snapshot, r) # "none" THEN ApplyError(snapshot, r)
    ELSE IF ~r.storable THEN "internal"
    ELSE IF ApplyEvent(snapshot, r).score[r.side] > MaxScore THEN "internal"
    ELSE "none"

\* The error that keeps Append from committing.  Subjects are looked up first,
\* in a roster that no longer changes.  The last three come from the database:
\* of them UNIQUE (match_id, client_event_id) is named to the client, while a text
\* that is no jsonb, UNIQUE (match_id, sequence) and the width of the score columns
\* are not.
AppendError(snapshot, r) ==
    IF ~r.rostered THEN "ErrInvalidMatchInput"
    ELSE IF ApplyError(snapshot, r) # "none" THEN ApplyError(snapshot, r)
    ELSE IF ~r.storable THEN "internal"
    ELSE IF r.client \in ClientEvents THEN "ErrEventAlreadyExists"
    ELSE IF \/ \E e \in ledger : e.sequence = snapshot.sequence + 1
            \/ ApplyEvent(snapshot, r).score[r.side] > MaxScore
         THEN "internal"
    ELSE "none"

AppendWrite(w) ==
    LET r     == req[w]
        err   == AppendError(read[w], r)
        next  == ApplyEvent(read[w], r)
        event == [sequence |-> next.sequence, client |-> r.client, action |-> r.action,
                  side |-> r.side, adjustment |-> r.adjustment]
    IN  /\ pc[w] = "write" /\ r.op = "append"
        /\ \/ err # "none" /\ Rollback(w, err)
           \/ /\ err = "none"
              /\ Prepare(w, next, {event}, {}, EventResult(read[w], next))

Reversed(sequence) == \E link \in reversals : link.reversed = sequence

EventAt(sequence) == CHOOSE e \in ledger : e.sequence = sequence

\* Mutant of ReversalError: expected_sequence is not compared.
ReversalErrorAnySequence(snapshot, r) ==
    IF \A e \in ledger : e.sequence # r.target THEN "ErrEventNotFound"
    ELSE IF Reversed(r.target) THEN "ErrEventAlreadyReversed"
    ELSE IF ReverseError(snapshot, EventAt(r.target)) # "none"
         THEN ReverseError(snapshot, EventAt(r.target))
    ELSE IF ~r.storable \/ r.client \in ClientEvents THEN "internal"
    ELSE "none"

\* The error that keeps Reverse from committing, in the order of the checks.
\* Here every violated constraint is an unnamed database error, the CHECK on the
\* length of the reason among them.
ReversalError(snapshot, r) ==
    IF snapshot.sequence # r.expected THEN "ErrSequenceConflict"
    ELSE IF \A e \in ledger : e.sequence # r.target THEN "ErrEventNotFound"
    ELSE IF Reversed(r.target) THEN "ErrEventAlreadyReversed"
    ELSE IF ReverseError(snapshot, EventAt(r.target)) # "none"
         THEN ReverseError(snapshot, EventAt(r.target))
    ELSE IF \/ ~r.storable
            \/ r.client \in ClientEvents
            \/ \E e \in ledger : e.sequence = snapshot.sequence + 1
            \/ Reversed(r.target)
            \/ LET original == EventAt(r.target)
               IN  ReverseEvent(snapshot, original).score[original.side] > MaxScore
         THEN "internal"
    ELSE "none"

ReverseWrite(w) ==
    LET r        == req[w]
        err      == ReversalError(read[w], r)
        original == EventAt(r.target)
        next     == ReverseEvent(read[w], original)
        event    == [sequence |-> next.sequence, client |-> r.client,
                     action |-> "EVENT_REVERSAL", side |-> original.side,
                     adjustment |-> original.adjustment]
    IN  /\ pc[w] = "write" /\ r.op = "reverse"
        /\ \/ err # "none" /\ Rollback(w, err)
           \/ /\ err = "none"
              /\ Prepare(w, next, {event},
                         {[reversal |-> next.sequence, reversed |-> r.target]},
                         EventResult(read[w], next))

\* The response is stored in the reserved record and everything becomes
\* visible at once.
Commit(w) ==
    /\ pc[w] = "commit"
    /\ match' = draft[w].match
    /\ ledger' = ledger \union draft[w].event
    /\ reversals' = reversals \union draft[w].reversal
    /\ outbox' = Append(outbox, draft[w].row)
    /\ records' = [records EXCEPT ![RecordKey(req[w])] =
            [hash |-> RequestHash(req[w]), result |-> draft[w].result, expired |-> FALSE]]
    /\ Finish(w, draft[w].result)

-----------------------------------------------------------------------------
(* The end of a request *)

EndSession(w) ==
    /\ Goto(w, "idle")
    /\ req' = [req EXCEPT ![w] = None]
    /\ reply' = [reply EXCEPT ![w] = None]
    /\ Forget(w)
    /\ UNCHANGED store

\* The client receives the answer.
Reply(w) ==
    /\ pc[w] = "reply"
    /\ EndSession(w)
    /\ UNCHANGED locks

\* The worker or its client goes away.  PostgreSQL rolls the transaction back,
\* or has committed it and the answer is lost.
Crash(w) ==
    /\ pc[w] # "idle"
    /\ EndSession(w)
    /\ Release(w)

\* Twenty-four hours pass for a stored response.
Expire(k) ==
    /\ records[k] # None
    /\ ~records[k].expired
    /\ records' = [records EXCEPT ![k].expired = TRUE]
    /\ UNCHANGED <<match, ledger, reversals, outbox, locks, session>>

Serve(w) ==
    \/ Reserve(w) \/ LockMatch(w) \/ Replay(w)
    \/ StartWrite(w) \/ AppendWrite(w) \/ ReverseWrite(w)
    \/ Commit(w) \/ Reply(w)

Next ==
    \/ \E w \in Workers : \/ \E r \in Requests : Receive(w, r)
                          \/ Serve(w)
                          \/ Crash(w)
    \/ \E k \in RecordKeys : Expire(k)

Spec == Init /\ [][Next]_vars

\* A worker keeps running and PostgreSQL wakes lock waiters in turn, so no
\* request waits for ever for a key or a row that is free again and again.
\* Nothing is assumed of clients, crashes and the passage of a day.
Fairness == \A w \in Workers :
    /\ WF_vars(Serve(w))
    /\ SF_vars(Reserve(w))
    /\ SF_vars(LockMatch(w))

FairSpec == Spec /\ Fairness

-----------------------------------------------------------------------------
(* Properties *)

Clients == {r.client : r \in Requests}

Events == [sequence : Nat \ {0}, client : Clients, action : Actions,
           side : Sides, adjustment : {-1, 1}]

Links == [reversal : Nat, reversed : Nat]

Outcomes == {"ok", "internal", "ErrMatchNotReady", "ErrMatchNotLive",
             "ErrSequenceConflict", "ErrScoreUnderflow", "ErrReversalUnderflow",
             "ErrEventAlreadyExists", "ErrEventNotFound", "ErrEventAlreadyReversed",
             "ErrEventNotReversible", "ErrIdempotencyConflict", "ErrInvalidMatchInput"}

Results == [outcome : Outcomes, event : Nat, snapshot : Snapshots \union {None}]

\* Hashes are of several shapes: a record carries that of some request.
Records == [hash : {RequestHash(r) : r \in Requests}, result : Results, expired : BOOLEAN]

\* No record is not a record, and so on.
ASSUME NoneAssumption == None \notin Records /\ None \notin Results /\ None \notin Snapshots

Rows == [type : {"match.created.v1", "match.status-changed.v1",
                 "match.event-recorded.v1", "match.event-reversed.v1"},
         sequence : Nat, snapshot : Snapshots]

Drafts == [match : Snapshots, event : SUBSET Events, reversal : SUBSET Links,
           row : Rows, result : Results]

Phases == {"idle", "reserve", "lock", "write", "commit", "replay", "reply"}

\* The type invariant: what each table and each worker may hold.
TypeOK ==
    /\ match \in Snapshots
    /\ ledger \subseteq Events
    /\ reversals \subseteq Links
    /\ records \in [RecordKeys -> Records \union {None}]
    /\ outbox \in Seq(Rows)
    /\ owner \in [RecordKeys -> Workers \union {None}]
    /\ rowLock \in Workers \union {None}
    /\ pc \in [Workers -> Phases]
    /\ req \in [Workers -> Requests \union {None}]
    /\ read \in [Workers -> Snapshots \union {None}]
    /\ draft \in [Workers -> Drafts \union {None}]
    /\ reply \in [Workers -> Results \union {None}]

\* The comment on ApplyEvent says it runs while the row lock is held.  A worker
\* that decides or writes holds the row and its key, and what it read before it
\* decided is still what the tables hold when its rows become visible.
LockedReadIsCurrent ==
    \A w \in Workers : pc[w] \in {"write", "commit"} =>
        /\ rowLock = w
        /\ owner[RecordKey(req[w])] = w
        /\ read[w] = match

\* Whatever races, crashes and rolls back, the events of a match are numbered
\* 1, 2, ... without a gap or a repetition up to current_sequence.
GaplessLedger ==
    /\ IsFiniteSet(ledger)
    /\ {e.sequence : e \in ledger} = 1 .. match.sequence
    /\ \A d, e \in ledger : d.sequence = e.sequence => d = e

\* The events that count for a side once the first n are known: those that no
\* later event among the first n reverses.
Counting(n, side, delta) ==
    {e \in ledger : /\ e.sequence <= n
                    /\ e.side = side
                    /\ ScoreDelta(e) = delta
                    /\ \A link \in reversals :
                          link.reversed = e.sequence => link.reversal > n}

\* The score the ledger gives a side after its first n events.
LedgerScore(n) ==
    [s \in Sides |-> Cardinality(Counting(n, s, 1)) - Cardinality(Counting(n, s, -1))]

\* "Scores are derived from the ledger, never independently edited": the score
\* columns, changed by one increment at a time, always equal what RebuildMatch
\* sums over the events that were not reversed.
ScoreIsDerived == match.score = LedgerScore(match.sequence)

\* An event is reversed at most once, only an earlier event that changed the
\* score is, and every EVENT_REVERSAL in the ledger reverses one.
ReversalsAreSound ==
    /\ \A link \in reversals : \E reversal, original \in ledger :
          /\ reversal.sequence = link.reversal
          /\ original.sequence = link.reversed
          /\ link.reversed < link.reversal
          /\ reversal.action = "EVENT_REVERSAL"
          /\ reversal.side = original.side
          /\ ScoreDelta(original) # 0
    /\ \A l1, l2 \in reversals : l1.reversed = l2.reversed => l1 = l2
    /\ \A e \in ledger : e.action = "EVENT_REVERSAL" =>
          \E link \in reversals : link.reversal = e.sequence

Answering(w) == pc[w] = "reply" /\ reply[w].outcome = "ok"

\* "Offline retries cannot duplicate a score-changing event", and of two scorers
\* that race at one sequence one succeeds.  However often a request was sent,
\* with its own key or another one, before or after its record expired, a
\* success names the only event with its client_event_id, and that event is
\* the one that follows the sequence the request expected.
ExactlyOnce ==
    \A w \in Workers : Answering(w) /\ req[w].op # "start" =>
        \E e \in ledger :
            /\ \A d \in ledger : d.client = req[w].client <=> d = e
            /\ e.sequence = reply[w].event
            /\ e.sequence = req[w].expected + 1

\* The snapshot that comes with an answer, fresh or replayed, is the state of
\* the match right after the event it answers for.
AnswerCarriesItsSnapshot ==
    \A w \in Workers : Answering(w) /\ req[w].op # "start" =>
        reply[w].snapshot = [status |-> "LIVE", sequence |-> reply[w].event,
                             score |-> LedgerScore(reply[w].event)]

EventRow(row) == row.type \in {"match.event-recorded.v1", "match.event-reversed.v1"}

\* The outbox tells the same story as the ledger: one row for each event, in the
\* order of the sequence, of the type of the event, with the snapshot after it.
OutboxFollowsLedger ==
    LET rows == {i \in DOMAIN outbox : EventRow(outbox[i])} IN
    /\ {outbox[i].sequence : i \in rows} = 1 .. match.sequence
    /\ \A i, j \in rows : i < j => outbox[i].sequence < outbox[j].sequence
    /\ \A i \in rows :
          /\ outbox[i].snapshot.score = LedgerScore(outbox[i].sequence)
          /\ \E e \in ledger :
                /\ e.sequence = outbox[i].sequence
                /\ e.action = "EVENT_REVERSAL" <=> outbox[i].type = "match.event-reversed.v1"

\* "Events are immutable": a step leaves ledger and score alone, or it adds the
\* next event to a live match.  Going live touches neither.
OneEventAtATime ==
    [][\/ UNCHANGED <<ledger, reversals, match.sequence, match.score>>
       \/ /\ match.status = "LIVE" /\ match'.status = "LIVE"
          /\ match'.sequence = match.sequence + 1
          /\ ledger \subseteq ledger'
          /\ \A e \in ledger' \ ledger : e.sequence = match'.sequence
          /\ reversals \subseteq reversals']_vars

\* An unnamed error is never the price of a race or of a retry.  Who gets one, from
\* a database that answers, has sent a text PostgreSQL refuses, reuses a
\* client_event_id in a reversal, or met a full score column: the sequence
\* constraint and UNIQUE (reversed_event_id) never fire, and a replay always finds
\* the record it was told of.
InternalErrorsAreExplained ==
    [][\A w \in Workers :
          (pc[w] # "reply" /\ pc'[w] = "reply" /\ reply'[w].outcome = "internal") =>
             \/ ~req[w].storable
             \/ req[w].op = "reverse" /\ req[w].client \in ClientEvents
             \/ \E s \in Sides : match.score[s] = MaxScore]_vars

\* Every request that is being served ends: keys and rows are given up, and no
\* two transactions wait for each other.
EveryRequestEnds == \A w \in Workers : pc[w] # "idle" ~> pc[w] = "idle"

-----------------------------------------------------------------------------
(* What the documentation says and the code does not do *)

\* docs/implementation-plan.md: two scorers that race at one sequence get one
\* success and one 409.  A sequence conflict is answered with that status.
ConflictIs409 ==
    \A w \in Workers :
        pc[w] = "reply" /\ reply[w].outcome = "ErrSequenceConflict" =>
            HttpStatus(req[w].op, reply[w].outcome) = 409

\* The comment and the test of the domain function: going live yields a LIVE
\* snapshot, so the client that started the match is told that it is live.
StartAnswersLive ==
    \A w \in Workers :
        Answering(w) /\ req[w].op = "start" => reply[w].snapshot.status = "LIVE"

\* "idempotency key was already used for a different request" is the answer to
\* a reused key: a success for a reversal means its own target is reversed.
ReversalAnswersItsTarget ==
    \A w \in Workers :
        Answering(w) /\ req[w].op = "reverse" =>
            [reversal |-> reply[w].event, reversed |-> req[w].target] \in reversals

=============================================================================
