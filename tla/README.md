# FootGrid: a verification development

FootGrid records football matches live. An organizer drafts a match, enters
rosters and line-ups and declares it ready; scorers with unreliable phones start
it and log events; other devices follow a projection of it. This directory holds
TLA+ models of that core, configurations that check them with TLC, and proofs
checked by TLAPS. Paths below are relative to the root of the repository.

## 1. The system

| Component | State | Operations | Where |
| --- | --- | --- | --- |
| Match rules | none, pure functions of a snapshot | `StartLiveSession`, `ApplyEvent`, `ReverseEvent`, `ScoreDelta`, `Roster.Validate`, `AppendEventCommand.Validate` | `internal/match/domain.go` |
| Live ledger | `match_events`, `event_reversals`, `match_live_state`, `matches.status`, `idempotency_records`, `outbox_events` | `StartLiveSession`, `Append`, `Reverse` and their HTTP handlers | `internal/match/postgres_repository.go`, `internal/match/httpapi/` |
| Match setup | `matches`, `match_participants`, `idempotency_records` | `Create`, `ReplaceRoster`, `SetInitialLineups`, `MarkReady` | same |
| Reads | none of its own | `GetSnapshot`, `GetMatch`, `ListEvents` | same |
| Projection worker | `consumer_inbox`, `match_snapshots` | `Process` (an SQS batch at a time), `RebuildMatch` | `internal/projection/`, `cmd/projection-worker/` |
| Identity | `identity.users`; reads `organization_memberships` | `GetOrCreateMe` | `internal/identity/` |
| Authentication, authorization | key cache of `JWTVerifier` | `Middleware`, `Verify`, `publicKey`, `refresh`, `RequireMatch`, `AuthorizeOrganization` | `internal/platform/auth/` |
| Adapters | none beyond a request | `StartLambda`, configuration, problems, middleware, wiring | `internal/platform/`, `cmd/` |

All shared state is in PostgreSQL. Every HTTP request is one transaction at READ
COMMITTED; requests interact through row locks (`SELECT ... FOR UPDATE`) and
through unique keys, where an INSERT waits for the open transaction that inserted
the same key. Each mutation first reserves an idempotency key, then locks the
match, asks the domain function, writes, stores its response under the key, adds
an outbox row and commits. The projection is fed by outbox rows. The publisher
that sends them is not in the repository: an EventBridge bus and an SQS queue are
named in a comment of `cmd/projection-worker/main.go`. Before all this a request
passes the middleware, which verifies its token with keys that the goroutines of a
process cache together, and the authorizer, which asks the memberships with one
query of its own.

What is hard: two scorers at one sequence; retries after lost answers, with the
same key, another key, or a day later; concurrent reversals of one event; crashes
between any two statements; locks of several kinds in several orders; participant
ids shared by two matches; messages that are lost, duplicated, reordered or
poisonous; pages of events whose requests overlap with commits and with each other;
a cache of keys that several refreshes overwrite while the issuer rotates them. `PROJECT.json` lists each hazard at its line.

What makes each component correct:

* live ledger: events are numbered without a gap; a client event is recorded at
  most once; scores equal what the ledger adds up to; nothing in the ledger ever
  changes; an answer, fresh or stored, describes the state its event made; the
  outbox tells what the ledger tells; calls are linearizable; every call ends;
* match setup: one draft for one key; line-ups can be set, which they cannot; a match
  is ready only with complete ones, and then they are frozen; events keep the subjects they were recorded with;
  answers belong to the requests they are given for; an old request is not carried
  out again; deadlocks end;
* reads: a device that resumes from `last_sequence` has a prefix of the ledger, in
  order and without gaps, that agrees with the snapshots and catches up; a read sees
  what was committed before it was sent;
* projection: a message has its effect once; the row is a state the match was in and
  goes back only where the code sets it back; a message that fails is kept, and keeps
  no other from being projected; every event should reach the row, and does not;
* access: a withdrawn key stops verifying and a new one is accepted within a known
  time; what is answered was justified by the memberships at some moment of the
  request; every request ends though the issuer may not.

## 2. The modules

```
MatchDomain            domain functions, value and error of each
  MatchDomainProofs    their types, for the proofs
  MatchStore           the write path of one live match, all transactions
    MatchStoreRefinement   LinearizableLedger: MatchStore implements MatchLedger
      MCMatchStore         requests for TLC
    MatchStoreProofs       locks, ledger, reversals, score
      MatchStoreAnswerProofs      answers, records, outbox
        MatchStoreRefinementProofs    LinearizableLedger
  MatchLedger          abstract specification: a linearizable ledger
  EventFeed            reads of one match beside its commits, and a device
    MCEventFeed
    EventFeedProofs    theorems about EventFeed
EventRules             which events may be recorded
  MatchSetup           draft to kick-off and first events, several matches
    MCMatchSetup
    MatchSetupProofs   theorems about MatchSetup
Projection             outbox, queue, consumers, rebuild, read row
  MCProjection
  ProjectionProofs     theorems about Projection
Access                 tokens, cached keys, memberships, current user
  MCAccess
  AccessProofs         theorems about Access
```

**MatchDomain** translates `internal/match/domain.go`. A Go function with result
`(value, error)` is a pair of operators (`ApplyError`, `ApplyEvent`). The thirty
actions without a score are one, `ACTION`.

**MatchStore** has one worker per HTTP request in service. The variables are the
tables (`match`, `ledger`, `reversals`, `records`, `outbox`), the locks (`owner`
for inserted keys, `rowLock`) and what a transaction carries (`pc`, `req`, `read`,
`draft`, `reply`). `Reserve`, `LockMatch`, `Replay`, `StartWrite`, `AppendWrite`,
`ReverseWrite`, `Commit` and `Reply` follow the statements that wait or become
visible; the statements between the row lock and the commit are one step, because
no other transaction sees them or is asked by them, and a failure among them is a
`Crash` or an error of `AppendError` and `ReversalError`. `storable` says of a request
whether the schema takes its texts: the reason of a reversal is measured in bytes by
the code and in characters by the schema, and JSON may hold a NUL, which PostgreSQL
refuses. `Append` looks at the
stored response after locking the row and `Reverse` before, as in the code. The
check of the line-ups inside `StartLiveSession` is in `MatchSetup`, where
`LineupsAreComplete` shows that it cannot fail for a READY match.

**MatchLedger** says what scorers are promised, without transactions or records:
a log, calls that add to it at one instant, and the reasons that justify a
refusal. **MatchStoreRefinement** maps the tables to the log.

**EventRules** translates `AppendEventCommand.Validate`, its catalogue of actions,
and the checks of subjects in `Append`. The 29 entries of the catalogue that need
only a `PRIMARY` and have no rule of their own are one, `ACTION`.

**MatchSetup** repeats the transaction scheme for `Create`, the four setup
operations and `Append`, over several matches. `Create` locks no match, but inserts
one whose id nobody else can have (`InsertDraft`). `Append` is here for its subjects,
which the roster must hold when the event is recorded, and in MatchStore for its
score; corrections that take a goal away are left to MatchStore. Rosters are
inserted a participant at a time, since a participant id is a primary key over all
matches and each INSERT may wait for another match's transaction; `WaitsFor` is
PostgreSQL's waits-for graph and `AbortDeadlocked` its deadlock detector.
`StartLiveSession` is here as `LiveWrite`, with its second check of the line-ups, and
in MatchStore with its effect on events. A line-up request that passes its checks
fails at its UPDATE (`LineupError`, finding *lineups*), so no request makes a starter.
What follows in the code, ready, live and events, is reached from the rows that the
tables hold at first, `FirstRows`: any rows, with starters that somebody chose by SQL
or an earlier version saved. `IsNamed` is the foreign key that refuses to delete a
participant an event names; the status check before it keeps it from ever biting.

**EventFeed** takes a commit of the ledger as one step, which `LinearizableLedger`
justifies, and opens the reads instead: `ListEvents` is `FindMatch` and then the
SELECT, with commits between them; `GetSnapshot` and `GetMatch` are one statement
each. Requests of a device overlap, and their answers are delivered in any order or
lost. The device is external: it asks with the `last_sequence` it was last told and
appends what continues its copy. `StartLambda` is in `AfterSequence`.

**Access** has the handlers of one process, with the phases in which a request can
wait: for the issuer's document, between storing it and looking a key up, for the
query of the authorizer, for the row of a user another transaction has upserted.
Each use of the read-write lock is a step; it is not held during a fetch, so older
documents may be stored over newer ones. Time is relative: `left` counts down for
the cache and for each fetch, `age` counts up for each key since it was published
or withdrawn, and `Tick` moves all of them. match-api and identity-api are separate
processes with a cache each; the model lets one serve the routes of both, which
only adds behaviours. `seen`, for the properties, collects how the user stood in the
memberships from the verification of the token on.

**Projection** has the write model as its environment, reduced to the outbox rows
it commits; that there is one row for each event, in order, with the right
snapshot, is MatchStore's `OutboxFollowsLedger`, and that the score is a function
of the sequence is `OneEventAtATime`. So a score is represented by the number of
events it counts. Of the four types of messages three fail at the same statement
(`RejectSnapshot`, finding *event_projection*) and only the creation is projected;
events come into the row by a rebuild. `Process` is one action: whatever two transactions share, the
inbox key or the row, makes the later one wait and look again. `RebuildMatch` is
two actions, since nothing is locked between its SELECT and its INSERT. The
publisher and the queue are external: every row is sent at least once, under a new
id for each copy, in any order, and batches are handed out again until they
succeed.

### Readings of PostgreSQL

* READ COMMITTED; `FOR UPDATE` gives the newest committed row; an INSERT that
  meets an uncommitted duplicate waits; a rollback frees all locks.
* `gen_random_uuid` never repeats. An event's uuid is represented by its sequence,
  which `UNIQUE (match_id, sequence)` makes equivalent.
* An expression of type text is not assigned to an enum column (there is no
  assignment cast), while a literal or a parameter without a type takes the type of
  the column. `CASE WHEN ... THEN 'STARTER' ELSE 'BENCH' END`
  (`postgres_repository.go:488`) is a text. So is `$2` of `projector.go:68`: the WHERE
  clause of an UPDATE is analysed before its SET list, and `CASE $2 WHEN 'DRAFT' ...`
  gives the parameter its type. Both statements fail whenever they are prepared
  (SQLSTATE 42804).
* A transaction that fails leaves nothing behind, and the statements of one that does
  not wait or read what others write are one step.

## 3. The runs

Sizes are distinct states.

| Run | States | What it checks |
| --- | --- | --- |
| linearizable | 114,951 | two workers, score column full after one goal, every refusal, retries, reversals, crashes, expiry, fairness; all invariants of MatchStore, `LinearizableLedger`, `InternalErrorsAreExplained`, `OneEventAtATime`, `EveryRequestEnds` |
| kick_off | 169,164 | a draft with complete line-ups and a fifth player, a free match id, rosters, ready, start, events, creations with shared keys; `LineupsAreComplete`, `DraftsAnswerTheirKeys`, `AnswerFitsRequest`, `EventsKeepTheirSubjects`, `AppliedOnce` |
| shared_participants | 3,212 | fairness, two matches, rosters in opposite orders; `RosterIsFrozen`, `EveryRequestEnds`, `TypeOK` |
| any_order | 205,375 | fairness, two consumers, one rebuilder, one event, three rows of which one is sent twice, batches of two; `RowIsAuthentic`, `FailedMessagesAreKept`, `EffectsAreClaimed`, `RowFallsBackOnlyOnCreation`, `CreationIsProjected`, `TypeOK` |
| feed | 182,653 | fairness, one device with two requests under way, two events; `CopyIsPrefix`, `CursorNeverSkips`, `AnswersAreFresh`, `SnapshotAgreesWithFeed`, `CatchesUp`, `TypeOK` |
| access | 438,116 | fairness, two handlers, two keys, tokens that are absent, bad and valid, a scorer who is admitted and suspended; `WithdrawnKeysFade`, `PublishedKeysCount`, `AnswersFollowMemberships`, `EveryRequestEnds`, `TypeOK` |
| conflict, start, target, lineups, event_projection, after_sequence | | the six disagreements of section 5 |

**Bounds.** Workers: a race needs a holder and a waiter. Requests are a fixed set
that clients send again and again, in any order, by any worker, so the number of
transactions is unbounded and the state space is closed only by the effects: an
event is recorded once for each `client_event_id`, and two to five ids make ledgers
of up to four entries, enough for a goal, its correction, its reversal and an event
after it. `MaxScore` stands for 32767, at 1 in `linearizable`, so that the column is
full at once; the proofs are for any. Players per side is 2, the smallest the code
accepts, with five participants, so that there is a bench. One free match id is
enough in `kick_off`: the first draft takes it, the INSERT under the second key
fails, and a retry of the first must not draft again. Two events in `feed`, a goal
and its reversal, overtake each other. In `any_order` one event is enough to tell a
row that shows events from one that shows none, since events come into the row by a
rebuild alone; `MaxRepeats = 1` and redelivery give duplicates of two kinds, two
consumers hold the same message at a time, and `MaxBatch = 2` puts the messages that
fail before and behind a creation. In `access` the timeout of a fetch and the life
of the cache are one unit each, so that each runs out between any two steps; the
proofs are for any times, events, copies and batches. Expiry of a stored response is
possible at any time after it is stored.

**Fairness.** MatchStore and MatchSetup: a worker that can take its next step does
(`WF Serve`), and PostgreSQL grants a lock to waiters in turn (`SF` on the steps
that take a lock); MatchSetup adds that a deadlock is detected in the end. Nothing
is assumed of clients, crashes and expiry, and `EveryRequestEnds` follows all the
same. Projection: every row is published in the end, which is what an outbox is for;
the first copy of a row is handed out again and again while the queue holds it and
sometimes comes first in its batch, and an attempt at it sometimes gets through
without a crash (`SF`). This is SQS's redelivery without a dead-letter limit. The
third assumption, that it sometimes comes first, matters: a batch stops at the first
message that fails, and most messages fail. EventFeed: workers keep running, a
device polls again and again, and not all of its requests are lost on the way:
infinitely often one gets as far as each step; scorers owe nothing. Access: time
goes by (`WF Tick`), and a handler's own steps and its queries get their turn (`SF
Work`), waiters for a user's row included; nothing makes the issuer answer, the
timeout of the client ends a fetch.

**Mutants.** Beside each definition that a property guards there is a mutated form,
named and commented as such (`ReadMatch` for a missing `FOR UPDATE`,
`AppendErrorAnyClient` for a missing unique constraint, ...). `PROJECT.json` pairs
them with the property that TLC finds violated when the mutant replaces the
definition.

## 4. The proofs

Every invariant and action property that a passing run checks is also proved, for
every value of the constants; so is the refinement. What TLC is still alone with is
liveness. The theorems rest on the assumptions that the modules make about their
constants, which TLC evaluates on every run: `None` is a value of its own (no
worker, request, snapshot or row), and requests have the fields a handler that
decoded them has. Each inductive invariant below held on the instances of the
runs before it was proved.

| Module | Theorems | Property |
| --- | --- | --- |
| MatchStoreProofs | `TypeCorrect`, `LocksProtect`, `LedgerIsGapless`, `ReversalsStaySound`, `ScoreIsAlwaysDerived`, `LedgerIsAppendOnly` | `TypeOK`, `LockedReadIsCurrent`, `GaplessLedger`, `ReversalsAreSound`, `ScoreIsDerived`, `OneEventAtATime` |
| MatchStoreAnswerProofs | `EffectsHappenOnce`, `AnswersCarryTheirSnapshots`, `OutboxAlwaysFollowsLedger`, `InternalErrorsAreAlwaysExplained` | `ExactlyOnce`, `AnswerCarriesItsSnapshot`, `OutboxFollowsLedger`, `InternalErrorsAreExplained` |
| MatchStoreRefinementProofs | `StoreIsLinearizable` | `LinearizableLedger` |
| MatchSetupProofs | `SetupTypeCorrect`, `LineupsAreAlwaysComplete`, `RostersStayFrozen`, `RequestsAreAppliedOnce`, `AnswersFitTheirRequests`, `DraftsAlwaysAnswerTheirKeys`, `EventsAlwaysKeepTheirSubjects` | `TypeOK`, `LineupsAreComplete`, `RosterIsFrozen`, `AppliedOnce`, `AnswerFitsRequest`, `DraftsAnswerTheirKeys`, `EventsKeepTheirSubjects` |
| ProjectionProofs | `ProjectionTypeCorrect`, `RowsAreAuthentic`, `EffectsNeedClaims`, `FailuresNeverLoseMessages`, `RowsFallBackOnlyOnCreation` | `TypeOK`, `RowIsAuthentic`, `EffectsAreClaimed`, `FailedMessagesAreKept`, `RowFallsBackOnlyOnCreation` |
| EventFeedProofs | `FeedTypeCorrect`, `CopiesArePrefixes`, `CursorsNeverSkip`, `AnswersAreAlwaysFresh`, `SnapshotsAgreeWithFeeds` | `TypeOK`, `CopyIsPrefix`, `CursorNeverSkips`, `AnswersAreFresh`, `SnapshotAgreesWithFeed` |
| AccessProofs | `TypeCorrect`, `WithdrawnKeysAlwaysFade`, `PublishedKeysAlwaysCount`, `AnswersAlwaysFollowMemberships` | `TypeOK`, `WithdrawnKeysFade`, `PublishedKeysCount`, `AnswersFollowMemberships` |

**MatchStoreProofs**, for any workers, requests and `MaxScore`. None of the
properties is inductive. That the ledger stays gapless depends on what a worker has
in `draft`, which is right only because it was computed from a snapshot that is
still current, which is so only because of the row lock. `InductiveInvariant` is
the conjunction of `TypeOK`, `LockedReadIsCurrent`, `SessionOK` (what a draft may
hold, in terms of the committed tables: nothing, the next event, or the next event
and the link that takes back a standing one), `GaplessLedger`, `ReversalsAreSound`
and `ScoreIsDerived`. The steps fall into three kinds: those that move a session
(`SessionStep`), those that write a draft (`StartWriteStep`, `AppendWriteStep`,
`ReverseWriteStep`, where the domain functions come in), and `CommitStep`, where the
draft becomes the table. The heart is `ScoreStep`: the events that count after a
commit are those that counted before, plus the new one (`AddedEventCounts`) or minus
the reversed one (`ReversedEventCounts`), and cardinalities follow.

**MatchStoreAnswerProofs.** An answer may be given long after the state it describes
is gone: the record of a key is replayed when the ledger has grown. So an answer
is never compared with the match, only with the ledger: `Answers` says which event
it names, and that its snapshot has the score of the events up to that one
(`ScoreAfter`). The ledger only grows and links only reverse earlier events at their
own sequence, so what was so when the record was written stays so. `AnswerInvariant`
says it of every record (`RecordOK`), draft and reply (`WorkerOK`), together with
`OutboxFollowsLedger` and the uniqueness of `client_event_id`
(`ClientsAreUnique`). `InternalErrorsAreExplained` follows since, under the row lock,
the sequence constraint cannot fire and the record of a taken key is there.

**MatchStoreRefinementProofs.** The log of `MatchLedger` is read off the tables
(`LogOf`), each entry with what it reverses. Its score, which counts positions of a
sequence, is the score of the ledger, which counts events (`ScoreOfLog`, by a
bijection). `RefinementInvariant` adds that an event is the reversal of one
other at most (`LinksAreUnique`). Then each action of MatchStore has a lemma:
`Receive` is an `Invoke`, `Commit` is the one step in which a call has its effect and
gets its answer, a replay is `AnswerAgain` or, for another body, `Refuse`, every
rollback is a `Refuse` that the log justifies at that moment (`StartJustified`,
`AppendJustified`, `ReversalJustified`), `Reply` and `Crash` are `Leave`, and the steps
inside a transaction and the expiry of a record are stutters.

**MatchSetupProofs**, for any workers, matches, participants and requests. What a
transaction finds out about its match is stale unless something keeps the others
away, and here three things do: the key (`owner`), the row of the match
(`matchLock`), and for participants the rows written by open transactions.
`SetupInvariant` says what they buy. `TablesFit`: each match has a roster that fits its
number of players and status, and events that fit the roster. `RecordsFit`: a stored
result answers every request with that key and hash, and no two drafts are one.
`LocksFit`: who holds a lock is past the point of taking it. `SessionsFit`: a
transaction holds the locks of its place in the code (`HoldsLocks`), what it has
inserted and has yet to insert makes up the roster of the body (`InsertFits`), the
rows it claims belong to its match or to nobody (`RowsClaimed`), and what it is
about to commit still fits the tables (`CommitFits`). `Apart` says that no two open
transactions have written the same participant or created the same match; a roster
needs it from the wait before each INSERT.
A step that leaves the tables alone disturbs the session of one worker only
(`SessionStep`, `WriteStep`). `Commit` changes one match and no other
(`CommitChangesOneMatch`, whose core `NewRowsOfMatch` is that the rows of another
match are not touched), and everybody else with a lock is about another match
(`OthersOutliveCommit`).

**ProjectionProofs**, for any number of consumers, rebuilders, copies and events.
`ProjectionInvariant` says that only the first row of the outbox is a creation, that
what a rebuilder has read and the row are snapshots the match had (`Authentic`), and
that batches hold messages that were sent. `DeliveryFits` adds what keeps messages
from being lost: only creations are in the inbox, what has left the queue is in the
inbox, and so is all that a consumer has put behind it in its batch; the last is why
`Acknowledge` may delete the batch. `RowsFallBackOnlyOnCreation` is proved under
`OneRebuildAtATime`, from the invariant that what the operator has read is not older
than what the row shows (`ReadIsLatest`). With two operators it is false.

**AccessProofs**, for any handlers, keys, users, organizations and requests, and any
`TTL` and `Timeout`. That a withdrawn key is gone in time depends on how
old the document may be that a handler is about to store. `AccessInvariant` bounds it
by what is left: a document on its way, with `left` of its timeout to go, tells of
any key as it was no longer than `Timeout - left` ago, and so does the cache with
`Timeout + TTL - left`. `Tick` lowers `left` and raises the ages together, `Fetch` and
`Store` hand the bound on. A look-up then happens in a cache that is in use, or right
after a store; the first is within `Timeout + TTL`, and the second takes no time.
The last theorem has an invariant of its own: memberships are held by known users, and
while a handler has a verified token `seen` holds how its user stands now, so that the
query of the authorizer answers with something `seen` holds.

**EventFeedProofs**, for any devices and requests under way, a ledger of any length
and either adapter. A device takes what a page holds, so `FeedInvariant` says of a page
under way that it is a segment of the ledger and starts no later than right after
what its device has (`PageFits`). It did so when the page was read, because the cursor
was not ahead (`PageFitsCopy`), and goes on doing so, because the ledger only grows
(`SegmentGrows`) and no delivery shortens a copy (`SessionKept`). A page that fits
continues the copy (`SegmentsJoin`), and its `last_sequence` is 0 or the last event the
device then has.

`ReadInvariant` is about the other kind of read: a snapshot on its way, or kept by a
device, tells the score of the events it counts (`Tells`), and the status and sequence
a request was sent at are never ahead of the store (`Reaches`). As both the status and
the ledger only go forward, an answer read later reaches what was committed before
(`AnswersAreAlwaysFresh`); and the score of a prefix of the ledger is the same
for the device, which derives it from its copy.

**Not proved.** Liveness (`EveryRequestEnds`, `CreationIsProjected`, `CatchesUp`) stays
with TLC, as TLAPS does not handle `ENABLED`; so do the six disagreements of section
5, which are counterexamples.

## 5. Where code and documentation disagree

1. *conflict*: the second `case` of the error switch in `event_handler.go:63` has an
   empty body, so the loser of a race is answered with 500 and not with the 409 of
   `docs/implementation-plan.md:32-33`. The response also lacks the
   `current_sequence` of `api/openapi.yaml`.
2. *start*: `StartLiveSession` stores, sends and answers with the snapshot from
   before the transition (`postgres_repository.go:612`), status READY.
3. *target*: the event a reversal names is neither in the scope of its idempotency
   record nor in the hash (`postgres_repository.go:783`); a request that reuses key
   and body for another event is answered with the first reversal.
4. *lineups*: the UPDATE of `setLineupSide` assigns a text to an enum column
   (`postgres_repository.go:488`), so every line-up that passes its checks is answered
   with 500 where `api/openapi.yaml:61` promises 200. Through the API no match becomes
   ready, and nothing that comes later is reached.
5. *event_projection*: the UPDATE of `projector.go:68` assigns a parameter it has made
   a text to an enum column, so every message but the creation fails for ever, and a
   live match is shown as a draft without events; `README.md:13` says the worker
   produces snapshots from outbox records. The payload of `match.status-changed.v1`
   is a bare snapshot, besides, where `projector.go:64` expects an envelope.
6. *after_sequence*: `StartLambda` builds the request from `RawPath` alone
   (`httpapi.go:69`), so the parameter of `listEvents` in `api/openapi.yaml:86` is lost
   behind API Gateway and every page starts with the first event. A device that drops
   what it has stays correct.

Two more limits show in the conditions of the properties of Projection:

* a late or second `match.created.v1` sets the sequence back to 0 and keeps the
  scores (`projector.go:60`), which is why `RowIsAuthentic` is about rows that show
  events;
* with two operators that rebuild at a time, the older read may be written last
  (`projector.go:93-100`), which is why `RowFallsBackOnlyOnCreation` is about one.

They depend on how the missing publisher orders messages and on when operators
rebuild, so they are stated as conditions and not as findings. If findings 4 and 5
were repaired, the models would change at `LineupsWrite` and `RejectSnapshot`.

Observations without a run: `CROSS` is in the schema's catalogue and in the API
contract and not in `eventActionRoles`; for some actions the schema's catalogue asks
for an `OPPONENT` where the code asks for a `PRIMARY` only; the answer of `MarkReady`
has no organization and no sides; `GET /v1/public/matches` and other paths of the
contract are not routed; a snapshot with `event_sequence` 0 may be of three statuses, so
the sequence alone does not order snapshots; a user who never called `/v1/me` has
no row and is refused everywhere; the memberships are asked before the operation
and not again in its transaction.

## 6. What is not modelled

* Clock columns and `live_sessions`: written by `StartLiveSession` and read by
  nothing in the repository.
* Qualifiers beyond those the rules look at, the order of subjects within an event,
  and whether a subject has been selected for the match, which no code checks.
* Statuses PAUSED, COMPLETED, FINALIZED, ABANDONED: no code sets them.
* Parsing of tokens and keys (library code): a token is refused before its key is
  looked up (`"absent"`), refused after it (`"bad"`), or good.
* HTTP middleware, configuration, health, wiring, Terraform, Postman collections: no
  state that outlives a request.
* Shirt numbers, names, positions, durations: they decide validity only. So do
  malformed ids and bodies, which are refused before anything else happens, and an
  Idempotency-Key that is not UTF-8, which fails in the first statement.

## 7. Plan

Done, in this order: MatchDomain, MatchStore with its abstract ledger, its proofs,
Projection, MatchSetup; EventFeed, `Create` and `Append` in MatchSetup, EventRules,
Access and its proofs; the proofs of all invariants and action properties of
MatchStore, EventFeed, Projection and MatchSetup, and of the refinement.

Left, all of it proofs about how the modules fit together:

1. The commit of EventFeed and the environment of Projection stand for MatchStore:
   state what they assume of it as theorems of MatchStore (the status only goes
   forward, the snapshot of an outbox row is a function of its sequence).
2. `MatchLedger` by itself: what a client may conclude from an answer.
