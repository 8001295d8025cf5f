----------------------------- MODULE MatchSetup -----------------------------
(***************************************************************************)
(* From the draft to the kick-off and the first events: Create,            *)
(* ReplaceRoster, SetInitialLineups, MarkReady, StartLiveSession and       *)
(* Append of internal/match/postgres_repository.go on several matches at a *)
(* time.                                                                   *)
(*                                                                         *)
(* Every worker is a transaction that reserves its idempotency key, locks  *)
(* the row of its match, checks and writes, and commits, as in MatchStore. *)
(* Create has no row to lock: it inserts one under an id that PostgreSQL   *)
(* generates.  What else is new are the participants: their ids come from  *)
(* the clients and are unique over all matches (the primary key of         *)
(* match_participants), so a roster is inserted one row at a time and an   *)
(* INSERT waits for another match's open transaction that inserted or      *)
(* deleted that id.  Transactions may then wait for each other in a        *)
(* circle, from which PostgreSQL picks one to fail.                        *)
(*                                                                         *)
(* A line-up that passes the checks is refused by PostgreSQL (LineupError) *)
(* so no request decides who starts.  Starters are in the database because *)
(* somebody outside this program has put them there: the participants of   *)
(* the first state are a constant.                                         *)
(*                                                                         *)
(* Events are here for their subjects, participants of the match.  What    *)
(* they do to the score is described by MatchStore.                        *)
(***************************************************************************)
EXTENDS EventRules, FiniteSets, SequencesExt

CONSTANTS
    Workers,        \* requests that can be in service at the same time
    Requests,       \* what clients may send, again and again
    Matches,
    Participants,   \* the ids clients use
    Drafted,        \* the matches that exist already
    PlayersPerSide, \* of each of them
    FirstRows,      \* their participants, by id
    None

\* A row of match_participants.
Entries == [match : Matches, side : {"HOME", "AWAY"},
            state : {"STARTER", "BENCH", "NOT_SELECTED", "LEFT_MATCH"}]

ASSUME SetupAssumption ==
    /\ None \notin Workers \union Requests
    /\ Drafted \subseteq Matches
    /\ PlayersPerSide \in [Drafted -> 2 .. 11]

\* None stands for a row that is not there.
ASSUME RowsAssumption ==
    /\ None \notin Entries
    /\ FirstRows \in [Participants -> Entries \union {None}]
    /\ \A p \in Participants : FirstRows[p] # None => FirstRows[p].match \in Drafted

\* A request the handler could decode.  A draft is requested with a format and
\* the number of players; for the other operations home and away are the
\* participants of a roster, in the order of the body, or the starters of a
\* line-up, and empty if there are none.  An event is a command of EventRules that
\* takes no goal away, under the id its client gave it.
ASSUME RequestsAssumption ==
    \A r \in Requests :
        \/ r.op = "create" /\ r.match = None /\ r.players \in Nat
        \/ /\ r.op \in {"roster", "lineups", "ready", "live-session"}
           /\ r.match \in Matches
           /\ r.home \in Seq(Participants) /\ r.away \in Seq(Participants)
        \/ /\ r.op = "event" /\ r.match \in Matches
           /\ \A i \in DOMAIN r.subjects : r.subjects[i].participant \in Participants
           /\ r.adjustment # -1

VARIABLES
    status,         \* matches.status, "NONE" as long as there is no such match
    players,        \* matches.players_per_side
    rows,           \* match_participants, by id
    events,         \* match_events and match_event_subjects, by match
    records,        \* committed idempotency_records, by scope and key
    owner,          \* the open transaction that inserted a key
    matchLock,      \* the open transaction that locked the row of a match
    pc,             \* where each worker is
    req,            \* the request it serves
    todo,           \* the participants it has yet to insert
    draft,          \* the status and the participants it has written
    reply           \* the result it is about to return

tables  == <<status, players, rows, events, records>>
locks   == <<owner, matchLock>>
session == <<pc, req, todo, draft, reply>>
vars    == <<status, players, rows, events, records, owner, matchLock, pc, req, todo, draft, reply>>

RecordKey(r) ==
    [op |-> r.op, match |-> r.match, key |-> r.key,
     client |-> IF r.op = "event" THEN r.client ELSE None]

\* What an event is recorded with, besides its sequence.
EventOf(r) == [client |-> r.client, action |-> r.action, side |-> r.side, subjects |-> r.subjects]

RequestHash(r) ==
    CASE r.op = "create" -> <<r.format, r.players>>
      [] r.op = "event"  -> <<EventOf(r), r.expected>>
      [] OTHER           -> <<r.home, r.away>>

RecordKeys == {RecordKey(r) : r \in Requests}

Reservable(k) == records[k] # None => records[k].expired

\* The match a transaction is about; that of a draft is the id it inserted.
Match(w) == IF req[w].op = "create" THEN draft[w].value ELSE req[w].match

\* The committed participants of a match, by id.
RosterOf(m) ==
    LET ids == {p \in Participants : rows[p] # None /\ rows[p].match = m}
    IN  [p \in ids |-> [side |-> rows[p].side, state |-> rows[p].state]]

OnSide(roster, side) == {p \in DOMAIN roster : roster[p].side = side}

Starters(roster, side) == {p \in OnSide(roster, side) : roster[p].state = "STARTER"}

Init ==
    /\ status = [m \in Matches |-> IF m \in Drafted THEN "DRAFT" ELSE "NONE"]
    /\ players = [m \in Matches |-> IF m \in Drafted THEN PlayersPerSide[m] ELSE 0]
    /\ rows = FirstRows
    /\ events = [m \in Matches |-> <<>>]
    /\ records = [k \in RecordKeys |-> None]
    /\ owner = [k \in RecordKeys |-> None]
    /\ matchLock = [m \in Matches |-> None]
    /\ pc = [w \in Workers |-> "idle"]
    /\ req = [w \in Workers |-> None]
    /\ todo = [w \in Workers |-> <<>>]
    /\ draft = [w \in Workers |-> None]
    /\ reply = [w \in Workers |-> None]

-----------------------------------------------------------------------------
(* Waiting *)

Inserted(w) == DOMAIN draft[w].roster

\* The ids whose rows an open transaction has inserted or deleted.
Written(w) ==
    IF pc[w] \in {"insert", "commit"} /\ req[w].op = "roster"
    THEN DOMAIN RosterOf(Match(w)) \union Inserted(w)
    ELSE {}

\* The transactions that w cannot go on without the end of.
WaitsFor(w) ==
    CASE pc[w] = "reserve" -> {owner[RecordKey(req[w])]} \ {None}
      [] \/ pc[w] = "lock"
         \/ pc[w] = "replay" /\ req[w].op = "event" -> {matchLock[Match(w)]} \ {None}
      [] pc[w] = "insert"  -> {v \in Workers \ {w} : todo[w] # <<>> /\ Head(todo[w]) \in Written(v)}
      [] OTHER             -> {}

\* A transaction waits for one other at most, so a set in which everyone waits
\* and is waited for is made of circles.
Deadlocked(w) ==
    \E circle \in SUBSET Workers :
        /\ w \in circle
        /\ \A v \in circle : WaitsFor(v) \intersect circle # {}
        /\ circle = UNION {WaitsFor(v) : v \in circle}

-----------------------------------------------------------------------------
(* Transactions *)

Goto(w, label) == pc' = [pc EXCEPT ![w] = label]

\* Mutant of Release: the row of the match stays locked.
ReleaseKeysOnly(w) ==
    /\ owner' = [k \in RecordKeys |-> IF owner[k] = w THEN None ELSE owner[k]]
    /\ UNCHANGED matchLock

Release(w) ==
    /\ owner' = [k \in RecordKeys |-> IF owner[k] = w THEN None ELSE owner[k]]
    /\ matchLock' = [m \in Matches |-> IF matchLock[m] = w THEN None ELSE matchLock[m]]

Success(value) == [outcome |-> "ok", value |-> value]

Failure(err) == [outcome |-> err, value |-> <<>>]

Finish(w, result) ==
    /\ Release(w)
    /\ todo' = [todo EXCEPT ![w] = <<>>]
    /\ draft' = [draft EXCEPT ![w] = None]
    /\ reply' = [reply EXCEPT ![w] = result]
    /\ Goto(w, "reply")
    /\ UNCHANGED req

Rollback(w, err) == Finish(w, Failure(err)) /\ UNCHANGED tables

\* CreateInput.Validate, as far as it concerns players.
ValidInput(r) ==
    /\ r.players \in 2 .. 11
    /\ CASE r.format = "CUSTOM" -> TRUE
         [] r.format = "5V5"    -> r.players = 5
         [] r.format = "6V6"    -> r.players = 6
         [] r.format = "8V8"    -> r.players = 8
         [] r.format = "11V11"  -> r.players = 11
         [] OTHER               -> FALSE

\* What is checked before the transaction begins.
Accepted(r) ==
    /\ r.op = "create" => ValidInput(r)
    /\ r.op = "event"  => Validate(r)

\* A request arrives.
Receive(w, r) ==
    /\ pc[w] = "idle"
    /\ req' = [req EXCEPT ![w] = r]
    /\ \/ /\ ~Accepted(r)
          /\ Goto(w, "reply")
          /\ reply' = [reply EXCEPT ![w] = Failure("ErrInvalidMatchInput")]
       \/ /\ Accepted(r)
          /\ Goto(w, "reserve")
          /\ UNCHANGED reply
    /\ UNCHANGED <<tables, locks, todo, draft>>

\* Where a transaction that has reserved its key goes on.
Reserved(w) == IF req[w].op = "create" THEN "write" ELSE "lock"

\* Mutant of Reserve: the INSERT does not wait for an open one.
ReserveNoWait(w) ==
    LET k == RecordKey(req[w]) IN
    /\ pc[w] = "reserve"
    /\ \/ /\ Reservable(k)
          /\ owner' = [owner EXCEPT ![k] = w]
          /\ Goto(w, Reserved(w))
       \/ /\ ~Reservable(k)
          /\ Goto(w, "replay")
          /\ UNCHANGED owner
    /\ UNCHANGED <<tables, matchLock, req, todo, draft, reply>>

\* DELETE the expired record, INSERT ... ON CONFLICT DO NOTHING.
Reserve(w) ==
    LET k == RecordKey(req[w]) IN
    /\ pc[w] = "reserve"
    /\ owner[k] = None
    /\ \/ /\ Reservable(k)
          /\ owner' = [owner EXCEPT ![k] = w]
          /\ Goto(w, Reserved(w))
       \/ /\ ~Reservable(k)
          /\ Goto(w, "replay")
          /\ UNCHANGED owner
    /\ UNCHANGED <<tables, matchLock, req, todo, draft, reply>>

\* Mutant of StoredResult: the hash of the request is not compared.
StoredResultOfKey(r) == records[RecordKey(r)].result

\* What readStoredJSON makes of the record of a taken key.
StoredResult(r) ==
    IF records[RecordKey(r)].hash # RequestHash(r)
    THEN Failure("ErrIdempotencyConflict")
    ELSE records[RecordKey(r)].result

\* Append locks the row of the match before it looks at the record.
Replay(w) ==
    /\ pc[w] = "replay"
    /\ WaitsFor(w) = {}
    /\ Finish(w, StoredResult(req[w]))
    /\ UNCHANGED tables

\* Mutant of LockMatch: the SELECT without FOR UPDATE.
ReadMatch(w) ==
    /\ pc[w] = "lock"
    /\ Goto(w, "write")
    /\ UNCHANGED <<tables, locks, req, todo, draft, reply>>

\* The starters are looked at before the match is.
WellFormed(r) ==
    r.op = "lineups" => /\ r.home # <<>> /\ IsInjective(r.home)
                        /\ r.away # <<>> /\ IsInjective(r.away)

\* SELECT ... FROM matches ... FOR UPDATE
LockMatch(w) ==
    LET m == Match(w) IN
    /\ pc[w] = "lock"
    /\ \/ ~WellFormed(req[w]) /\ Rollback(w, "ErrInvalidMatchInput")
       \/ WellFormed(req[w]) /\ status[m] = "NONE" /\ Rollback(w, "ErrMatchNotFound")
       \/ /\ WellFormed(req[w]) /\ status[m] # "NONE"
          /\ matchLock[m] = None
          /\ matchLock' = [matchLock EXCEPT ![m] = w]
          /\ Goto(w, "write")
          /\ UNCHANGED <<tables, owner, req, todo, draft, reply>>

\* The transaction has written a status and, unless roster is None, the
\* participants of its match.
Prepare(w, next, roster, value) ==
    /\ draft' = [draft EXCEPT ![w] = [status |-> next, roster |-> roster, value |-> value]]
    /\ Goto(w, "commit")
    /\ UNCHANGED <<tables, locks, req, todo, reply>>

-----------------------------------------------------------------------------
(* Create *)

\* insertDraft.  The answer is the match, represented by its id.  Matches bounds
\* the ids: when they are used up the INSERT fails, as any statement may.
InsertDraft(w) ==
    LET unused == {m \in Matches : /\ status[m] = "NONE"
                                   /\ \A v \in Workers : pc[v] = "commit" => Match(v) # m}
    IN  /\ pc[w] = "write" /\ req[w].op = "create"
        /\ \/ \E m \in unused : Prepare(w, "DRAFT", None, m)
           \/ unused = {} /\ Rollback(w, "internal")

-----------------------------------------------------------------------------
(* ReplaceRoster *)

\* Roster.Validate, as far as it concerns ids: enough on each side, none twice.
ValidRoster(r) ==
    LET ids == r.home \o r.away IN
    /\ Len(r.home) >= players[r.match]
    /\ Len(r.away) >= players[r.match]
    /\ Cardinality(ToSet(ids)) = Len(ids)

\* The schema lets no participant go that an event names, a foreign key of
\* match_event_subjects.
IsNamed(m) ==
    \E i \in DOMAIN events[m] : \E j \in DOMAIN events[m][i].subjects :
        events[m][i].subjects[j].participant \in DOMAIN RosterOf(m)

\* Mutant of RosterError: the status of the match is not checked.
RosterErrorAnyStatus(r) ==
    IF ~ValidRoster(r) THEN "ErrInvalidMatchInput"
    ELSE IF IsNamed(r.match) THEN "internal"
    ELSE "none"

\* What ends a roster request before the first INSERT, the last of it the DELETE.
RosterError(r) ==
    IF status[r.match] # "DRAFT" THEN "ErrMatchNotDraft"
    ELSE IF ~ValidRoster(r) THEN "ErrInvalidMatchInput"
    ELSE IF IsNamed(r.match) THEN "internal"
    ELSE "none"

\* DELETE FROM match_participants WHERE match_id = ...
ClearRoster(w) ==
    LET err == RosterError(req[w]) IN
    /\ pc[w] = "write" /\ req[w].op = "roster"
    /\ \/ err # "none" /\ Rollback(w, err)
       \/ /\ err = "none"
          /\ todo' = [todo EXCEPT ![w] = req[w].home \o req[w].away]
          /\ draft' = [draft EXCEPT ![w] =
                  [status |-> "DRAFT", roster |-> <<>>, value |-> <<>>]]
          /\ Goto(w, "insert")
          /\ UNCHANGED <<tables, locks, req, reply>>

\* An id that another match has is a violation of the primary key, for which the
\* client gets an unnamed error.
InsertParticipant(w) ==
    LET p      == Head(todo[w])
        roster == draft[w].roster
        side   == IF p \in ToSet(req[w].home) THEN "HOME" ELSE "AWAY"
        entry  == [side |-> side, state |-> "NOT_SELECTED"]
    IN  /\ pc[w] = "insert" /\ todo[w] # <<>>
        /\ WaitsFor(w) = {}
        /\ \/ /\ rows[p] # None => rows[p].match = Match(w)
              /\ todo' = [todo EXCEPT ![w] = Tail(@)]
              /\ draft' = [draft EXCEPT ![w].roster =
                      [q \in DOMAIN roster \union {p} |-> IF q = p THEN entry ELSE roster[q]]]
              /\ UNCHANGED <<tables, locks, pc, req, reply>>
           \/ /\ rows[p] # None
              /\ rows[p].match # Match(w)
              /\ Rollback(w, "internal")

\* The roster is read back and becomes the response.
RosterWritten(w) ==
    /\ pc[w] = "insert" /\ todo[w] = <<>>
    /\ Prepare(w, "DRAFT", draft[w].roster, draft[w].roster)

-----------------------------------------------------------------------------
(* SetInitialLineups, MarkReady, StartLiveSession *)

\* setLineupSide counts the home starters and then updates the home side with
\* CASE ... THEN 'STARTER' ELSE 'BENCH' END, which is text: PostgreSQL refuses the
\* statement when it is prepared, for participation_status is an enum.  The away
\* starters are never looked at.
LineupError(r) ==
    IF status[r.match] # "DRAFT" THEN "ErrMatchNotDraft"
    ELSE IF \/ Len(r.home) # players[r.match]
            \/ Len(r.away) # players[r.match]
            \/ ~(ToSet(r.home) \subseteq OnSide(RosterOf(r.match), "HOME"))
         THEN "ErrInvalidMatchInput"
    ELSE "internal"

LineupsWrite(w) ==
    /\ pc[w] = "write" /\ req[w].op = "lineups"
    /\ Rollback(w, LineupError(req[w]))

LineupIsComplete(m) ==
    \A side \in {"HOME", "AWAY"} :
        Cardinality(Starters(RosterOf(m), side)) = players[m]

ReadyError(m) ==
    IF status[m] # "DRAFT" THEN "ErrMatchNotDraft"
    ELSE IF ~LineupIsComplete(m) THEN "ErrInvalidMatchInput"
    ELSE "none"

ReadyWrite(w) ==
    LET err == ReadyError(Match(w)) IN
    /\ pc[w] = "write" /\ req[w].op = "ready"
    /\ \/ err # "none" /\ Rollback(w, err)
       \/ err = "none" /\ Prepare(w, "READY", None, <<>>)

LiveError(m) ==
    IF status[m] # "READY" THEN "ErrMatchNotReady"
    ELSE IF ~LineupIsComplete(m) THEN "ErrInvalidMatchInput"
    ELSE "none"

LiveWrite(w) ==
    LET err == LiveError(Match(w)) IN
    /\ pc[w] = "write" /\ req[w].op = "live-session"
    /\ \/ err # "none" /\ Rollback(w, err)
       \/ err = "none" /\ Prepare(w, "LIVE", None, <<>>)

-----------------------------------------------------------------------------
(* Append *)

\* Mutant of EventError: the subjects are only counted among the participants.
EventErrorAnySide(r) ==
    IF \E i \in DOMAIN r.subjects : r.subjects[i].participant \notin DOMAIN RosterOf(r.match)
    THEN "ErrInvalidMatchInput"
    ELSE IF status[r.match] # "LIVE" THEN "ErrMatchNotLive"
    ELSE IF Len(events[r.match]) # r.expected THEN "ErrSequenceConflict"
    ELSE IF \E i \in DOMAIN events[r.match] : events[r.match][i].client = r.client
         THEN "ErrEventAlreadyExists"
    ELSE "none"

\* Subjects, ApplyEvent, UNIQUE (match_id, client_event_id).
EventError(r) ==
    IF ~SubjectsFit(r, RosterOf(r.match)) THEN "ErrInvalidMatchInput"
    ELSE IF status[r.match] # "LIVE" THEN "ErrMatchNotLive"
    ELSE IF Len(events[r.match]) # r.expected THEN "ErrSequenceConflict"
    ELSE IF \E i \in DOMAIN events[r.match] : events[r.match][i].client = r.client
         THEN "ErrEventAlreadyExists"
    ELSE "none"

EventWrite(w) ==
    LET err == EventError(req[w]) IN
    /\ pc[w] = "write" /\ req[w].op = "event"
    /\ \/ err # "none" /\ Rollback(w, err)
       \/ err = "none" /\ Prepare(w, "LIVE", None, EventOf(req[w]))

-----------------------------------------------------------------------------

\* The participants after the roster of match m has become what was written.
NewRows(m, roster) ==
    [p \in Participants |->
        IF p \in DOMAIN roster
        THEN [match |-> m, side |-> roster[p].side, state |-> roster[p].state]
        ELSE IF p \in DOMAIN RosterOf(m) THEN None ELSE rows[p]]

Commit(w) ==
    /\ pc[w] = "commit"
    /\ status' = [status EXCEPT ![Match(w)] = draft[w].status]
    /\ players' = IF req[w].op = "create"
                  THEN [players EXCEPT ![Match(w)] = req[w].players]
                  ELSE players
    /\ rows' = IF draft[w].roster = None THEN rows ELSE NewRows(Match(w), draft[w].roster)
    /\ events' = IF req[w].op = "event"
                 THEN [events EXCEPT ![Match(w)] = Append(@, draft[w].value)]
                 ELSE events
    /\ records' = [records EXCEPT ![RecordKey(req[w])] =
            [hash |-> RequestHash(req[w]), result |-> Success(draft[w].value), expired |-> FALSE]]
    /\ Finish(w, Success(draft[w].value))

EndSession(w) ==
    /\ Goto(w, "idle")
    /\ req' = [req EXCEPT ![w] = None]
    /\ todo' = [todo EXCEPT ![w] = <<>>]
    /\ draft' = [draft EXCEPT ![w] = None]
    /\ reply' = [reply EXCEPT ![w] = None]
    /\ UNCHANGED tables

Reply(w) ==
    /\ pc[w] = "reply"
    /\ EndSession(w)
    /\ UNCHANGED locks

\* The worker or its client goes away.
Crash(w) ==
    /\ pc[w] # "idle"
    /\ EndSession(w)
    /\ Release(w)

\* PostgreSQL finds a circle of waiting transactions and aborts one of them.
AbortDeadlocked(w) ==
    /\ Deadlocked(w)
    /\ Rollback(w, "internal")

Expire(k) ==
    /\ records[k] # None
    /\ ~records[k].expired
    /\ records' = [records EXCEPT ![k].expired = TRUE]
    /\ UNCHANGED <<status, players, rows, events, locks, session>>

Serve(w) ==
    \/ Reserve(w) \/ Replay(w) \/ LockMatch(w) \/ InsertDraft(w)
    \/ ClearRoster(w) \/ InsertParticipant(w) \/ RosterWritten(w)
    \/ LineupsWrite(w) \/ ReadyWrite(w) \/ LiveWrite(w) \/ EventWrite(w)
    \/ Commit(w) \/ Reply(w)

Next ==
    \/ \E w \in Workers : \/ \E r \in Requests : Receive(w, r)
                          \/ Serve(w)
                          \/ Crash(w)
                          \/ AbortDeadlocked(w)
    \/ \E k \in RecordKeys : Expire(k)

Spec == Init /\ [][Next]_vars

\* Workers keep running, PostgreSQL wakes lock waiters in turn and looks for
\* deadlocks.
Fairness ==
    /\ \A w \in Workers : /\ WF_vars(Serve(w))
                          /\ SF_vars(Reserve(w))
                          /\ SF_vars(LockMatch(w))
                          /\ SF_vars(Replay(w))
                          /\ SF_vars(InsertParticipant(w))
    /\ WF_vars(\E w \in Workers : AbortDeadlocked(w))

FairSpec == Spec /\ Fairness

-----------------------------------------------------------------------------
(* Properties *)

Outcomes == {"ok", "internal", "ErrIdempotencyConflict", "ErrMatchNotDraft",
             "ErrMatchNotReady", "ErrInvalidMatchInput", "ErrMatchNotFound",
             "ErrMatchNotLive", "ErrSequenceConflict", "ErrEventAlreadyExists"}

\* The type invariant of the tables and the sessions.  Locks are held by open
\* transactions that are past the point where they take them.
TypeOK ==
    /\ status \in [Matches -> {"NONE", "DRAFT", "READY", "LIVE"}]
    /\ \A m \in Matches : status[m] = "NONE" <=> players[m] \notin 2 .. 11
    /\ rows \in [Participants -> Entries \union {None}]
    /\ \A k \in RecordKeys : records[k] # None => records[k].result.outcome = "ok"
    /\ \A k \in RecordKeys : owner[k] # None =>
          pc[owner[k]] \in {"lock", "write", "insert", "commit"}
    /\ \A m \in Matches : matchLock[m] # None =>
          pc[matchLock[m]] \in {"write", "insert", "commit"}
    /\ \A w \in Workers : /\ todo[w] \in Seq(Participants)
                          /\ pc[w] = "reply" => reply[w].outcome \in Outcomes

\* Whatever rosters race with MarkReady and StartLiveSession, a match that is ready
\* or live has all its starters on both sides.  It is about starters that somebody
\* outside the program has chosen (FirstRows): a roster request takes them away,
\* and no request chooses any (LineupsAreServed).
LineupsAreComplete ==
    \A m \in Matches : status[m] \in {"READY", "LIVE"} => LineupIsComplete(m)

\* Once a match has left the draft, no request to it and no request to another
\* match that names its participants changes who plays in it.
RosterIsFrozen ==
    [][\A m \in Matches : status[m] \in {"READY", "LIVE"} => RosterOf(m)' = RosterOf(m)]_vars

\* Every recorded event keeps the subjects its action needs, on the side they were
\* recorded for, whatever rosters are sent afterwards.  Foreign keys keep the
\* participants; which side a role belongs to is for Append to check and for the
\* end of the draft to keep.
EventsKeepTheirSubjects ==
    \A m \in Matches : \A i \in DOMAIN events[m] :
        LET e == events[m][i] IN
        /\ eventActionRoles[e.action] \subseteq RolesIn(e.subjects)
        /\ SubjectsFit(e, RosterOf(m))

\* A success, replayed or not, answers the request it is given for: the roster
\* has the participants of the body, the event is the one that was sent.
AnswerFitsRequest ==
    \A w \in Workers :
        LET r == req[w] IN
        pc[w] = "reply" /\ reply[w].outcome = "ok" =>
            /\ r.op = "roster" =>
                  /\ OnSide(reply[w].value, "HOME") = ToSet(r.home)
                  /\ OnSide(reply[w].value, "AWAY") = ToSet(r.away)
            /\ r.op = "event" => reply[w].value = EventOf(r)

\* A request that is repeated while its key is known is not carried out again,
\* so a late retry of an old roster cannot undo a newer one.
AppliedOnce ==
    [][\A w \in Workers :
          pc[w] = "commit" /\ pc'[w] = "reply" => Reservable(RecordKey(req[w]))]_vars

\* A key stands for one draft: the match a client is told of, at once or in a
\* retry, is a match for the number of players it asked for, and no two keys are
\* answered with the same match.
DraftsAnswerTheirKeys ==
    /\ \A w \in Workers :
          pc[w] = "reply" /\ req[w].op = "create" /\ reply[w].outcome = "ok" =>
              players[reply[w].value] = req[w].players
    /\ \A j, k \in {key \in RecordKeys : key.op = "create" /\ records[key] # None} :
          records[j].result.value = records[k].result.value => j = k

\* What the interface promises of line-ups: a line-up of participants that are
\* on the roster is saved, and one that is not is refused as invalid.  Either way
\* the client is not left with an internal error.
LineupsAreServed ==
    \A w \in Workers :
        pc[w] = "reply" /\ req[w].op = "lineups" => reply[w].outcome # "internal"

\* Every request that is being served ends, even when rosters of different
\* matches wait for each other's participants.
EveryRequestEnds == \A w \in Workers : pc[w] # "idle" ~> pc[w] = "idle"

=============================================================================
