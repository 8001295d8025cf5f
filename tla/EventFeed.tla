----------------------------- MODULE EventFeed -----------------------------
(***************************************************************************)
(* Reading a match while it is being scored: GetSnapshot, GetMatch and     *)
(* ListEvents of internal/match/postgres_repository.go behind the handlers *)
(* of internal/match/httpapi/read_handler.go, and the devices that follow  *)
(* a match with them.                                                      *)
(*                                                                         *)
(* The write path is one step here, its commit: MatchStore implements      *)
(* a ledger whose events appear one at a time.  A read is not one step:    *)
(* ListEvents runs two statements at READ COMMITTED, each of which sees    *)
(* what is committed when it starts, and any number of commits and other   *)
(* reads come between them, before the answer, and before the device gets  *)
(* it.  A device asks again before it is answered, so that answers arrive  *)
(* in any order or never.                                                  *)
(*                                                                         *)
(* A device asks for what comes after the last_sequence it was last told,  *)
(* and adds to its copy the items that continue it.                        *)
(***************************************************************************)
EXTENDS MatchDomain, FiniteSets, Sequences

CONSTANTS
    Readers,        \* devices that follow the match
    Workers,        \* requests that can be in service at the same time
    Adapters,       \* what carries requests: "server", "lambda"
    Commands,       \* the events scorers record
    MaxEvents,      \* bound on the length of the ledger
    None

ASSUME FeedAssumption ==
    /\ None \notin Readers \union Workers
    /\ Adapters \subseteq {"server", "lambda"}
    /\ MaxEvents \in Nat
    /\ \A c \in Commands : /\ c.action \in Actions \ {"EVENT_REVERSAL"}
                           /\ c.side \in Sides
                           /\ c.adjustment \in {-1, 1}

VARIABLES
    match,          \* matches and match_live_state: a snapshot, None before Create
    ledger,         \* match_events, in the order of the sequence
    pc,             \* where each worker is
    req,            \* the request it serves
    reply,          \* the answer it is about to give
    copy,           \* the events each device has
    cursor,         \* the last_sequence it was told last
    known           \* the newest snapshot it has

store   == <<match, ledger>>
session == <<pc, req, reply>>
device  == <<copy, cursor, known>>
vars    == <<match, ledger, pc, req, reply, copy, cursor, known>>

Ops == {"list", "snapshot", "match"}

Init ==
    /\ match = None
    /\ ledger = <<>>
    /\ pc = [w \in Workers |-> "idle"]
    /\ req = [w \in Workers |-> None]
    /\ reply = [w \in Workers |-> None]
    /\ copy = [r \in Readers |-> <<>>]
    /\ cursor = [r \in Readers |-> 0]
    /\ known = [r \in Readers |-> None]

-----------------------------------------------------------------------------
(* Commits *)

\* The draft appears, is made ready and goes live.
Advance ==
    /\ match' = IF match = None
                THEN [status |-> "DRAFT", sequence |-> 0, score |-> [s \in Sides |-> 0]]
                ELSE [match EXCEPT !.status = IF @ = "DRAFT" THEN "READY" ELSE "LIVE"]
    /\ match' # match
    /\ UNCHANGED <<ledger, session, device>>

\* Append commits an event for the sequence its client expected.
Record(command) ==
    LET r     == [action |-> command.action, side |-> command.side,
                  adjustment |-> command.adjustment, expected |-> match.sequence]
        event == [action |-> command.action, side |-> command.side,
                  adjustment |-> command.adjustment, reverses |-> 0]
    IN  /\ match # None /\ Len(ledger) < MaxEvents
        /\ ApplyError(match, r) = "none"
        /\ match' = ApplyEvent(match, r)
        /\ ledger' = Append(ledger, event)
        /\ UNCHANGED <<session, device>>

\* Reverse commits the reversal of event n, with a qualifier that names it.
Undo(n) ==
    LET event == [action |-> "EVENT_REVERSAL", side |-> ledger[n].side,
                  adjustment |-> ledger[n].adjustment, reverses |-> n]
    IN  /\ match # None /\ Len(ledger) < MaxEvents
        /\ n \in DOMAIN ledger
        /\ \A i \in DOMAIN ledger : ledger[i].reverses # n
        /\ ReverseError(match, ledger[n]) = "none"
        /\ match' = ReverseEvent(match, ledger[n])
        /\ ledger' = Append(ledger, event)
        /\ UNCHANGED <<session, device>>

-----------------------------------------------------------------------------
(* ListEvents *)

\* Mutant of Items: the newest first.
ItemsNewestFirst(after) == [i \in 1 .. Len(ledger) - after |-> ledger[Len(ledger) + 1 - i]]

\* Mutant of Items: all but the newest.
ItemsButLast(after) == SubSeq(ledger, after + 1, Len(ledger) - 1)

\* SELECT ... WHERE e.sequence > after ORDER BY e.sequence: the rows of an event
\* and its subjects follow each other and are folded into one item.
Items(after) == SubSeq(ledger, after + 1, Len(ledger))

\* Mutant of LastSequence: the sequence the next event will have.
LastSequenceNext(after, items) == IF items = <<>> THEN 0 ELSE after + Len(items) + 1

\* A page without items has last_sequence 0, whatever was asked for.
LastSequence(after, items) == IF items = <<>> THEN 0 ELSE after + Len(items)

\* The sequence of an item is its number; first is that of the first one.
Page(after) ==
    LET items == Items(after)
    IN  [items |-> items, first |-> after + 1, last |-> LastSequence(after, items)]

\* What the handler makes of the query.  StartLambda builds the request from the
\* path alone, so a query does not reach the handler there.
AfterSequence(r) == IF r.adapter = "lambda" THEN 0 ELSE r.after

-----------------------------------------------------------------------------
(* Requests *)

Goto(w, label) == pc' = [pc EXCEPT ![w] = label]

\* What a read of the match tells of it besides its score.
Stage(snapshot) ==
    IF snapshot = None THEN None
    ELSE [status |-> snapshot.status, sequence |-> snapshot.sequence]

\* A device sends a request, however many of its others are unanswered.  since
\* is kept for the properties: the stage of the match at this moment.
Send(w, r, op) ==
    /\ pc[w] = "idle"
    /\ \E adapter \in IF op = "list" THEN Adapters ELSE {None} :
          req' = [req EXCEPT ![w] =
              [reader |-> r, op |-> op, adapter |-> adapter,
               after |-> IF op = "list" THEN cursor[r] ELSE 0, since |-> Stage(match)]]
    /\ Goto(w, "read")
    /\ UNCHANGED <<store, reply, device>>

Answer(w, outcome, value) ==
    /\ reply' = [reply EXCEPT ![w] = [outcome |-> outcome, value |-> value]]
    /\ Goto(w, "reply")
    /\ UNCHANGED <<store, req, device>>

\* SELECT EXISTS, the first statement of ListEvents.
FindMatch(w) ==
    /\ pc[w] = "read" /\ req[w].op = "list"
    /\ \/ match = None /\ Answer(w, "ErrMatchNotFound", None)
       \/ /\ match # None
          /\ Goto(w, "list")
          /\ UNCHANGED <<store, req, reply, device>>

ListEvents(w) ==
    /\ pc[w] = "list"
    /\ Answer(w, "ok", Page(AfterSequence(req[w])))

\* GetSnapshot and GetMatch, one statement each over matches and
\* match_live_state.
GetSnapshot(w) ==
    /\ pc[w] = "read" /\ req[w].op = "snapshot"
    /\ \/ match = None /\ Answer(w, "ErrMatchNotFound", None)
       \/ match # None /\ Answer(w, "ok", match)

GetMatch(w) ==
    /\ pc[w] = "read" /\ req[w].op = "match"
    /\ \/ match = None /\ Answer(w, "ErrMatchNotFound", None)
       \/ match # None /\ Answer(w, "ok", Stage(match))

\* writeReadError
HttpStatus(outcome) ==
    CASE outcome = "ok" -> 200
      [] outcome = "ErrMatchNotFound" -> 404
      [] OTHER -> 500

EndSession(w) ==
    /\ Goto(w, "idle")
    /\ req' = [req EXCEPT ![w] = None]
    /\ reply' = [reply EXCEPT ![w] = None]
    /\ UNCHANGED store

\* The items that continue what the device has.
Merge(events, page) ==
    events \o SubSeq(page.items, Len(events) - page.first + 2, Len(page.items))

\* The device takes a page, or a snapshot that is not older than the one it has.
Deliver(w) ==
    LET r      == req[w].reader
        value  == reply[w].value
        status == HttpStatus(reply[w].outcome)
    IN  /\ pc[w] = "reply"
        /\ IF status = 200 /\ req[w].op = "list"
           THEN /\ cursor' = [cursor EXCEPT ![r] = value.last]
                /\ copy' = [copy EXCEPT ![r] = IF value.items = <<>> THEN @ ELSE Merge(@, value)]
           ELSE UNCHANGED <<copy, cursor>>
        /\ known' = IF /\ status = 200 /\ req[w].op = "snapshot"
                       /\ known[r] # None => known[r].sequence <= value.sequence
                    THEN [known EXCEPT ![r] = value]
                    ELSE known
        /\ EndSession(w)

\* A statement fails, the worker crashes or the answer is lost.
Lose(w) ==
    /\ pc[w] # "idle"
    /\ EndSession(w)
    /\ UNCHANGED device

Serve(w) == FindMatch(w) \/ ListEvents(w) \/ GetSnapshot(w) \/ GetMatch(w)

Poll(r) == \E w \in Workers : Send(w, r, "list")

\* One of the requests for events of device r goes on with this step.
ForEvents(r, Step(_)) ==
    \E w \in Workers : pc[w] # "idle" /\ req[w].reader = r /\ req[w].op = "list" /\ Step(w)

Next ==
    \/ Advance
    \/ \E c \in Commands : Record(c)
    \/ \E n \in 1 .. MaxEvents : Undo(n)
    \/ \E w \in Workers : \/ \E r \in Readers, op \in Ops : Send(w, r, op)
                          \/ Serve(w)
                          \/ Deliver(w)
                          \/ Lose(w)

Spec == Init /\ [][Next]_vars

\* Workers keep running.  A device asks for events again and again, and not
\* every request is lost on its way: some get as far as each step, and some
\* answers arrive.  Nothing is assumed of scorers.
Fairness ==
    /\ \A w \in Workers : WF_vars(Serve(w) \/ Deliver(w))
    /\ \A r \in Readers : /\ SF_vars(Poll(r))
                          /\ SF_vars(ForEvents(r, FindMatch))
                          /\ SF_vars(ForEvents(r, ListEvents))
                          /\ SF_vars(ForEvents(r, Deliver))

FairSpec == Spec /\ Fairness

-----------------------------------------------------------------------------
(* Properties *)

Stages == [status : Statuses, sequence : Nat]

Events == [action : Actions, side : Sides, adjustment : {-1, 1}, reverses : Nat]

Pages == [items : Seq(Events), first : Nat, last : Nat]

Asks == [reader : Readers, op : Ops, adapter : Adapters \union {None}, after : Nat,
         since : Stages \union {None}]

Replies == [outcome : {"ok", "ErrMatchNotFound"},
            value : Snapshots \union Stages \union Pages \union {None}]

\* No snapshot, request or answer is none of these.
ASSUME NoneAssumption == None \notin Snapshots \union Asks \union Replies

\* The type invariant of the tables, the sessions and the devices.
TypeOK ==
    /\ match \in Snapshots \union {None}
    /\ ledger \in Seq(Events)
    /\ \A n \in DOMAIN ledger : ledger[n].reverses \in 0 .. n - 1
    /\ pc \in [Workers -> {"idle", "read", "list", "reply"}]
    /\ req \in [Workers -> Asks \union {None}]
    /\ reply \in [Workers -> Replies \union {None}]
    /\ \A w \in Workers : /\ pc[w] = "idle" <=> req[w] = None
                          /\ pc[w] = "reply" <=> reply[w] # None
    /\ copy \in [Readers -> Seq(Events)]
    /\ cursor \in [Readers -> 0 .. MaxEvents]
    /\ known \in [Readers -> Snapshots \union {None}]

\* "HTTP remains authoritative for replay": whatever answers are lost, late or
\* out of order and whatever is committed between the statements of a read, a
\* device has the first events of the ledger, each once.
CopyIsPrefix ==
    \A r \in Readers : Len(copy[r]) <= Len(ledger) /\ copy[r] = SubSeq(ledger, 1, Len(copy[r]))

\* The cursor a device asks with is never beyond what it has, so no event is
\* skipped, although an empty page sets it back.
CursorNeverSkips == \A r \in Readers : cursor[r] <= Len(copy[r])

\* The statuses a match with this one may have later.
StatusesFrom(status) ==
    CASE status = "DRAFT" -> Statuses
      [] status = "READY" -> {"READY", "LIVE"}
      [] status = "LIVE"  -> {"LIVE"}

\* A read sees everything that was committed before it was sent: a scorer that
\* was told of an event finds it, and a match does not go back in status or
\* sequence.  A match that existed is not reported missing.
AnswersAreFresh ==
    \A w \in Workers : pc[w] = "reply" /\ req[w].since # None =>
        LET since == req[w].since
            value == reply[w].value
        IN  /\ reply[w].outcome = "ok"
            /\ IF req[w].op = "list"
               THEN req[w].after < since.sequence => value.last >= since.sequence
               ELSE value.sequence >= since.sequence /\ value.status \in StatusesFrom(since.status)

\* The events of a sequence of events that change the score of a side by delta
\* and that none of them reverses.
Standing(events, side, delta) ==
    {i \in DOMAIN events : /\ events[i].side = side
                           /\ ScoreDelta(events[i]) = delta
                           /\ \A j \in DOMAIN events : events[j].reverses # i}

\* A device that has the events up to a snapshot derives the score of the
\* snapshot from them, although the two come from different requests.
SnapshotAgreesWithFeed ==
    \A r \in Readers :
        known[r] # None /\ known[r].sequence <= Len(copy[r]) =>
            LET events == SubSeq(copy[r], 1, known[r].sequence)
            IN  known[r].score =
                    [s \in Sides |-> Cardinality(Standing(events, s, 1))
                                     - Cardinality(Standing(events, s, -1))]

\* A device that keeps asking gets every event there is.
CatchesUp ==
    \A r \in Readers, n \in 1 .. MaxEvents : Len(ledger) >= n ~> Len(copy[r]) >= n

-----------------------------------------------------------------------------
(* What the documentation says and the code does not do *)

\* api/openapi.yaml: listEvents has a query parameter after_sequence.  A page
\* holds no event at or before the sequence it was asked with.
PageStartsAfterCursor ==
    \A w \in Workers :
        pc[w] = "reply" /\ reply[w].outcome = "ok" /\ req[w].op = "list" =>
            reply[w].value.items = <<>> \/ reply[w].value.first > req[w].after

=============================================================================
