---------------------------- MODULE MatchDomain ----------------------------
(***************************************************************************)
(* The domain rules of a live match: internal/match/domain.go.             *)
(*                                                                         *)
(* These are the pure functions the write path calls while it holds the    *)
(* row lock of the match.  A Go function that returns (value, error) is    *)
(* two operators here: the error it returns for an input, "none" included, *)
(* and the value it returns when there is no error.                        *)
(*                                                                         *)
(* A snapshot is [status, sequence, score], score a function on Sides.  A  *)
(* command and a ledger event share the fields action, side and            *)
(* adjustment, the last one being the qualifier score_delta.               *)
(***************************************************************************)
EXTENDS Integers

Sides == {"HOME", "AWAY"}

\* The statuses the implemented operations reach, in the order they reach them.
Statuses == {"DRAFT", "READY", "LIVE"}

\* GOAL and SCORE_ADJUSTMENT stand for themselves, ACTION for the catalogue
\* entries that leave the score alone.
Actions == {"GOAL", "SCORE_ADJUSTMENT", "ACTION", "EVENT_REVERSAL"}

Snapshots == [status : Statuses, sequence : Nat, score : [Sides -> Nat]]

\* What one event adds to its side's score.  A reversal event adds nothing of
\* its own: it is undone by its row in event_reversals.
ScoreDelta(event) ==
    CASE event.action = "GOAL"             -> 1
      [] event.action = "SCORE_ADJUSTMENT" -> event.adjustment
      [] OTHER                             -> 0

-----------------------------------------------------------------------------
(* StartLiveSession *)

StartError(snapshot) ==
    IF snapshot.status # "READY" THEN "ErrMatchNotReady" ELSE "none"

-----------------------------------------------------------------------------
(* ApplyEvent *)

\* Mutants of ApplyError: no underflow check, no check of the status.
ApplyErrorNoUnderflow(snapshot, command) ==
    IF snapshot.status # "LIVE" THEN "ErrMatchNotLive"
    ELSE IF snapshot.sequence # command.expected THEN "ErrSequenceConflict"
    ELSE "none"

ApplyErrorAnyStatus(snapshot, command) ==
    IF snapshot.sequence # command.expected THEN "ErrSequenceConflict"
    ELSE IF snapshot.score[command.side] + ScoreDelta(command) < 0
         THEN "ErrScoreUnderflow"
    ELSE "none"

ApplyError(snapshot, command) ==
    IF snapshot.status # "LIVE" THEN "ErrMatchNotLive"
    ELSE IF snapshot.sequence # command.expected THEN "ErrSequenceConflict"
    ELSE IF snapshot.score[command.side] + ScoreDelta(command) < 0
         THEN "ErrScoreUnderflow"
    ELSE "none"

\* Mutant of ApplyEvent: the sequence is not incremented.
ApplyEventSameSequence(snapshot, command) ==
    [snapshot EXCEPT !.score[command.side] = @ + ScoreDelta(command)]

ApplyEvent(snapshot, command) ==
    [status   |-> snapshot.status,
     sequence |-> snapshot.sequence + 1,
     score    |-> [snapshot.score EXCEPT ![command.side] = @ + ScoreDelta(command)]]

-----------------------------------------------------------------------------
(* ReverseEvent *)

\* Mutant of ReverseError: events without a score can be reversed.
ReverseErrorAnyEvent(snapshot, original) ==
    IF snapshot.status # "LIVE" THEN "ErrMatchNotLive"
    ELSE IF snapshot.score[original.side] < ScoreDelta(original)
         THEN "ErrReversalUnderflow"
    ELSE "none"

\* The error of the last case is an unnamed errors.New in the source.
ReverseError(snapshot, original) ==
    IF snapshot.status # "LIVE" THEN "ErrMatchNotLive"
    ELSE IF ScoreDelta(original) = 0 THEN "ErrEventNotReversible"
    ELSE IF snapshot.score[original.side] < ScoreDelta(original)
         THEN "ErrReversalUnderflow"
    ELSE "none"

\* Mutant of ReverseEvent: it takes a goal away whatever it reverses.
ReverseEventMinusOne(snapshot, original) ==
    [snapshot EXCEPT !.sequence = @ + 1, !.score[original.side] = @ - 1]

ReverseEvent(snapshot, original) ==
    [status   |-> snapshot.status,
     sequence |-> snapshot.sequence + 1,
     score    |-> [snapshot.score EXCEPT ![original.side] = @ - ScoreDelta(original)]]

=============================================================================
