----------------------------- MODULE EventRules -----------------------------
(***************************************************************************)
(* Which events may be recorded: AppendEventCommand.Validate of            *)
(* internal/match/domain.go, and what Append checks of the subjects.       *)
(*                                                                         *)
(* A command has an action, a side, the expected sequence, a sequence of   *)
(* subjects, each a participant in a role, and the qualifiers the rules    *)
(* look at: finish, reason and adjustment, "" or 0 when they are absent.   *)
(* A roster gives each of its participants a side.                         *)
(***************************************************************************)
EXTENDS Integers, Sequences

SubjectRoles == {"PRIMARY", "SCORER", "ASSISTER", "OPPONENT", "PLAYER_ON", "PLAYER_OFF"}

\* The catalogue.  ACTION stands for its 29 other entries, which have no rules of
\* their own.
eventActionRoles ==
    [action \in {"GOAL", "SUBSTITUTION", "SCORE_ADJUSTMENT", "ACTION"} |->
        CASE action = "GOAL"         -> {"SCORER"}
          [] action = "SUBSTITUTION" -> {"PLAYER_ON", "PLAYER_OFF"}
          [] OTHER                   -> {"PRIMARY"}]

goalFinishTypes == {"STRONG_FOOT", "WEAK_FOOT", "HEADER", "VOLLEY", "OTHER"}

RolesIn(subjects) == {subjects[i].role : i \in DOMAIN subjects}

Validate(c) ==
    /\ c.expected >= 0
    /\ c.side \in {"HOME", "AWAY"}
    /\ c.subjects # <<>>
    /\ RolesIn(c.subjects) \subseteq SubjectRoles
    /\ c.action \in DOMAIN eventActionRoles
    /\ eventActionRoles[c.action] \subseteq RolesIn(c.subjects)
    /\ c.action = "GOAL" => c.finish \in goalFinishTypes \union {""}
    /\ c.action = "SCORE_ADJUSTMENT" => c.reason # "" /\ c.adjustment \in {-1, 1}

\* Every subject is on the roster, and on the side of the event unless it is an
\* opponent.  Whether it has been selected for the match does not matter.
SubjectsFit(c, roster) ==
    \A i \in DOMAIN c.subjects :
        LET s == c.subjects[i] IN
        /\ s.participant \in DOMAIN roster
        /\ s.role = "OPPONENT" <=> roster[s.participant].side # c.side

=============================================================================
