---------------------------- MODULE MCMatchSetup ----------------------------
(***************************************************************************)
(* Requests for the model checking of MatchSetup.                          *)
(***************************************************************************)
EXTENDS MatchSetup

CONSTANTS w1, w2, m1, m2, p1, p2, p3, p4, p5

Request(op, m, key, home, away) ==
    [op |-> op, match |-> m, key |-> key, home |-> home, away |-> away]

Create(key, format, number) ==
    [op |-> "create", match |-> None, key |-> key, format |-> format, players |-> number]

Roster(m, key, home, away)  == Request("roster", m, key, home, away)
Lineups(m, key, home, away) == Request("lineups", m, key, home, away)
Ready(m, key)               == Request("ready", m, key, <<>>, <<>>)
LiveSession(m, key)         == Request("live-session", m, key, <<>>, <<>>)

Event(client, key, action, side, expected, subjects) ==
    [op |-> "event", match |-> m1, key |-> key, client |-> client, action |-> action,
     side |-> side, expected |-> expected, subjects |-> subjects,
     finish |-> "", reason |-> "", adjustment |-> 0]

Subject(role, p) == [role |-> role, participant |-> p]

Row(side, state) == [match |-> m1, side |-> side, state |-> state]

\* The first match has a line-up of two on each side, and a fifth participant on
\* the bench or not at all.
Starting(fifth) ==
    [p \in Participants |-> CASE p \in {p1, p2} -> Row("HOME", "STARTER")
                              [] p \in {p3, p4} -> Row("AWAY", "STARTER")
                              [] OTHER          -> fifth]

FirstOnBench == Starting(Row("HOME", "BENCH"))
FirstFree    == Starting(None)
NoRows       == [p \in Participants |-> None]

\* Requests for drafts share a key and differ in their body, or have keys of their
\* own, or ask for a wrong number of players.  The roster is replaced by a larger one
\* under the same key, a line-up names a starter twice, and another is for a match
\* that may not be there.  The events are a substitution of one player for nobody,
\* a duel with a player of the other side, and one between two of the same side.
KickOffRequests ==
    {Create("k0", "CUSTOM", 2), Create("k0", "CUSTOM", 3), Create("k1", "CUSTOM", 2),
     Create("k1", "5V5", 2),
     Roster(m1, "k1", <<p1, p2>>, <<p3, p4>>),
     Roster(m1, "k1", <<p1, p2, p5>>, <<p3, p4>>),
     Lineups(m1, "k3", <<p1, p1>>, <<p3, p4>>),
     Ready(m1, "k4"), Ready(m2, "k4"), LiveSession(m1, "k5"),
     Event("c1", "k6", "SUBSTITUTION", "HOME", 0, <<Subject("PLAYER_ON", p1)>>),
     Event("c2", "k7", "ACTION", "AWAY", 0, <<Subject("PRIMARY", p3), Subject("OPPONENT", p5)>>),
     Event("c2", "k7", "ACTION", "AWAY", 0, <<Subject("PRIMARY", p3), Subject("OPPONENT", p4)>>)}

\* Two matches whose rosters name the same participants, a free one and one that
\* the first match has, in opposite orders, and a roster that is too small.
SharedRequests ==
    {Roster(m1, "k1", <<p1, p2, p5>>, <<p3, p4>>),
     Roster(m2, "k1", <<p5, p1>>, <<p3, p2>>),
     Roster(m2, "k2", <<p5>>, <<p3, p4>>),
     Lineups(m1, "k3", <<p1, p2>>, <<p3, p4>>),
     Ready(m1, "k4")}

\* A roster, and a line-up from it.
LineupRequests ==
    {Roster(m1, "k1", <<p1, p2>>, <<p3, p4>>), Lineups(m1, "k3", <<p1, p2>>, <<p3, p4>>)}

OneMatch   == {m1}
TwoMatches == {m1, m2}
FivePlayers == {p1, p2, p3, p4, p5}
TwoASide   == [m \in Drafted |-> 2]
OneWorker    == {w1}
TwoWorkers   == {w1, w2}
Symmetry == Permutations(Workers)
=============================================================================
