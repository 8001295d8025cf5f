---------------------------- MODULE MCMatchStore ----------------------------
(***************************************************************************)
(* Requests for the model checking of MatchStore: scenarios chosen so     *)
(* that each kind of race, retry and refusal has a request to cause it.    *)
(***************************************************************************)
EXTENDS MatchStoreRefinement, TLC

CONSTANTS w1, w2

Request(op, client, key, expected, action, side, adjustment, target) ==
    [op |-> op, client |-> client, key |-> key, expected |-> expected,
     action |-> action, side |-> side, adjustment |-> adjustment, target |-> target,
     rostered |-> TRUE, storable |-> TRUE]

Start(key)                     == Request("start", "c0", key, 0, "ACTION", "HOME", 1, 0)
Goal(client, key, n, side)     == Request("append", client, key, n, "GOAL", side, 1, 0)
Correction(client, key, n, by) == Request("append", client, key, n, "SCORE_ADJUSTMENT", "HOME", by, 0)
Pass(client, key, n)           == Request("append", client, key, n, "ACTION", "AWAY", 1, 0)
Guest(client, key, n, side)    == [Goal(client, key, n, side) EXCEPT !.rostered = FALSE]
Short(r)                       == [r EXCEPT !.storable = FALSE]
Undo(client, key, n, target)   == Request("reverse", client, key, n, "ACTION", "HOME", 1, target)

\* Two devices race for the first event, with a column that one goal fills; one
\* uses its client id again, rebased and under a new key, as if its first event
\* were lost.  The goal is corrected, and reversed by two devices, after the
\* correction too; the event at 2 is reversed under a client id in use.  The
\* guest is not on the roster; corrected, it is sent under the same key, and so is
\* a reversal whose reason was too short.
LedgerRequests ==
    {Start("k0"), Guest("c1", "k1", 0, "HOME"),
     Goal("c1", "k1", 0, "HOME"), Pass("c2", "k4", 0), Goal("c2", "k2", 1, "HOME"),
     Correction("c5", "k5", 1, -1),
     Short(Undo("c3", "k3", 1, 1)),
     Undo("c3", "k3", 1, 1), Undo("c4", "k6", 2, 2), Undo("c1", "k1", 2, 1)}

\* The loser of a race for the first event, and two devices that start the match.
RaceRequests ==
    {Start("k0"), Start("k1"), Goal("c1", "k1", 0, "HOME"), Goal("c2", "k2", 0, "AWAY")}

\* Two reversals that differ only in the event they reverse.
SameBodyRequests ==
    {Start("k0"),
     Goal("c1", "k1", 0, "HOME"), Goal("c2", "k2", 1, "HOME"),
     Undo("c3", "k3", 2, 1), Undo("c3", "k3", 2, 2)}

TwoWorkers == {w1, w2}
WorkerSymmetry == Permutations(Workers)
=============================================================================
