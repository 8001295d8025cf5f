---------------------------- MODULE MCEventFeed ----------------------------
(***************************************************************************)
(* Instances of EventFeed for model checking.                              *)
(***************************************************************************)
EXTENDS EventFeed

CONSTANTS r1, w1, w2

\* A goal, which may be reversed.
FeedCommands ==
    {[action |-> "GOAL", side |-> "HOME", adjustment |-> 1]}

OneReader    == {r1}
TwoWorkers   == {w1, w2}
OnlyServer == {"server"}
OnlyLambda == {"lambda"}
=============================================================================
