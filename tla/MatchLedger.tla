---------------------------- MODULE MatchLedger ----------------------------
(***************************************************************************)
(* What the write path of a live match promises to scorers: a linearizable *)
(* ledger.  Each call takes effect at one instant between its arrival and  *)
(* its answer or has no effect, an effect is never repeated, and a refusal *)
(* is justified by the state of the match at the instant of the refusal.   *)
(* There are no transactions, locks, stored responses or score columns.    *)
(*                                                                         *)
(* The log is the sequence of what happened to the match since it went     *)
(* live; a reversal entry names the position it reverses, other entries    *)
(* name 0.  MatchStore implements this module (see MatchStoreRefinement).  *)
(***************************************************************************)
EXTENDS MatchDomain, FiniteSets, Sequences

CONSTANTS Workers, Requests, MaxScore, None

VARIABLES
    live,       \* the match has been started
    log,        \* what happened, in order
    call,       \* the request each worker is serving, None when it serves none
    answer      \* what it will tell its client, None as long as it does not know

vars == <<live, log, call, answer>>

\* The entries of a log that change the score of a side by delta and that no
\* entry of it reverses.
Standing(l, side, delta) ==
    {i \in DOMAIN l : /\ l[i].side = side
                      /\ ScoreDelta(l[i]) = delta
                      /\ \A j \in DOMAIN l : l[j].reverses # i}

Score(l) ==
    [s \in Sides |-> Cardinality(Standing(l, s, 1)) - Cardinality(Standing(l, s, -1))]

Known(client) == \E i \in DOMAIN log : log[i].client = client

Init == /\ live = FALSE
        /\ log = <<>>
        /\ call = [w \in Workers |-> None]
        /\ answer = [w \in Workers |-> None]

\* A client calls, for the first time or again.
Invoke(w, r) ==
    /\ call[w] = None
    /\ call' = [call EXCEPT ![w] = r]
    /\ UNCHANGED <<live, log, answer>>

Tell(w, result) ==
    /\ call[w] # None
    /\ answer[w] = None
    /\ answer' = [answer EXCEPT ![w] = result]
    /\ UNCHANGED call

\* The answer for the entry at position n: its position, and the score it made.
Done(l, n) == [outcome |-> "ok", event |-> n, score |-> Score(SubSeq(l, 1, n))]

\* The match goes live, once.
GoLive(w) ==
    /\ call[w] # None /\ call[w].op = "start"
    /\ ~live
    /\ live' = TRUE
    /\ Tell(w, Done(log, 0))
    /\ UNCHANGED log

\* An entry is added at the position its client expected, for a client event
\* that is not in the log yet, and the score it makes is a legal one.
Add(w, entry) ==
    /\ live
    /\ call[w].expected = Len(log)
    /\ ~Known(call[w].client)
    /\ log' = Append(log, entry)
    /\ Score(log')[entry.side] \in 0 .. MaxScore
    /\ Tell(w, Done(log', Len(log')))
    /\ UNCHANGED live

Record(w) ==
    LET r == call[w] IN
    /\ r # None /\ r.op = "append" /\ r.rostered
    /\ Add(w, [client |-> r.client, action |-> r.action, side |-> r.side,
               adjustment |-> r.adjustment, reverses |-> 0])

\* What is reversed changed the score and stands.
Undo(w) ==
    LET r == call[w] IN
    /\ r # None /\ r.op = "reverse"
    /\ r.target \in DOMAIN log
    /\ ScoreDelta(log[r.target]) # 0
    /\ \A i \in DOMAIN log : log[i].reverses # r.target
    /\ Add(w, [client |-> r.client, action |-> "EVENT_REVERSAL",
               side |-> log[r.target].side, adjustment |-> log[r.target].adjustment,
               reverses |-> r.target])

\* The call had its effect already: the answer is the one of that time.
AnswerAgain(w) ==
    LET r == call[w] IN
    /\ r # None
    /\ \/ r.op = "start" /\ live /\ Tell(w, Done(log, 0))
       \/ /\ r.op # "start"
          /\ \E n \in DOMAIN log : log[n].client = r.client /\ Tell(w, Done(log, n))
    /\ UNCHANGED <<live, log>>

\* When a call may be refused with an error.
Justified(r, err) ==
    CASE err = "ErrMatchNotReady"      -> r.op = "start" /\ live
      [] err = "ErrInvalidMatchInput"  -> ~r.rostered
      [] err = "ErrMatchNotLive"       -> ~live
      [] err = "ErrSequenceConflict"   -> r.expected # Len(log)
      [] err = "ErrScoreUnderflow"     -> /\ ScoreDelta(r) < 0
                                          /\ Score(log)[r.side] = 0
      [] err = "ErrReversalUnderflow"  -> /\ r.target \in DOMAIN log
                                          /\ Score(log)[log[r.target].side] = 0
      [] err = "ErrEventAlreadyExists" -> Known(r.client)
      [] err = "ErrEventNotFound"      -> r.target \notin DOMAIN log
      [] err = "ErrEventAlreadyReversed" -> \E i \in DOMAIN log : log[i].reverses = r.target
      [] err = "ErrEventNotReversible" -> /\ r.target \in DOMAIN log
                                          /\ ScoreDelta(log[r.target]) = 0
      [] err = "ErrIdempotencyConflict" -> IF r.op = "start" THEN live ELSE Known(r.client)
      [] err = "internal"              -> \/ ~r.storable
                                          \/ Known(r.client)
                                          \/ \E s \in Sides : Score(log)[s] = MaxScore
      [] OTHER                         -> FALSE

Refuse(w) ==
    /\ call[w] # None
    /\ \E err \in {"internal", "ErrMatchNotReady", "ErrMatchNotLive", "ErrSequenceConflict",
                   "ErrScoreUnderflow", "ErrReversalUnderflow", "ErrEventAlreadyExists",
                   "ErrEventNotFound", "ErrEventAlreadyReversed", "ErrEventNotReversible",
                   "ErrIdempotencyConflict", "ErrInvalidMatchInput"} :
          /\ Justified(call[w], err)
          /\ Tell(w, [outcome |-> err, event |-> 0, score |-> None])
    /\ UNCHANGED <<live, log>>

\* The client gets the answer, or the call is lost before or after its effect.
Leave(w) ==
    /\ call[w] # None
    /\ call' = [call EXCEPT ![w] = None]
    /\ answer' = [answer EXCEPT ![w] = None]
    /\ UNCHANGED <<live, log>>

Next == \E w \in Workers :
    \/ \E r \in Requests : Invoke(w, r)
    \/ GoLive(w) \/ Record(w) \/ Undo(w)
    \/ AnswerAgain(w) \/ Refuse(w) \/ Leave(w)

Spec == Init /\ [][Next]_vars
=============================================================================
