------------------------ MODULE MatchStoreRefinement ------------------------
(***************************************************************************)
(* MatchStore, with its transactions, locks and stored responses, is an    *)
(* implementation of the linearizable ledger of MatchLedger: a call takes  *)
(* effect when its transaction commits.                                    *)
(***************************************************************************)
EXTENDS MatchStore

\* The ledger rows in the order of their sequence, each with the event its row
\* of event_reversals says it reverses.
LogEntry(e) ==
    [client |-> e.client, action |-> e.action, side |-> e.side, adjustment |-> e.adjustment,
     reverses |-> IF \E link \in reversals : link.reversal = e.sequence
                  THEN (CHOOSE link \in reversals : link.reversal = e.sequence).reversed
                  ELSE 0]

LedgerLog == [n \in 1 .. Cardinality(ledger) |-> LogEntry(EventAt(n))]

\* The answer a worker has, without the status of its snapshot.
GivenAnswer(w) ==
    IF reply[w] = None THEN None
    ELSE [outcome |-> reply[w].outcome, event |-> reply[w].event,
          score |-> IF reply[w].snapshot = None THEN None ELSE reply[w].snapshot.score]

Ledger == INSTANCE MatchLedger WITH
    live   <- match.status = "LIVE",
    log    <- LedgerLog,
    call   <- req,
    answer <- [w \in Workers |-> GivenAnswer(w)]

\* Appends, reversals and starts are linearizable: every call that is answered
\* had its effect exactly once, at its commit or that of an earlier copy of it,
\* or was refused for a reason that held when it was refused.
LinearizableLedger == Ledger!Spec
=============================================================================
