------------------------- MODULE MatchDomainProofs -------------------------
(***************************************************************************)
(* What the domain rules promise of every snapshot and every event, for    *)
(* the proofs about the modules that use them.                             *)
(***************************************************************************)
EXTENDS MatchDomain, TLAPS

LEMMA ScoreDeltaType ==
    ASSUME NEW e, e.action \in Actions, e.adjustment \in {-1, 1}
    PROVE  /\ ScoreDelta(e) \in {-1, 0, 1}
           /\ e.action = "EVENT_REVERSAL" => ScoreDelta(e) = 0
  BY DEF ScoreDelta, Actions

\* An event that the rules accept leads to a snapshot with legal scores.
LEMMA ApplyEventType ==
    ASSUME NEW snapshot \in Snapshots, NEW c, c.action \in Actions, c.side \in Sides,
           c.adjustment \in {-1, 1}, ApplyError(snapshot, c) = "none"
    PROVE  /\ ApplyEvent(snapshot, c) \in Snapshots
           /\ ApplyEvent(snapshot, c).status = "LIVE" /\ snapshot.status = "LIVE"
           /\ ApplyEvent(snapshot, c).sequence = snapshot.sequence + 1
           /\ ApplyEvent(snapshot, c).score
                = [snapshot.score EXCEPT ![c.side] = @ + ScoreDelta(c)]
<1>1. ScoreDelta(c) \in {-1, 0, 1}
  BY ScoreDeltaType
<1>2. /\ snapshot.status \in Statuses
      /\ snapshot.sequence \in Nat
      /\ snapshot.score \in [Sides -> Nat]
  BY DEF Snapshots
<1>3. snapshot.score[c.side] + ScoreDelta(c) >= 0
  BY <1>1, <1>2 DEF ApplyError
<1>4. snapshot.score[c.side] + ScoreDelta(c) \in Nat
  BY <1>1, <1>2, <1>3
<1>. DEFINE score == [snapshot.score EXCEPT ![c.side] = @ + ScoreDelta(c)]
<1>5. score \in [Sides -> Nat]
  BY <1>2, <1>4
<1>6. ApplyEvent(snapshot, c) = [status |-> snapshot.status,
                                 sequence |-> snapshot.sequence + 1, score |-> score]
  BY DEF ApplyEvent, Snapshots
<1>7. snapshot.status = "LIVE"
  BY DEF ApplyError
<1>. QED  BY <1>2, <1>5, <1>6, <1>7 DEF Snapshots

LEMMA ReverseEventType ==
    ASSUME NEW snapshot \in Snapshots, NEW e, e.action \in Actions, e.side \in Sides,
           e.adjustment \in {-1, 1}, ReverseError(snapshot, e) = "none"
    PROVE  /\ ReverseEvent(snapshot, e) \in Snapshots
           /\ ReverseEvent(snapshot, e).status = "LIVE" /\ snapshot.status = "LIVE"
           /\ ReverseEvent(snapshot, e).sequence = snapshot.sequence + 1
           /\ ReverseEvent(snapshot, e).score
                = [snapshot.score EXCEPT ![e.side] = @ - ScoreDelta(e)]
           /\ ScoreDelta(e) # 0
<1>1. ScoreDelta(e) \in {-1, 0, 1}
  BY ScoreDeltaType
<1>2. /\ snapshot.status \in Statuses
      /\ snapshot.sequence \in Nat
      /\ snapshot.score \in [Sides -> Nat]
  BY DEF Snapshots
<1>3. snapshot.score[e.side] >= ScoreDelta(e) /\ ScoreDelta(e) # 0
  BY <1>1, <1>2 DEF ReverseError
<1>4. snapshot.score[e.side] - ScoreDelta(e) \in Nat
  BY <1>1, <1>2, <1>3
<1>. DEFINE score == [snapshot.score EXCEPT ![e.side] = @ - ScoreDelta(e)]
<1>5. score \in [Sides -> Nat]
  BY <1>2, <1>4
<1>6. ReverseEvent(snapshot, e) = [status |-> snapshot.status,
                                   sequence |-> snapshot.sequence + 1, score |-> score]
  BY DEF ReverseEvent, Snapshots
<1>7. snapshot.status = "LIVE"
  BY DEF ReverseError
<1>. QED  BY <1>2, <1>3, <1>5, <1>6, <1>7 DEF Snapshots

=============================================================================
