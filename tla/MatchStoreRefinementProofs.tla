--------------------- MODULE MatchStoreRefinementProofs ---------------------
(***************************************************************************)
(* Proof that MatchStore implements the linearizable ledger: its initial   *)
(* states are initial states of MatchLedger and each of its steps is a     *)
(* step of MatchLedger or a stutter, under the refinement mapping of       *)
(* MatchStoreRefinement and for all values of the constants.               *)
(***************************************************************************)
EXTENDS MatchStoreRefinement, MatchStoreAnswerProofs, FunctionTheorems

-----------------------------------------------------------------------------
(* The log by the tables it is read from *)

At(L, i) == CHOOSE e \in L : e.sequence = i

ReversedBy(R, i) ==
    IF \E link \in R : link.reversal = i
    THEN (CHOOSE link \in R : link.reversal = i).reversed ELSE 0

EntryAt(L, R, i) ==
    [client |-> At(L, i).client, action |-> At(L, i).action, side |-> At(L, i).side,
     adjustment |-> At(L, i).adjustment, reverses |-> ReversedBy(R, i)]

Entries(L, R, n) == {EntryAt(L, R, i) : i \in 1 .. n}

LogOf(L, R, n) == [i \in 1 .. n |-> EntryAt(L, R, i)]

LEMMA EntryFields ==
    \A L, R, i : /\ EntryAt(L, R, i).client = At(L, i).client
                 /\ EntryAt(L, R, i).action = At(L, i).action
                 /\ EntryAt(L, R, i).side = At(L, i).side
                 /\ EntryAt(L, R, i).adjustment = At(L, i).adjustment
                 /\ EntryAt(L, R, i).reverses = ReversedBy(R, i)
                 /\ ScoreDelta(EntryAt(L, R, i)) = ScoreDelta(At(L, i))
  BY DEF EntryAt, ScoreDelta

\* Tables of n events, numbered 1 to n, and of links among them, at most one for
\* each reversal.
Numbered(L, R, n) ==
    /\ n \in Nat
    /\ IsFiniteSet(L)
    /\ {e.sequence : e \in L} = 1 .. n
    /\ \A d, e \in L : d.sequence = e.sequence => d = e
    /\ \A link \in R : link.reversal \in 1 .. n /\ link.reversed \in 1 .. n
    /\ \A k, link \in R : k.reversal = link.reversal => k = link

LEMMA SameInterval ==
    ASSUME NEW a \in Nat, NEW b \in Nat, 1 .. a = 1 .. b
    PROVE  a = b
<1>1. ASSUME a < b PROVE FALSE
  <2>1. b \in 1 .. b /\ b \notin 1 .. a
    BY <1>1
  <2>. QED  BY <2>1
<1>2. ASSUME b < a PROVE FALSE
  <2>1. a \in 1 .. a /\ a \notin 1 .. b
    BY <1>2
  <2>. QED  BY <2>1
<1>. QED  BY <1>1, <1>2

LEMMA LogIsSeq ==
    ASSUME NEW L, NEW R, NEW n \in Nat
    PROVE  /\ LogOf(L, R, n) \in Seq(Entries(L, R, n))
           /\ Len(LogOf(L, R, n)) = n /\ DOMAIN LogOf(L, R, n) = 1 .. n
           /\ \A i \in 1 .. n : LogOf(L, R, n)[i] = EntryAt(L, R, i)
<1>. DEFINE S == Entries(L, R, n)
            l == LogOf(L, R, n)
<1>1. l \in [1 .. n -> S] /\ \A i \in 1 .. n : l[i] = EntryAt(L, R, i)
  BY DEF LogOf, Entries
<1>. HIDE DEF S, l
<1>2. l \in Seq(S)
  BY <1>1, SeqDef
<1>3. Len(l) \in Nat /\ DOMAIN l = 1 .. Len(l)
  BY <1>2, LenProperties
<1>4. DOMAIN l = 1 .. n
  BY <1>1
<1>5. Len(l) = n
  BY <1>3, <1>4, SameInterval
<1>. QED  BY <1>1, <1>2, <1>4, <1>5 DEF S, l

LEMMA EventIsAt ==
    ASSUME NEW L, NEW R, NEW n, Numbered(L, R, n)
    PROVE  /\ \A i \in 1 .. n : At(L, i) \in L /\ At(L, i).sequence = i
           /\ \A e \in L : e.sequence \in 1 .. n /\ At(L, e.sequence) = e
<1>1. \A i \in 1 .. n : \E e \in L : e.sequence = i
  BY DEF Numbered
<1>2. \A i \in 1 .. n : At(L, i) \in L /\ At(L, i).sequence = i
  BY <1>1 DEF At
<1>3. \A e \in L : e.sequence \in 1 .. n
  BY DEF Numbered
<1>. QED  BY <1>2, <1>3 DEF Numbered

LEMMA LinkIsAt ==
    ASSUME NEW L, NEW R, NEW n, Numbered(L, R, n)
    PROVE  /\ \A link \in R : ReversedBy(R, link.reversal) = link.reversed
           /\ \A i : ReversedBy(R, i) = 0 \/ \E link \in R : /\ link.reversal = i
                                                             /\ link.reversed = ReversedBy(R, i)
<1>1. ASSUME NEW link \in R
      PROVE  ReversedBy(R, link.reversal) = link.reversed
  <2>1. \A k \in R : k.reversal = link.reversal => k = link
    BY DEF Numbered
  <2>. QED  BY <2>1 DEF ReversedBy
<1>2. ASSUME NEW i
      PROVE  ReversedBy(R, i) = 0 \/ \E link \in R : /\ link.reversal = i
                                                     /\ link.reversed = ReversedBy(R, i)
  <2>1. CASE \E link \in R : link.reversal = i
    <3>1. (CHOOSE link \in R : link.reversal = i) \in R
          /\ (CHOOSE link \in R : link.reversal = i).reversal = i
      BY <2>1
    <3>. QED  BY <2>1, <3>1 DEF ReversedBy
  <2>2. CASE ~ \E link \in R : link.reversal = i
    BY <2>2 DEF ReversedBy
  <2>. QED  BY <2>1, <2>2
<1>. QED  BY <1>1, <1>2

LEMMA LedgerSize ==
    ASSUME NEW L, NEW R, NEW n, Numbered(L, R, n)
    PROVE  Cardinality(L) = n
<1>. DEFINE f == [e \in L |-> e.sequence]
<1>1. /\ f \in [L -> 1 .. n]
      /\ \A d, e \in L : f[d] = f[e] => d = e
      /\ \A i \in 1 .. n : \E e \in L : f[e] = i
  BY EventIsAt DEF Numbered
<1>. HIDE DEF f
<1>2. f \in Bijection(L, 1 .. n)
  BY <1>1, Fun_IsBij
<1>3. ExistsBijection(L, 1 .. n)
  BY <1>2, Fun_ExistsBij
<1>4. IsFiniteSet(L) /\ n \in Nat
  BY DEF Numbered
<1>5. Cardinality(1 .. n) = Cardinality(L)
  BY <1>3, <1>4, FS_Bijection
<1>. QED  BY <1>4, <1>5, FS_Interval

\* A prefix of the log is the log of the first events.
LEMMA LogPrefix ==
    ASSUME NEW L, NEW R, NEW n \in Nat, NEW k \in 0 .. n
    PROVE  SubSeq(LogOf(L, R, n), 1, k) = LogOf(L, R, k)
<1>. DEFINE S == Entries(L, R, n)
            l == LogOf(L, R, n)
            p == LogOf(L, R, k)
<1>1. l \in Seq(S) /\ \A i \in 1 .. n : l[i] = EntryAt(L, R, i)
  BY LogIsSeq
<1>2. Len(p) = k /\ \A i \in 1 .. k : p[i] = EntryAt(L, R, i)
  <2>1. k \in Nat
    OBVIOUS
  <2>. HIDE DEF p
  <2>. QED  BY <2>1, LogIsSeq DEF p
<1>3. p \in Seq(S)
  <2>1. p \in [1 .. k -> S]
    BY DEF LogOf, Entries
  <2>. HIDE DEF p, S
  <2>. QED  BY <2>1, SeqDef
<1>4. \A i \in 1 .. k : i \in 1 .. n /\ l[i] \in S
  <2>1. \A i \in 1 .. k : i \in 1 .. n
    OBVIOUS
  <2>. QED  BY <2>1 DEF Entries, LogOf
<1>. HIDE DEF S, l, p
<1>5. /\ SubSeq(l, 1, k) \in Seq(S)
      /\ Len(SubSeq(l, 1, k)) = k
      /\ \A i \in 1 .. k : SubSeq(l, 1, k)[i] = l[i]
  BY <1>4, SubSeqProperties
<1>6. \A i \in 1 .. k : SubSeq(l, 1, k)[i] = p[i]
  BY <1>1, <1>4, <1>2, <1>5
<1>7. SubSeq(l, 1, k) = p
  BY <1>2, <1>3, <1>5, <1>6, SeqEqual
<1>. QED  BY <1>7 DEF l, p

-----------------------------------------------------------------------------
(* The score of the log is the score of the ledger *)

LEMMA StandingCounts ==
    ASSUME NEW L, NEW R, NEW n, Numbered(L, R, n), NEW k \in 0 .. n, NEW s, NEW d
    PROVE  Cardinality(Ledger!Standing(LogOf(L, R, k), s, d))
             = Cardinality(CountAfter(L, R, k, s, d))
<1>. DEFINE l == LogOf(L, R, k)
            C == CountAfter(L, R, k, s, d)
            T == {i \in 1 .. k : /\ l[i].side = s
                                 /\ ScoreDelta(l[i]) = d
                                 /\ \A j \in 1 .. k : l[j].reverses # i}
            f == [e \in C |-> e.sequence]
<1>0. n \in Nat /\ k \in Nat /\ k <= n
  BY DEF Numbered
<1>1. DOMAIN l = 1 .. k /\ \A i \in 1 .. k : l[i] = EntryAt(L, R, i)
  BY <1>0, LogIsSeq
<1>2. Ledger!Standing(l, s, d) = T
  BY <1>1 DEF Ledger!Standing, ScoreDelta, Ledger!ScoreDelta
<1>3. IsFiniteSet(C)
  <2>1. C \in SUBSET L
    BY DEF CountAfter
  <2>. QED  BY <2>1, FS_Subset DEF Numbered
<1>4. ASSUME NEW e \in L, e.sequence <= k
      PROVE  /\ e.sequence \in 1 .. k
             /\ l[e.sequence].side = e.side
             /\ ScoreDelta(l[e.sequence]) = ScoreDelta(e)
  <2>1. e.sequence \in 1 .. k /\ At(L, e.sequence) = e
    BY <1>0, <1>4, EventIsAt
  <2>2. l[e.sequence] = EntryAt(L, R, e.sequence)
    BY <1>1, <2>1
  <2>. QED  BY <2>1, <2>2 DEF EntryAt, ScoreDelta
<1>5. ASSUME NEW e \in L, e.sequence <= k
      PROVE  (\A link \in R : link.reversed = e.sequence => link.reversal > k)
               <=> (\A j \in 1 .. k : l[j].reverses # e.sequence)
  <2>0. /\ e.sequence \in 1 .. k
        /\ \A j \in 1 .. k : l[j].reverses = ReversedBy(R, j)
        /\ \A link \in R : link.reversal \in 1 .. n
    BY <1>1, <1>4, <1>5 DEF EntryAt, Numbered
  <2>1. ASSUME \A link \in R : link.reversed = e.sequence => link.reversal > k,
               NEW j \in 1 .. k, l[j].reverses = e.sequence
        PROVE  FALSE
    <3>1. ReversedBy(R, j) # 0
      BY <2>0, <2>1
    <3>2. PICK link \in R : link.reversal = j /\ link.reversed = e.sequence
      BY <2>0, <2>1, <3>1, LinkIsAt
    <3>. QED  BY <1>0, <2>1, <3>2
  <2>2. ASSUME \A j \in 1 .. k : l[j].reverses # e.sequence,
               NEW link \in R, link.reversed = e.sequence, ~(link.reversal > k)
        PROVE  FALSE
    <3>1. link.reversal \in 1 .. k
      BY <1>0, <2>0, <2>2
    <3>2. ReversedBy(R, link.reversal) = e.sequence
      BY <2>2, LinkIsAt
    <3>. QED  BY <2>0, <2>2, <3>1, <3>2
  <2>. QED  BY <2>1, <2>2
<1>6. f \in [C -> T]
  <2>. SUFFICES ASSUME NEW e \in C PROVE e.sequence \in T
    OBVIOUS
  <2>1. /\ e \in L /\ e.sequence <= k /\ e.side = s /\ ScoreDelta(e) = d
        /\ \A link \in R : link.reversed = e.sequence => link.reversal > k
    BY DEF CountAfter
  <2>. QED  BY <1>4, <1>5, <2>1
<1>7. \A a, b \in C : f[a] = f[b] => a = b
  BY DEF CountAfter, Numbered
<1>8. \A i \in T : \E e \in C : f[e] = i
  <2>. SUFFICES ASSUME NEW i \in T PROVE \E e \in C : e.sequence = i
    OBVIOUS
  <2>1. /\ i \in 1 .. k /\ i \in 1 .. n /\ l[i].side = s /\ ScoreDelta(l[i]) = d
        /\ \A j \in 1 .. k : l[j].reverses # i
    BY <1>0
  <2>2. At(L, i) \in L /\ At(L, i).sequence = i
    BY <2>1, EventIsAt
  <2>3. At(L, i) \in C
    <3>. HIDE DEF l
    <3>1. At(L, i).sequence <= k
      BY <1>0, <2>1, <2>2
    <3>2. \A link \in R : link.reversed = i => link.reversal > k
      BY <1>5, <2>1, <2>2, <3>1
    <3>. QED  BY <1>4, <2>1, <2>2, <3>1, <3>2 DEF CountAfter
  <2>. QED  BY <2>2, <2>3
<1>. HIDE DEF C, T, f
<1>9. ExistsBijection(C, T)
  BY <1>6, <1>7, <1>8, Fun_IsBij, Fun_ExistsBij
<1>10. Cardinality(T) = Cardinality(C)
  BY <1>3, <1>9, FS_Bijection
<1>. QED  BY <1>2, <1>10 DEF C, l

LEMMA SameCardinality == \A S : Ledger!Cardinality(S) = Cardinality(S)
  BY DEF Ledger!Cardinality, Cardinality

LEMMA ScoreOfLog ==
    ASSUME NEW L, NEW R, NEW n, Numbered(L, R, n), NEW k \in 0 .. n
    PROVE  Ledger!Score(LogOf(L, R, k)) = ScoreAfter(L, R, k)
<1>. DEFINE l == LogOf(L, R, k)
<1>1. \A s \in Sides :
         /\ Cardinality(Ledger!Standing(l, s, 1)) = Cardinality(CountAfter(L, R, k, s, 1))
         /\ Cardinality(Ledger!Standing(l, s, -1)) = Cardinality(CountAfter(L, R, k, s, -1))
  BY StandingCounts
<1>2. Ledger!Score(l) = [s \in Sides |-> Cardinality(Ledger!Standing(l, s, 1))
                                           - Cardinality(Ledger!Standing(l, s, -1))]
  BY SameCardinality DEF Ledger!Score, Ledger!Sides, Sides
<1>. HIDE DEF l
<1>3. Ledger!Score(l) = ScoreAfter(L, R, k)
  BY <1>1, <1>2 DEF ScoreAfter
<1>. QED  BY <1>3 DEF l

-----------------------------------------------------------------------------
(* The log of the tables, and how it grows *)

\* The new event goes to the end of the log, the other entries stay.
LEMMA LogGrows ==
    ASSUME NEW L, NEW R, NEW n, Numbered(L, R, n),
           NEW M, NEW Q, Numbered(M, Q, n + 1),
           L \subseteq M, R \subseteq Q, \A link \in Q \ R : link.reversal = n + 1
    PROVE  LogOf(M, Q, n + 1) = Append(LogOf(L, R, n), EntryAt(M, Q, n + 1))
<1>. DEFINE l == LogOf(L, R, n)
            p == LogOf(M, Q, n + 1)
            x == EntryAt(M, Q, n + 1)
            S == Entries(M, Q, n + 1)
<1>0. n \in Nat /\ n + 1 \in Nat
  BY DEF Numbered
<1>1. ASSUME NEW i \in 1 .. n
      PROVE  EntryAt(M, Q, i) = EntryAt(L, R, i)
  <2>1. At(M, i) = At(L, i)
    <3>1. At(L, i) \in L /\ At(L, i).sequence = i
      BY EventIsAt
    <3>. QED  BY <3>1, EventIsAt
  <2>2. ReversedBy(Q, i) = ReversedBy(R, i)
    <3>1. \A link \in Q : link.reversal = i => link \in R
      BY <1>0
    <3>2. CASE \E link \in R : link.reversal = i
      <4>1. PICK link \in R : link.reversal = i
        BY <3>2
      <4>2. ReversedBy(R, link.reversal) = link.reversed
        BY <4>1, LinkIsAt
      <4>3. ReversedBy(Q, link.reversal) = link.reversed
        BY <4>1, LinkIsAt
      <4>. QED  BY <4>1, <4>2, <4>3
    <3>3. CASE ~ \E link \in R : link.reversal = i
      BY <3>1, <3>3 DEF ReversedBy
    <3>. QED  BY <3>2, <3>3
  <2>. QED  BY <2>1, <2>2 DEF EntryAt
<1>2. /\ Len(l) = n /\ \A i \in 1 .. n : l[i] = EntryAt(L, R, i)
  BY <1>0, LogIsSeq
<1>3. /\ p \in Seq(S) /\ Len(p) = n + 1
      /\ \A i \in 1 .. n + 1 : p[i] = EntryAt(M, Q, i)
  BY <1>0, LogIsSeq
<1>4. x \in S
  BY <1>0 DEF Entries
<1>5. l \in Seq(S)
  <2>1. \A i \in 1 .. n : EntryAt(L, R, i) \in S
    BY <1>0, <1>1 DEF Entries
  <2>2. l \in [1 .. n -> S]
    BY <2>1 DEF LogOf
  <2>. HIDE DEF l, S
  <2>. QED  BY <1>0, <2>2, SeqDef
<1>. HIDE DEF l, p, x, S
<1>6. /\ Append(l, x) \in Seq(S) /\ Len(Append(l, x)) = n + 1
      /\ \A i \in 1 .. n : Append(l, x)[i] = l[i]
      /\ Append(l, x)[n + 1] = x
  BY <1>2, <1>4, <1>5, AppendProperties
<1>7. \A i \in 1 .. n + 1 : p[i] = Append(l, x)[i]
  <2>1. p[n + 1] = Append(l, x)[n + 1]
    BY <1>0, <1>3, <1>6 DEF x
  <2>2. \A i \in 1 .. n : i \in 1 .. n + 1 /\ p[i] = Append(l, x)[i]
    BY <1>0, <1>1, <1>2, <1>3, <1>6
  <2>3. \A i \in 1 .. n + 1 : i \in 1 .. n \/ i = n + 1
    BY <1>0
  <2>. QED  BY <2>1, <2>2, <2>3
<1>8. p = Append(l, x)
  BY <1>3, <1>6, <1>7, SeqEqual
<1>. QED  BY <1>8 DEF p, l, x

\* One row of event_reversals for each reversal.
LinksAreUnique == \A k, link \in reversals : k.reversal = link.reversal => k = link

RefinementInvariant == AnswerInvariant /\ LinksAreUnique

LEMMA NumberedTables ==
    ASSUME RefinementInvariant
    PROVE  Numbered(ledger, reversals, match.sequence)
<1>1. /\ match.sequence \in Nat /\ GaplessLedger /\ LinksAreUnique /\ ReversalsAreSound
  BY DEF RefinementInvariant, AnswerInvariant, InductiveInvariant, TypeOK, Snapshots
<1>2. \A e \in ledger : e.sequence \in 1 .. match.sequence
  BY <1>1 DEF GaplessLedger
<1>3. \A link \in reversals : \E e, o \in ledger : /\ e.sequence = link.reversal
                                                   /\ o.sequence = link.reversed
  BY <1>1 DEF ReversalsAreSound
<1>. QED  BY <1>1, <1>2, <1>3 DEF Numbered, GaplessLedger, LinksAreUnique

LEMMA NumberedTablesNext ==
    ASSUME RefinementInvariant'
    PROVE  Numbered(ledger', reversals', match'.sequence)
<1>1. /\ match'.sequence \in Nat /\ GaplessLedger' /\ LinksAreUnique' /\ ReversalsAreSound'
  BY DEF RefinementInvariant, AnswerInvariant, InductiveInvariant, TypeOK, Snapshots
<1>2. \A e \in ledger' : e.sequence \in 1 .. match'.sequence
  BY <1>1 DEF GaplessLedger
<1>3. \A link \in reversals' : \E e, o \in ledger' : /\ e.sequence = link.reversal
                                                     /\ o.sequence = link.reversed
  BY <1>1 DEF ReversalsAreSound
<1>. QED  BY <1>1, <1>2, <1>3 DEF Numbered, GaplessLedger, LinksAreUnique

\* The log of the refinement mapping, before and after a step.
LEMMA LedgerLogIs ==
    ASSUME RefinementInvariant
    PROVE  LedgerLog = LogOf(ledger, reversals, match.sequence)
<1>1. Cardinality(ledger) = match.sequence
  BY NumberedTables, LedgerSize
<1>2. ASSUME NEW i \in 1 .. match.sequence
      PROVE  LogEntry(EventAt(i)) = EntryAt(ledger, reversals, i)
  <2>1. EventAt(i) = At(ledger, i)
    BY DEF EventAt, At
  <2>2. At(ledger, i).sequence = i
    BY NumberedTables, EventIsAt
  <2>. DEFINE e == EventAt(i)
  <2>3. LogEntry(e) = [client |-> e.client, action |-> e.action, side |-> e.side,
                       adjustment |-> e.adjustment,
                       reverses |-> ReversedBy(reversals, e.sequence)]
    BY DEF LogEntry, ReversedBy
  <2>. HIDE DEF e
  <2>. QED  BY <2>1, <2>2, <2>3 DEF EntryAt, e
<1>3. LedgerLog = [i \in 1 .. Cardinality(ledger) |-> LogEntry(EventAt(i))]
  BY DEF LedgerLog
<1>. QED  BY <1>1, <1>2, <1>3 DEF LogOf

LEMMA LedgerLogNextIs ==
    ASSUME RefinementInvariant'
    PROVE  LedgerLog' = LogOf(ledger', reversals', match'.sequence)
<1>1. Cardinality(ledger') = match'.sequence
  BY NumberedTablesNext, LedgerSize
<1>2. ASSUME NEW i \in 1 .. match'.sequence
      PROVE  LogEntry(EventAt(i))' = EntryAt(ledger', reversals', i)
  <2>1. EventAt(i)' = At(ledger', i)
    BY DEF EventAt, At
  <2>2. At(ledger', i).sequence = i
    BY NumberedTablesNext, EventIsAt
  <2>. DEFINE e == EventAt(i)
  <2>3. LogEntry(e)' = [client |-> e'.client, action |-> e'.action, side |-> e'.side,
                       adjustment |-> e'.adjustment,
                       reverses |-> ReversedBy(reversals', e'.sequence)]
    BY DEF LogEntry, ReversedBy
  <2>. HIDE DEF e
  <2>. QED  BY <2>1, <2>2, <2>3 DEF EntryAt, e
<1>3. LedgerLog' = [i \in 1 .. Cardinality(ledger') |-> LogEntry(EventAt(i))']
  BY DEF LedgerLog
<1>. QED  BY <1>1, <1>2, <1>3 DEF LogOf

LEMMA RefinementInvStep == RefinementInvariant /\ [Next]_vars => RefinementInvariant'
<1>. SUFFICES ASSUME RefinementInvariant, [Next]_vars
              PROVE  RefinementInvariant'
  OBVIOUS
<1>1. AnswerInvariant /\ AnswerInvariant' /\ InductiveInvariant /\ LinksAreUnique
  BY AnswerInvStep DEF RefinementInvariant, AnswerInvariant
<1>2. CASE \A w \in Workers : ~Commit(w)
  <2>1. reversals' = reversals
    BY <1>2, StoreStep
  <2>. QED  BY <1>1, <2>1 DEF RefinementInvariant, LinksAreUnique
<1>3. ASSUME NEW w \in Workers, Commit(w)
      PROVE  LinksAreUnique'
  <2>1. /\ DraftOK(draft[w]) /\ reversals' = reversals \union draft[w].reversal
        /\ \A link \in reversals : link.reversal # match.sequence + 1
    <3>1. \A link \in reversals : link.reversal \in 1 .. match.sequence
      BY NumberedTables DEF Numbered
    <3>2. match.sequence \in Nat
      BY NumberedTables DEF Numbered
    <3>. QED  BY <1>1, <1>3, <3>1, <3>2, CommitStep
  <2>2. CASE draft[w].reversal = {}
    BY <1>1, <2>1, <2>2 DEF LinksAreUnique
  <2>3. CASE draft[w].reversal # {}
    <3>1. ReversesEvent(draft[w])
      BY <2>1, <2>3 DEF DraftOK, StartsMatch, AppendsEvent
    <3>2. PICK k : draft[w].reversal = {k} /\ k.reversal = match.sequence + 1
      <4>1. PICK e \in draft[w].event, o \in ledger :
               /\ draft[w].reversal = {[reversal |-> e.sequence, reversed |-> o.sequence]}
               /\ e.sequence = match.sequence + 1
        BY <3>1 DEF ReversesEvent
      <4>2. [reversal |-> e.sequence, reversed |-> o.sequence].reversal = match.sequence + 1
        BY <4>1
      <4>. QED  BY <4>1, <4>2
    <3>. QED  BY <1>1, <2>1, <3>2 DEF LinksAreUnique
  <2>. QED  BY <2>2, <2>3
<1>. QED  BY <1>1, <1>2, <1>3 DEF RefinementInvariant

LEMMA RefinementInvInit == Init => RefinementInvariant
<1>1. Init => AnswerInvariant
  BY AnswerInvInit
<1>2. Init => LinksAreUnique
  BY DEF Init, LinksAreUnique
<1>. QED  BY <1>1, <1>2 DEF RefinementInvariant

\* What the abstract ledger sees of the tables.
LEMMA LogFacts ==
    ASSUME RefinementInvariant
    PROVE  /\ match.sequence \in Nat
           /\ Len(LedgerLog) = match.sequence
           /\ DOMAIN LedgerLog = 1 .. match.sequence
           /\ \A i \in 1 .. match.sequence :
                 LedgerLog[i] = EntryAt(ledger, reversals, i)
           /\ Ledger!Score(LedgerLog) = match.score
           /\ \A n \in 0 .. match.sequence :
                 Ledger!Done(LedgerLog, n) = [outcome |-> "ok", event |-> n,
                                              score |-> ScoreAfter(ledger, reversals, n)]
<1>1. LedgerLog = LogOf(ledger, reversals, match.sequence)
  BY LedgerLogIs
<1>2. Numbered(ledger, reversals, match.sequence) /\ match.sequence \in Nat
  BY NumberedTables DEF Numbered
<1>3. /\ Len(LedgerLog) = match.sequence /\ DOMAIN LedgerLog = 1 .. match.sequence
      /\ \A i \in 1 .. match.sequence : LedgerLog[i] = EntryAt(ledger, reversals, i)
  BY <1>1, <1>2, LogIsSeq
<1>4. match.score = ScoreAfter(ledger, reversals, match.sequence)
  <2>1. ScoreIsDerived
    BY DEF RefinementInvariant, AnswerInvariant, InductiveInvariant
  <2>. QED  BY <2>1, LedgerScoreIsAfter DEF ScoreIsDerived
<1>5. ASSUME NEW n \in 0 .. match.sequence
      PROVE  Ledger!Done(LedgerLog, n) = [outcome |-> "ok", event |-> n,
                                          score |-> ScoreAfter(ledger, reversals, n)]
  <2>1. SubSeq(LedgerLog, 1, n) = LogOf(ledger, reversals, n)
    BY <1>1, <1>2, LogPrefix
  <2>2. Ledger!Score(LogOf(ledger, reversals, n)) = ScoreAfter(ledger, reversals, n)
    BY <1>2, ScoreOfLog
  <2>. QED  BY <2>1, <2>2 DEF Ledger!Done
<1>6. Ledger!Score(LedgerLog) = match.score
  BY <1>1, <1>2, <1>4, ScoreOfLog
<1>. QED  BY <1>2, <1>3, <1>5, <1>6

LEMMA KnownClients ==
    ASSUME RefinementInvariant
    PROVE  \A client : Ledger!Known(client) <=> client \in ClientEvents
<1>. SUFFICES ASSUME NEW client
              PROVE  Ledger!Known(client) <=> client \in ClientEvents
  OBVIOUS
<1>1. /\ DOMAIN LedgerLog = 1 .. match.sequence
      /\ \A i \in 1 .. match.sequence : LedgerLog[i].client = At(ledger, i).client
  <2>1. /\ DOMAIN LedgerLog = 1 .. match.sequence
        /\ \A i \in 1 .. match.sequence : LedgerLog[i] = EntryAt(ledger, reversals, i)
    BY LogFacts
  <2>. QED  BY <2>1, EntryFields
<1>2. /\ \A i \in 1 .. match.sequence : At(ledger, i) \in ledger
      /\ \A e \in ledger : e.sequence \in 1 .. match.sequence /\ At(ledger, e.sequence) = e
  BY NumberedTables, EventIsAt
<1>3. Ledger!Known(client) <=> \E i \in 1 .. match.sequence : At(ledger, i).client = client
  BY <1>1 DEF Ledger!Known
<1>. QED  BY <1>2, <1>3 DEF ClientEvents

LEMMA ReversedPositions ==
    ASSUME RefinementInvariant, NEW n \in 1 .. match.sequence
    PROVE  (\E i \in DOMAIN LedgerLog : LedgerLog[i].reverses = n) <=> Reversed(n)
<1>1. /\ DOMAIN LedgerLog = 1 .. match.sequence
      /\ \A i \in 1 .. match.sequence : LedgerLog[i].reverses = ReversedBy(reversals, i)
  <2>1. /\ DOMAIN LedgerLog = 1 .. match.sequence
        /\ \A i \in 1 .. match.sequence : LedgerLog[i] = EntryAt(ledger, reversals, i)
    BY LogFacts
  <2>. QED  BY <2>1, EntryFields
<1>2. /\ \A link \in reversals : /\ link.reversal \in 1 .. match.sequence
                                 /\ ReversedBy(reversals, link.reversal) = link.reversed
      /\ \A i : ReversedBy(reversals, i) = 0
                  \/ \E link \in reversals : /\ link.reversal = i
                                             /\ link.reversed = ReversedBy(reversals, i)
  BY NumberedTables, LinkIsAt DEF Numbered
<1>3. n # 0
  BY LogFacts
<1>. QED  BY <1>1, <1>2, <1>3 DEF Reversed

-----------------------------------------------------------------------------
(* The steps that leave the abstract ledger alone, and those that only answer *)

AnswerOf(result) ==
    [outcome |-> result.outcome, event |-> result.event,
     score |-> IF result.snapshot = None THEN None ELSE result.snapshot.score]

LEMMA SameLog ==
    ASSUME UNCHANGED <<match, ledger, reversals>>
    PROVE  LedgerLog' = LedgerLog /\ (match.status = "LIVE")' = (match.status = "LIVE")
  BY DEF LedgerLog, LogEntry, EventAt

\* A step that touches neither the tables nor what workers serve and answer.
LEMMA Stutters ==
    ASSUME UNCHANGED <<match, ledger, reversals, req, reply>>
    PROVE  UNCHANGED Ledger!vars
<1>1. [w \in Workers |-> GivenAnswer(w)]' = [w \in Workers |-> GivenAnswer(w)]
  BY DEF GivenAnswer
<1>. QED  BY <1>1, SameLog DEF Ledger!vars

LEMMA Tells ==
    ASSUME TypeOK, NEW w \in Workers, NEW result, result # None,
           reply' = [reply EXCEPT ![w] = result], req' = req,
           req[w] # None, reply[w] = None
    PROVE  Ledger!Tell(w, AnswerOf(result))
<1>1. /\ [v \in Workers |-> GivenAnswer(v)][w] = None
      /\ [v \in Workers |-> GivenAnswer(v)]'
           = [[v \in Workers |-> GivenAnswer(v)] EXCEPT ![w] = AnswerOf(result)]
  <2>1. GivenAnswer(w) = None /\ GivenAnswer(w)' = AnswerOf(result)
    BY DEF GivenAnswer, AnswerOf, TypeOK
  <2>2. \A v \in Workers : v # w => GivenAnswer(v)' = GivenAnswer(v)
    BY DEF GivenAnswer, TypeOK
  <2>. QED  BY <2>1, <2>2
<1>. QED  BY <1>1 DEF Ledger!Tell

LEMMA ReceiveRefines ==
    ASSUME RefinementInvariant, NEW w \in Workers, NEW r \in Requests, Receive(w, r)
    PROVE  Ledger!Invoke(w, r)
<1>1. req[w] = None /\ req' = [req EXCEPT ![w] = r]
  BY DEF RefinementInvariant, AnswerInvariant, WorkerOK, Receive
<1>2. UNCHANGED <<match, ledger, reversals, reply>>
  BY DEF Receive, store
<1>3. [v \in Workers |-> GivenAnswer(v)]' = [v \in Workers |-> GivenAnswer(v)]
  BY <1>2 DEF GivenAnswer
<1>. QED  BY <1>1, <1>2, <1>3, SameLog DEF Ledger!Invoke

LEMMA EndRefines ==
    ASSUME RefinementInvariant, NEW w \in Workers, Reply(w) \/ Crash(w)
    PROVE  Ledger!Leave(w)
<1>1. TypeOK /\ req[w] # None
  BY DEF RefinementInvariant, AnswerInvariant, InductiveInvariant, WorkerOK, Reply, Crash
<1>2. /\ req' = [req EXCEPT ![w] = None] /\ reply' = [reply EXCEPT ![w] = None]
      /\ UNCHANGED <<match, ledger, reversals>>
  BY DEF Reply, Crash, EndSession, store
<1>3. [v \in Workers |-> GivenAnswer(v)]'
        = [[v \in Workers |-> GivenAnswer(v)] EXCEPT ![w] = None]
  <2>1. GivenAnswer(w)' = None
    BY <1>1, <1>2 DEF GivenAnswer, TypeOK
  <2>2. \A v \in Workers : v # w => GivenAnswer(v)' = GivenAnswer(v)
    BY <1>1, <1>2 DEF GivenAnswer, TypeOK
  <2>. QED  BY <2>1, <2>2
<1>. QED  BY <1>1, <1>2, <1>3, SameLog DEF Ledger!Leave

-----------------------------------------------------------------------------
(* Refusals are justified *)

LEMMA StartJustified ==
    ASSUME RefinementInvariant, NEW r \in Requests, r.op = "start",
           StartError(match) # "none"
    PROVE  Ledger!Justified(r, StartError(match))
<1>1. StartError(match) = "ErrMatchNotReady" /\ match.status = "LIVE"
  BY DEF StartError, RefinementInvariant, AnswerInvariant, TablesOK, StatusOK
<1>. QED  BY <1>1 DEF Ledger!Justified

\* A score that an adjustment of -1 would make negative is 0.
LEMMA UnderflowIsAtZero ==
    ASSUME RefinementInvariant, NEW side \in Sides, NEW d \in {-1, 0, 1},
           match.score[side] + d < 0
    PROVE  d < 0 /\ Ledger!Score(LedgerLog)[side] = 0
<1>1. match.score[side] \in Nat
  BY DEF RefinementInvariant, AnswerInvariant, InductiveInvariant, TypeOK, Snapshots
<1>2. match.score[side] = 0 /\ d < 0
  BY <1>1
<1>. QED  BY <1>2, LogFacts

LEMMA AppendJustified ==
    ASSUME RefinementInvariant, NEW r \in Requests, AppendError(match, r) # "none"
    PROVE  Ledger!Justified(r, AppendError(match, r))
<1>. DEFINE err == AppendError(match, r)
<1>0. /\ Len(LedgerLog) = match.sequence /\ Ledger!Score(LedgerLog) = match.score
      /\ \A c : Ledger!Known(c) <=> c \in ClientEvents
      /\ r.side \in Sides /\ ScoreDelta(r) \in {-1, 0, 1}
      /\ Ledger!ScoreDelta(r) = ScoreDelta(r)
  BY LogFacts, KnownClients, RequestFacts, ScoreDeltaType DEF Ledger!ScoreDelta, ScoreDelta
<1>1. \/ err = "ErrInvalidMatchInput" /\ ~r.rostered
      \/ err = "ErrMatchNotLive" /\ match.status # "LIVE"
      \/ err = "ErrSequenceConflict" /\ match.sequence # r.expected
      \/ err = "ErrScoreUnderflow" /\ match.score[r.side] + ScoreDelta(r) < 0
      \/ err = "ErrEventAlreadyExists" /\ r.client \in ClientEvents
      \/ err = "internal"
  BY DEF AppendError, ApplyError
<1>. SUFFICES Ledger!Justified(r, err)
  OBVIOUS
<1>. HIDE DEF err
<1>2. CASE err = "ErrInvalidMatchInput" /\ ~r.rostered
  BY <1>2 DEF Ledger!Justified
<1>3. CASE err = "ErrMatchNotLive" /\ match.status # "LIVE"
  BY <1>3 DEF Ledger!Justified
<1>4. CASE err = "ErrSequenceConflict" /\ match.sequence # r.expected
  BY <1>0, <1>4 DEF Ledger!Justified
<1>5. CASE err = "ErrScoreUnderflow" /\ match.score[r.side] + ScoreDelta(r) < 0
  <2>1. ScoreDelta(r) < 0 /\ Ledger!Score(LedgerLog)[r.side] = 0
    BY <1>0, <1>5, UnderflowIsAtZero
  <2>. QED  BY <1>0, <1>5, <2>1 DEF Ledger!Justified
<1>6. CASE err = "ErrEventAlreadyExists" /\ r.client \in ClientEvents
  BY <1>0, <1>6 DEF Ledger!Justified
<1>7. CASE err = "internal"
  <2>1. ~r.storable \/ \E s \in Sides : match.score[s] = MaxScore
    BY <1>7, AppendInternal DEF RefinementInvariant, err
  <2>. QED  BY <1>0, <1>7, <2>1 DEF Ledger!Justified, Ledger!Sides, Sides
<1>. QED  BY <1>1, <1>2, <1>3, <1>4, <1>5, <1>6, <1>7

LEMMA ReversalJustified ==
    ASSUME RefinementInvariant, NEW r \in Requests, ReversalError(match, r) # "none"
    PROVE  Ledger!Justified(r, ReversalError(match, r))
<1>. DEFINE err == ReversalError(match, r)
            o == EventAt(r.target)
            Found == \E e \in ledger : e.sequence = r.target
<1>0. /\ Len(LedgerLog) = match.sequence /\ Ledger!Score(LedgerLog) = match.score
      /\ DOMAIN LedgerLog = 1 .. match.sequence
      /\ \A c : Ledger!Known(c) <=> c \in ClientEvents
      /\ match.sequence \in Nat
  BY LogFacts, KnownClients
<1>1. \/ err = "ErrSequenceConflict" /\ match.sequence # r.expected
      \/ err = "ErrEventNotFound" /\ ~Found
      \/ err = "ErrEventAlreadyReversed" /\ Found /\ Reversed(r.target)
      \/ err = "ErrMatchNotLive" /\ match.status # "LIVE"
      \/ err = "ErrEventNotReversible" /\ Found /\ ScoreDelta(o) = 0
      \/ err = "ErrReversalUnderflow" /\ Found /\ match.score[o.side] < ScoreDelta(o)
      \/ err = "internal"
  BY DEF ReversalError, ReverseError
<1>. SUFFICES Ledger!Justified(r, err)
  OBVIOUS
<1>. HIDE DEF err, o
<1>2. CASE err = "ErrSequenceConflict" /\ match.sequence # r.expected
  BY <1>0, <1>2 DEF Ledger!Justified
<1>3. Found <=> r.target \in DOMAIN LedgerLog
  <2>1. /\ \A i \in 1 .. match.sequence : At(ledger, i) \in ledger /\ At(ledger, i).sequence = i
        /\ \A e \in ledger : e.sequence \in 1 .. match.sequence
    BY NumberedTables, EventIsAt
  <2>. QED  BY <1>0, <2>1
<1>4. ASSUME Found
      PROVE  /\ LedgerLog[r.target].side = o.side /\ o.side \in Sides
             /\ Ledger!ScoreDelta(LedgerLog[r.target]) = ScoreDelta(o)
             /\ ScoreDelta(o) \in {-1, 0, 1}
  <2>1. o = At(ledger, r.target)
    BY DEF o, EventAt, At
  <2>2. LedgerLog[r.target] = EntryAt(ledger, reversals, r.target)
    BY <1>0, <1>3, <1>4, LogFacts
  <2>3. Ledger!ScoreDelta(LedgerLog[r.target]) = ScoreDelta(LedgerLog[r.target])
    BY DEF Ledger!ScoreDelta, ScoreDelta
  <2>4. o \in Events
    <3>1. o \in ledger
      BY <1>4 DEF o, EventAt
    <3>. QED  BY <3>1 DEF RefinementInvariant, AnswerInvariant, InductiveInvariant, TypeOK
  <2>5. ScoreDelta(o) \in {-1, 0, 1} /\ o.side \in Sides
    BY <2>4, ScoreDeltaType DEF Events
  <2>. QED  BY <2>1, <2>2, <2>3, <2>5, EntryFields
<1>5. CASE err = "ErrEventNotFound" /\ ~Found
  BY <1>3, <1>5 DEF Ledger!Justified
<1>6. CASE err = "ErrEventAlreadyReversed" /\ Found /\ Reversed(r.target)
  <2>1. \E i \in DOMAIN LedgerLog : LedgerLog[i].reverses = r.target
    BY <1>0, <1>3, <1>6, ReversedPositions
  <2>. QED  BY <1>6, <2>1 DEF Ledger!Justified
<1>7. CASE err = "ErrMatchNotLive" /\ match.status # "LIVE"
  BY <1>7 DEF Ledger!Justified
<1>8. CASE err = "ErrEventNotReversible" /\ Found /\ ScoreDelta(o) = 0
  BY <1>3, <1>4, <1>8 DEF Ledger!Justified
<1>9. CASE err = "ErrReversalUnderflow" /\ Found /\ match.score[o.side] < ScoreDelta(o)
  <2>1. Ledger!Score(LedgerLog)[o.side] = 0
    <3>1. match.score[o.side] \in Nat
      BY <1>4, <1>9 DEF RefinementInvariant, AnswerInvariant, InductiveInvariant, TypeOK, Snapshots
    <3>. QED  BY <1>0, <1>4, <1>9, <3>1
  <2>. QED  BY <1>3, <1>4, <1>9, <2>1 DEF Ledger!Justified
<1>10. CASE err = "internal"
  <2>1. ~r.storable \/ r.client \in ClientEvents \/ \E s \in Sides : match.score[s] = MaxScore
    BY <1>10, ReversalInternal DEF RefinementInvariant, err
  <2>. QED  BY <1>0, <1>10, <2>1 DEF Ledger!Justified, Ledger!Sides, Sides
<1>. QED  BY <1>1, <1>2, <1>5, <1>6, <1>7, <1>8, <1>9, <1>10

LEMMA Refuses ==
    ASSUME RefinementInvariant, NEW w \in Workers, NEW err \in Outcomes \ {"ok"},
           pc[w] \notin {"idle", "reply"}, Finish(w, Failure(err)), UNCHANGED store,
           Ledger!Justified(req[w], err)
    PROVE  Ledger!Refuse(w)
<1>1. TypeOK /\ req[w] # None /\ reply[w] = None
  BY DEF RefinementInvariant, AnswerInvariant, InductiveInvariant, WorkerOK
<1>2. /\ UNCHANGED <<match, ledger, reversals>> /\ req' = req
      /\ reply' = [reply EXCEPT ![w] = Failure(err)]
  BY DEF Finish, store
<1>3. Failure(err) # None
  BY ResultTypes, NoneAssumption
<1>4. AnswerOf(Failure(err)) = [outcome |-> err, event |-> 0, score |-> None]
  BY DEF AnswerOf, Failure
<1>5. Ledger!Tell(w, [outcome |-> err, event |-> 0, score |-> None])
  BY <1>1, <1>2, <1>3, <1>4, Tells
<1>. QED  BY <1>1, <1>2, <1>5, SameLog DEF Ledger!Refuse, Outcomes

LEMMA WriteRefines ==
    ASSUME RefinementInvariant, NEW w \in Workers,
           StartWrite(w) \/ AppendWrite(w) \/ ReverseWrite(w)
    PROVE  Ledger!Refuse(w) \/ UNCHANGED Ledger!vars
<1>0. /\ pc[w] = "write" /\ InductiveInvariant
  BY DEF RefinementInvariant, AnswerInvariant, StartWrite, AppendWrite, ReverseWrite
<1>1. req[w] \in Requests /\ read[w] = match
  BY <1>0, WriterFacts
<1>2. ASSUME NEW next, NEW event, NEW link, NEW result,
             Prepare(w, next, event, link, result)
      PROVE  UNCHANGED Ledger!vars
  <2>1. UNCHANGED <<match, ledger, reversals, req, reply>>
    BY <1>2 DEF Prepare, store
  <2>. QED  BY <2>1, Stutters
<1>3. ASSUME NEW err \in Outcomes \ {"ok"}, Rollback(w, err), Ledger!Justified(req[w], err)
      PROVE  Ledger!Refuse(w)
  BY <1>0, <1>3, Refuses DEF Rollback
<1>4. CASE StartWrite(w)
  <2>. DEFINE err == StartError(match)
  <2>1. \/ err # "none" /\ Rollback(w, err)
        \/ UNCHANGED Ledger!vars
    BY <1>1, <1>2, <1>4 DEF StartWrite
  <2>2. CASE err # "none" /\ Rollback(w, err)
    <3>1. req[w].op = "start"
      BY <1>4 DEF StartWrite
    <3>2. err \in Outcomes \ {"ok"} /\ Ledger!Justified(req[w], err)
      BY <1>1, <2>2, <3>1, ErrorTypes, ErrorsAreNoSuccess, StartJustified
    <3>. QED  BY <1>3, <2>2, <3>2
  <2>. QED  BY <2>1, <2>2
<1>5. CASE AppendWrite(w)
  <2>. DEFINE err == AppendError(match, req[w])
  <2>1. \/ err # "none" /\ Rollback(w, err)
        \/ UNCHANGED Ledger!vars
    BY <1>1, <1>2, <1>5 DEF AppendWrite
  <2>2. CASE err # "none" /\ Rollback(w, err)
    <3>1. err \in Outcomes \ {"ok"} /\ Ledger!Justified(req[w], err)
      BY <1>1, <2>2, ErrorTypes, ErrorsAreNoSuccess, AppendJustified
    <3>. QED  BY <1>3, <2>2, <3>1
  <2>. QED  BY <2>1, <2>2
<1>6. CASE ReverseWrite(w)
  <2>. DEFINE err == ReversalError(match, req[w])
  <2>1. \/ err # "none" /\ Rollback(w, err)
        \/ UNCHANGED Ledger!vars
    BY <1>1, <1>2, <1>6 DEF ReverseWrite
  <2>2. CASE err # "none" /\ Rollback(w, err)
    <3>1. err \in Outcomes \ {"ok"} /\ Ledger!Justified(req[w], err)
      BY <1>1, <2>2, ErrorTypes, ErrorsAreNoSuccess, ReversalJustified
    <3>. QED  BY <1>3, <2>2, <3>1
  <2>. QED  BY <2>1, <2>2
<1>. QED  BY <1>4, <1>5, <1>6

-----------------------------------------------------------------------------
(* Replays and commits *)

\* A success as the abstract ledger tells it.
LEMMA DoneIsAnswer ==
    ASSUME NEW m, NEW L, NEW R, Numbered(L, R, m.sequence),
           NEW r, NEW result, result.outcome = "ok", Answers(m, L, R, r, result)
    PROVE  /\ result.event \in 0 .. m.sequence
           /\ AnswerOf(result) = Ledger!Done(LogOf(L, R, m.sequence), result.event)
<1>0. m.sequence \in Nat /\ \A e \in L : e.sequence \in 1 .. m.sequence
  BY EventIsAt DEF Numbered
<1>1. /\ result.event \in 0 .. m.sequence
      /\ result.snapshot.score = ScoreAfter(L, R, result.event)
  BY <1>0 DEF Answers
<1>2. result.snapshot # None
  BY NoneAssumption DEF Answers
<1>3. /\ SubSeq(LogOf(L, R, m.sequence), 1, result.event) = LogOf(L, R, result.event)
      /\ Ledger!Score(LogOf(L, R, result.event)) = ScoreAfter(L, R, result.event)
  BY <1>0, <1>1, LogPrefix, ScoreOfLog
<1>. QED  BY <1>1, <1>2, <1>3 DEF AnswerOf, Ledger!Done

LEMMA ReplayRefines ==
    ASSUME RefinementInvariant, NEW w \in Workers, Replay(w)
    PROVE  Ledger!AnswerAgain(w) \/ Ledger!Refuse(w)
<1>. DEFINE k == RecordKey(req[w])
            record == records[k]
<1>0. /\ AnswerInvariant /\ TypeOK /\ pc[w] = "replay" /\ req[w] \in Requests
      /\ k \in RecordKeys
  BY RequestFacts
     DEF RefinementInvariant, AnswerInvariant, InductiveInvariant, SessionOK, Replay
<1>1. record # None /\ record \in Records /\ RecordOK(k) /\ req[w] # None /\ reply[w] = None
  BY <1>0 DEF AnswerInvariant, WorkerOK, TypeOK
<1>2. PICK q \in Requests : /\ RecordKey(q) = k
                            /\ record.hash = RequestHash(q)
                            /\ record.result.outcome = "ok"
                            /\ Answers(match, ledger, reversals, q, record.result)
  BY <1>1 DEF RecordOK
<1>. HIDE DEF record
<1>3. IF req[w].op = "start" THEN match.status = "LIVE"
      ELSE \E e \in ledger : e.client = req[w].client
  <2>1. q.op = req[w].op /\ (q.op # "start" => q.client = req[w].client)
    BY <1>2 DEF RecordKey
  <2>. QED  BY <1>2, <2>1 DEF Answers
<1>4. CASE record.hash # RequestHash(req[w])
  <2>1. Finish(w, Failure("ErrIdempotencyConflict")) /\ UNCHANGED store
    BY <1>1, <1>4 DEF Replay, record
  <2>2. IF req[w].op = "start" THEN match.status = "LIVE" ELSE Ledger!Known(req[w].client)
    BY <1>3, KnownClients DEF ClientEvents
  <2>3. Ledger!Justified(req[w], "ErrIdempotencyConflict")
    BY <2>2 DEF Ledger!Justified
  <2>4. "ErrIdempotencyConflict" \in Outcomes \ {"ok"}
    BY DEF Outcomes
  <2>. QED  BY <1>0, <2>1, <2>3, <2>4, Refuses
<1>5. CASE record.hash = RequestHash(req[w])
  <2>. DEFINE result == record.result
  <2>1. /\ result \in Results /\ result.outcome = "ok"
        /\ Answers(match, ledger, reversals, req[w], result)
    BY <1>0, <1>1, <1>2, <1>5, SameDigest DEF Records
  <2>2. Finish(w, result) /\ UNCHANGED store
    BY <1>1, <1>5 DEF Replay, record
  <2>. HIDE DEF result
  <2>3. /\ result.event \in 0 .. match.sequence
        /\ AnswerOf(result) = Ledger!Done(LedgerLog, result.event)
    BY <2>1, NumberedTables, LedgerLogIs, DoneIsAnswer
  <2>4. Ledger!Tell(w, AnswerOf(result))
    <3>1. req' = req /\ reply' = [reply EXCEPT ![w] = result]
      BY <2>2 DEF Finish
    <3>2. result # None
      BY <2>1, NoneAssumption
    <3>. QED  BY <1>0, <1>1, <3>1, <3>2, Tells
  <2>5. LedgerLog' = LedgerLog /\ (match.status = "LIVE")' = (match.status = "LIVE")
    BY <2>2, SameLog DEF store
  <2>6. CASE req[w].op = "start"
    <3>1. match.status = "LIVE" /\ result.event = 0
      BY <2>1, <2>6 DEF Answers
    <3>. QED  BY <1>1, <2>3, <2>4, <2>5, <2>6, <3>1 DEF Ledger!AnswerAgain
  <2>7. CASE req[w].op # "start"
    <3>1. PICK e \in ledger : e.client = req[w].client /\ e.sequence = result.event
      BY <2>1, <2>7 DEF Answers
    <3>2. result.event \in 1 .. match.sequence /\ At(ledger, result.event) = e
      BY <3>1, NumberedTables, EventIsAt
    <3>3. result.event \in DOMAIN LedgerLog /\ LedgerLog[result.event].client = req[w].client
      BY <3>1, <3>2, LogFacts, EntryFields
    <3>. QED  BY <1>1, <2>3, <2>4, <2>5, <2>7, <3>3 DEF Ledger!AnswerAgain
  <2>. QED  BY <2>6, <2>7
<1>. QED  BY <1>4, <1>5

\* What a commit tells its client, in the state it leads to.
LEMMA CommitTells ==
    ASSUME RefinementInvariant, NEW w \in Workers, Commit(w)
    PROVE  /\ RefinementInvariant' /\ AnswerInvariant /\ TypeOK
           /\ req[w] # None /\ req[w] \in Requests
           /\ Ledger!Tell(w, Ledger!Done(LedgerLog', draft[w].result.event))
<1>1. RefinementInvariant'
  <2>1. Next
    BY DEF Next, Serve
  <2>. QED  BY <2>1, RefinementInvStep
<1>2. /\ AnswerInvariant /\ TypeOK /\ req[w] # None /\ reply[w] = None
  BY DEF RefinementInvariant, AnswerInvariant, InductiveInvariant, WorkerOK, Commit
<1>3. /\ Answers(match', ledger', reversals', req[w], draft[w].result)
      /\ draft[w].result.outcome = "ok" /\ draft[w].result # None
  BY <1>2, CommitAnswers, NoneAssumption
<1>4. AnswerOf(draft[w].result) = Ledger!Done(LedgerLog', draft[w].result.event)
  <2>1. Numbered(ledger', reversals', match'.sequence)
    BY <1>1, NumberedTablesNext
  <2>2. LedgerLog' = LogOf(ledger', reversals', match'.sequence)
    BY <1>1, LedgerLogNextIs
  <2>. QED  BY <1>3, <2>1, <2>2, DoneIsAnswer
<1>5. Ledger!Tell(w, AnswerOf(draft[w].result))
  <2>1. req' = req /\ reply' = [reply EXCEPT ![w] = draft[w].result]
    BY DEF Commit, Finish
  <2>. QED  BY <1>2, <1>3, <2>1, Tells
<1>. QED  BY <1>1, <1>2, <1>4, <1>5, CommitWritten

LEMMA StartRefines ==
    ASSUME RefinementInvariant, NEW w \in Workers, Commit(w), req[w].op = "start"
    PROVE  Ledger!GoLive(w)
<1>1. /\ RefinementInvariant' /\ AnswerInvariant
      /\ req[w] # None
      /\ Ledger!Tell(w, Ledger!Done(LedgerLog', draft[w].result.event))
  BY CommitTells
<1>2. /\ ledger' = ledger /\ reversals' = reversals /\ match'.sequence = match.sequence
      /\ draft[w].result.event = 0
  BY <1>1, CommittedStart DEF Success
<1>3. match.status = "READY" /\ match'.status = "LIVE"
  BY <1>1, CommitWritten DEF WrittenFor, StartWritten
<1>4. LedgerLog' = LedgerLog
  BY <1>1, <1>2, LedgerLogIs, LedgerLogNextIs
<1>. QED  BY <1>1, <1>2, <1>3, <1>4 DEF Ledger!GoLive

\* The event of a commit is added to the log as the abstract ledger adds it.
LEMMA EventRefines ==
    ASSUME RefinementInvariant, NEW w \in Workers, Commit(w), req[w].op # "start"
    PROVE  LET entry == EntryAt(ledger', reversals', match.sequence + 1)
           IN  entry.side \in Sides => Ledger!Add(w, entry)
<1>. DEFINE n == match.sequence
            entry == EntryAt(ledger', reversals', n + 1)
<1>. SUFFICES ASSUME entry.side \in Sides
              PROVE  Ledger!Add(w, entry)
  OBVIOUS
<1>1. /\ RefinementInvariant' /\ AnswerInvariant /\ InductiveInvariant
      /\ Ledger!Tell(w, Ledger!Done(LedgerLog', draft[w].result.event))
  BY CommitTells DEF AnswerInvariant
<1>2. /\ match.status = "LIVE" /\ n = req[w].expected /\ n \in Nat
      /\ \A f \in ledger : f.client # req[w].client
      /\ match'.sequence = n + 1
      /\ match' \in Snapshots /\ match'.status = "LIVE"
      /\ \A s \in Sides : match'.score[s] <= MaxScore
      /\ draft[w].result.event = n + 1
  <2>1. draft[w].result = Success(n + 1, match')
    BY <1>1, CommittedEvent
  <2>2. Success(n + 1, match').event = n + 1
    BY DEF Success
  <2>. QED  BY <1>1, <2>1, <2>2, CommittedEvent
<1>3. Numbered(ledger, reversals, n) /\ Numbered(ledger', reversals', n + 1)
  BY <1>1, <1>2, NumberedTables, NumberedTablesNext
<1>4. /\ LedgerLog = LogOf(ledger, reversals, n)
      /\ LedgerLog' = LogOf(ledger', reversals', n + 1)
  BY <1>1, <1>2, LedgerLogIs, LedgerLogNextIs
<1>5. LedgerLog' = Append(LedgerLog, entry)
  <2>1. /\ ledger \subseteq ledger' /\ reversals \subseteq reversals'
        /\ \A link \in reversals' \ reversals : link.reversal = n + 1
    BY <1>1, CommitBringsLater
  <2>. QED  BY <1>3, <1>4, <2>1, LogGrows
<1>6. Len(LedgerLog) = n /\ Len(LedgerLog') = n + 1
  BY <1>2, <1>4, LogIsSeq
<1>7. Ledger!Score(LedgerLog')[entry.side] \in 0 .. MaxScore
  <2>1. Ledger!Score(LedgerLog') = ScoreAfter(ledger', reversals', n + 1)
    BY <1>2, <1>3, <1>4, ScoreOfLog
  <2>2. match'.score = ScoreAfter(ledger', reversals', n + 1)
    <3>1. ScoreIsDerived'
      BY <1>1 DEF RefinementInvariant, AnswerInvariant, InductiveInvariant
    <3>. QED  BY <1>2, <3>1, LedgerScoreIsAfter DEF ScoreIsDerived
  <2>3. match'.score[entry.side] \in Nat /\ match'.score[entry.side] <= MaxScore
    BY <1>2 DEF Snapshots
  <2>. QED  BY <2>1, <2>2, <2>3, MaxScoreAssumption
<1>8. ~Ledger!Known(req[w].client)
  BY <1>2, KnownClients DEF ClientEvents
<1>. HIDE DEF n, entry
<1>. QED  BY <1>1, <1>2, <1>5, <1>6, <1>7, <1>8 DEF Ledger!Add, n

LEMMA AppendRefines ==
    ASSUME RefinementInvariant, NEW w \in Workers, Commit(w), req[w].op = "append"
    PROVE  Ledger!Record(w)
<1>. DEFINE n == match.sequence
            r == req[w]
            entry == EntryAt(ledger', reversals', n + 1)
            e == NewEvent(match, r, r.action, r)
<1>1. /\ RefinementInvariant' /\ AnswerInvariant /\ r \in Requests /\ r # None
      /\ WrittenFor(match, ledger, reversals, r, draft[w])
      /\ ledger' = ledger \union draft[w].event
      /\ reversals' = reversals \union draft[w].reversal
  BY CommitTells, CommitWritten
<1>2. AppendWritten(match, ledger, r, draft[w])
  BY <1>1 DEF WrittenFor
<1>3. e \in ledger' /\ reversals' = reversals /\ r.rostered
  BY <1>1, <1>2 DEF AppendWritten, EventWritten
<1>4. /\ e.sequence = n + 1 /\ e.client = r.client /\ e.action = r.action
      /\ e.side = r.side /\ e.adjustment = r.adjustment
  BY DEF NewEvent
<1>5. Numbered(ledger, reversals, n) /\ n \in Nat
  BY NumberedTables DEF Numbered
<1>6. At(ledger', n + 1) = e
  <2>1. match'.sequence = n + 1
    BY <1>1, CommittedEvent
  <2>. HIDE DEF e
  <2>. QED  BY <1>1, <1>3, <1>4, <2>1, NumberedTablesNext, EventIsAt
<1>7. ReversedBy(reversals', n + 1) = 0
  <2>1. \A link \in reversals : link.reversal # n + 1
    BY <1>5 DEF Numbered
  <2>. QED  BY <1>3, <2>1 DEF ReversedBy
<1>8. entry = [client |-> r.client, action |-> r.action, side |-> r.side,
               adjustment |-> r.adjustment, reverses |-> 0]
  <2>. HIDE DEF e
  <2>. QED  BY <1>4, <1>6, <1>7 DEF EntryAt
<1>9. Ledger!Add(w, entry)
  <2>1. entry.side \in Sides
    BY <1>1, <1>8, RequestFacts
  <2>. HIDE DEF entry
  <2>. QED  BY <2>1, EventRefines DEF entry
<1>. HIDE DEF entry
<1>. QED  BY <1>1, <1>3, <1>8, <1>9 DEF Ledger!Record

LEMMA ReverseRefines ==
    ASSUME RefinementInvariant, NEW w \in Workers, Commit(w), req[w].op = "reverse"
    PROVE  Ledger!Undo(w)
<1>. DEFINE n == match.sequence
            r == req[w]
            entry == EntryAt(ledger', reversals', n + 1)
            link == [reversal |-> n + 1, reversed |-> r.target]
<1>1. /\ RefinementInvariant' /\ AnswerInvariant /\ r \in Requests /\ r # None
      /\ WrittenFor(match, ledger, reversals, r, draft[w])
      /\ ledger' = ledger \union draft[w].event
      /\ reversals' = reversals \union draft[w].reversal
  BY CommitTells, CommitWritten
<1>2. ReverseWritten(match, ledger, reversals, r, draft[w])
  BY <1>1 DEF WrittenFor
<1>3. PICK o \in ledger :
         /\ EventWritten(match, ledger, r, draft[w], NewEvent(match, r, "EVENT_REVERSAL", o))
         /\ o.sequence = r.target /\ ScoreDelta(o) # 0
         /\ \A l \in reversals : l.reversed # r.target
         /\ draft[w].reversal = {link}
  BY <1>2 DEF ReverseWritten
<1>. DEFINE e == NewEvent(match, r, "EVENT_REVERSAL", o)
<1>4. /\ e.sequence = n + 1 /\ e.client = r.client /\ e.action = "EVENT_REVERSAL"
      /\ e.side = o.side /\ e.adjustment = o.adjustment
  BY DEF NewEvent
<1>5. e \in ledger' /\ link \in reversals'
  BY <1>1, <1>3 DEF EventWritten
<1>6. Numbered(ledger, reversals, n) /\ n \in Nat /\ Numbered(ledger', reversals', n + 1)
  <2>1. match'.sequence = n + 1
    BY <1>1, CommittedEvent
  <2>. QED  BY <1>1, <2>1, NumberedTables, NumberedTablesNext DEF Numbered
<1>. HIDE DEF e
<1>7. At(ledger', n + 1) = e
  BY <1>4, <1>5, <1>6, EventIsAt
<1>8. ReversedBy(reversals', n + 1) = r.target
  <2>1. link.reversal = n + 1 /\ link.reversed = r.target
    OBVIOUS
  <2>. HIDE DEF link
  <2>. QED  BY <1>5, <1>6, <2>1, LinkIsAt
<1>9. r.target \in 1 .. n /\ At(ledger, r.target) = o
  BY <1>3, <1>6, EventIsAt
<1>10. /\ r.target \in DOMAIN LedgerLog
       /\ LedgerLog[r.target].side = o.side /\ LedgerLog[r.target].adjustment = o.adjustment
       /\ Ledger!ScoreDelta(LedgerLog[r.target]) # 0
  <2>1. LedgerLog[r.target] = EntryAt(ledger, reversals, r.target) /\ r.target \in DOMAIN LedgerLog
    BY <1>9, LogFacts
  <2>2. Ledger!ScoreDelta(LedgerLog[r.target]) = ScoreDelta(LedgerLog[r.target])
    BY DEF Ledger!ScoreDelta, ScoreDelta
  <2>. QED  BY <1>3, <1>9, <2>1, <2>2, EntryFields
<1>11. \A i \in DOMAIN LedgerLog : LedgerLog[i].reverses # r.target
  BY <1>3, <1>9, ReversedPositions DEF Reversed
<1>12. entry = [client |-> r.client, action |-> "EVENT_REVERSAL",
                side |-> LedgerLog[r.target].side,
                adjustment |-> LedgerLog[r.target].adjustment, reverses |-> r.target]
  <2>1. /\ At(ledger', n + 1).client = r.client
        /\ At(ledger', n + 1).action = "EVENT_REVERSAL"
        /\ At(ledger', n + 1).side = LedgerLog[r.target].side
        /\ At(ledger', n + 1).adjustment = LedgerLog[r.target].adjustment
    BY <1>4, <1>7, <1>10
  <2>. QED  BY <1>8, <2>1 DEF EntryAt
<1>13. Ledger!Add(w, entry)
  <2>1. o \in Events
    BY <1>1 DEF AnswerInvariant, InductiveInvariant, TypeOK
  <2>2. entry.side \in Sides
    BY <1>10, <1>12, <2>1 DEF Events
  <2>. HIDE DEF entry
  <2>. QED  BY <2>2, EventRefines DEF entry
<1>. HIDE DEF entry, link
<1>. QED  BY <1>1, <1>10, <1>11, <1>12, <1>13 DEF Ledger!Undo

-----------------------------------------------------------------------------
(* The refinement *)

LEMMA InitRefines == Init => Ledger!Init
<1>. SUFFICES ASSUME Init PROVE Ledger!Init
  OBVIOUS
<1>1. RefinementInvariant
  BY RefinementInvInit
<1>2. LedgerLog = <<>>
  <2>1. Len(LedgerLog) = 0 /\ LedgerLog = LogOf(ledger, reversals, 0)
    BY <1>1, LogFacts, LedgerLogIs DEF Init
  <2>2. LedgerLog \in Seq(Entries(ledger, reversals, 0))
    BY <2>1, LogIsSeq
  <2>. QED  BY <2>1, <2>2, EmptySeq
<1>3. [w \in Workers |-> GivenAnswer(w)] = [w \in Workers |-> None]
  BY DEF Init, GivenAnswer
<1>4. req = [w \in Workers |-> None] /\ match.status # "LIVE"
  BY DEF Init
<1>. QED  BY <1>2, <1>3, <1>4 DEF Ledger!Init

LEMMA StepRefines == RefinementInvariant /\ [Next]_vars => [Ledger!Next]_(Ledger!vars)
<1>. SUFFICES ASSUME RefinementInvariant, [Next]_vars
              PROVE  Ledger!Next \/ UNCHANGED Ledger!vars
  OBVIOUS
<1>1. ASSUME NEW w \in Workers, NEW r \in Requests, Receive(w, r)
      PROVE  Ledger!Next
  BY <1>1, ReceiveRefines DEF Ledger!Next
<1>2. ASSUME NEW w \in Workers, Reserve(w) \/ LockMatch(w)
      PROVE  UNCHANGED Ledger!vars
  <2>1. UNCHANGED <<match, ledger, reversals, req, reply>>
    BY <1>2 DEF Reserve, LockMatch, store
  <2>. QED  BY <2>1, Stutters
<1>3. ASSUME NEW w \in Workers, Replay(w)
      PROVE  Ledger!Next
  BY <1>3, ReplayRefines DEF Ledger!Next
<1>4. ASSUME NEW w \in Workers, StartWrite(w) \/ AppendWrite(w) \/ ReverseWrite(w)
      PROVE  Ledger!Next \/ UNCHANGED Ledger!vars
  BY <1>4, WriteRefines DEF Ledger!Next
<1>5. ASSUME NEW w \in Workers, Commit(w)
      PROVE  Ledger!Next
  <2>1. req[w].op \in {"start", "append", "reverse"}
    BY <1>5, CommitTells, RequestFacts DEF Ops
  <2>. QED  BY <1>5, <2>1, StartRefines, AppendRefines, ReverseRefines DEF Ledger!Next
<1>6. ASSUME NEW w \in Workers, Reply(w) \/ Crash(w)
      PROVE  Ledger!Next
  BY <1>6, EndRefines DEF Ledger!Next
<1>7. ASSUME NEW k \in RecordKeys, Expire(k)
      PROVE  UNCHANGED Ledger!vars
  <2>1. UNCHANGED <<match, ledger, reversals, req, reply>>
    BY <1>7 DEF Expire, session
  <2>. QED  BY <2>1, Stutters
<1>8. ASSUME UNCHANGED vars
      PROVE  UNCHANGED Ledger!vars
  <2>1. UNCHANGED <<match, ledger, reversals, req, reply>>
    BY <1>8 DEF vars
  <2>. QED  BY <2>1, Stutters
<1>. QED  BY <1>1, <1>2, <1>3, <1>4, <1>5, <1>6, <1>7, <1>8 DEF Next, Serve

\* The write path implements the linearizable ledger: every call that is answered
\* had its effect exactly once, at one instant, or was refused for a reason that
\* held when it was refused.
THEOREM StoreIsLinearizable == Spec => LinearizableLedger
<1>1. RefinementInvariant /\ [Next]_vars => RefinementInvariant'
  BY RefinementInvStep
<1>2. Init => RefinementInvariant /\ Ledger!Init
  BY RefinementInvInit, InitRefines
<1>3. RefinementInvariant /\ [Next]_vars => [Ledger!Next]_(Ledger!vars)
  BY StepRefines
<1>. QED  BY <1>1, <1>2, <1>3, PTL DEF Spec, LinearizableLedger, Ledger!Spec

=============================================================================
