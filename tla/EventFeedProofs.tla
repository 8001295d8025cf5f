--------------------------- MODULE EventFeedProofs ---------------------------
(***************************************************************************)
(* Proofs about EventFeed for any number of devices and requests under way *)
(* and a ledger of any length.                                             *)
(***************************************************************************)
EXTENDS EventFeed, MatchDomainProofs, SequenceTheorems, FiniteSetTheorems, TLAPS

\* A sequence of events is the ledger's from event first on.
SegmentOf(log, events, first) ==
    /\ events \in Seq(Events)
    /\ first - 1 + Len(events) <= Len(log)
    /\ \A i \in 1 .. Len(events) : events[i] = log[first - 1 + i]

\* A page continues a copy of so many events, or overlaps with it.
PageFits(log, page, held) ==
    /\ page.first \in 1 .. held + 1
    /\ SegmentOf(log, page.items, page.first)
    /\ page.last = IF page.items = <<>> THEN 0 ELSE page.first - 1 + Len(page.items)

LedgerType ==
    /\ ledger \in Seq(Events)
    /\ copy \in [Readers -> Seq(Events)] /\ cursor \in [Readers -> Nat]
    /\ DOMAIN pc = Workers /\ DOMAIN req = Workers /\ DOMAIN reply = Workers

\* What is under way fits the device that has asked, which never has less than it
\* had when it asked.
SessionFits(w) ==
    LET held == Len(copy[req[w].reader]) IN
    /\ pc[w] # "idle" => req[w].reader \in Readers
    /\ pc[w] # "idle" /\ req[w].op = "list" =>
          req[w].after \in Nat /\ req[w].after <= held
    /\ pc[w] = "reply" /\ req[w].op = "list" =>
          \/ reply[w].outcome = "ErrMatchNotFound"
          \/ reply[w].outcome = "ok" /\ PageFits(ledger, reply[w].value, held)

DeviceFits(r) ==
    /\ SegmentOf(ledger, copy[r], 1)
    /\ cursor[r] <= Len(copy[r])

FeedInvariant ==
    /\ LedgerType
    /\ \A w \in Workers : SessionFits(w)
    /\ \A r \in Readers : DeviceFits(r)

-----------------------------------------------------------------------------
(* Segments *)

\* What is part of the ledger stays part of it.
LEMMA SegmentGrows ==
    ASSUME NEW log \in Seq(Events), NEW e \in Events,
           NEW events, NEW first \in Nat \ {0}, SegmentOf(log, events, first)
    PROVE  SegmentOf(Append(log, e), events, first)
<1>1. Len(events) \in Nat /\ Len(log) \in Nat
  BY LenProperties DEF SegmentOf
<1>2. /\ Len(Append(log, e)) = Len(log) + 1
      /\ \A i \in 1 .. Len(log) : Append(log, e)[i] = log[i]
  OBVIOUS
<1>3. \A i \in 1 .. Len(events) : first - 1 + i \in 1 .. Len(log)
  BY <1>1 DEF SegmentOf
<1>. QED  BY <1>1, <1>2, <1>3 DEF SegmentOf

\* The items of a page.
LEMMA ItemsAreSegment ==
    ASSUME ledger \in Seq(Events), NEW after \in Nat, after <= Len(ledger)
    PROVE  SegmentOf(ledger, Items(after), after + 1)
<1>1. Len(ledger) \in Nat
  OBVIOUS
<1>2. \A i \in after + 1 .. Len(ledger) : ledger[i] \in Events
  BY <1>1, ElementOfSeq
<1>3. /\ SubSeq(ledger, after + 1, Len(ledger)) \in Seq(Events)
      /\ Len(SubSeq(ledger, after + 1, Len(ledger))) =
            IF after + 1 <= Len(ledger) THEN Len(ledger) - (after + 1) + 1 ELSE 0
      /\ \A i \in 1 .. Len(ledger) - (after + 1) + 1 :
            SubSeq(ledger, after + 1, Len(ledger))[i] = ledger[after + 1 + i - 1]
  BY <1>1, <1>2, SubSeqProperties
<1>4. Len(Items(after)) = Len(ledger) - after
  BY <1>1, <1>3 DEF Items
<1>. QED  BY <1>1, <1>3, <1>4 DEF Items, SegmentOf

\* A page for a device that has what it asks from, or more.
LEMMA PageFitsCopy ==
    ASSUME ledger \in Seq(Events), NEW held \in Nat, held <= Len(ledger),
           NEW after \in Nat, after <= held
    PROVE  PageFits(ledger, Page(after), held)
<1>. DEFINE page  == Page(after)
            items == Items(after)
<1>1. Len(ledger) \in Nat
  OBVIOUS
<1>2. SegmentOf(ledger, items, after + 1)
  BY <1>1, ItemsAreSegment
<1>3. Len(items) \in Nat
  BY <1>2, LenProperties DEF SegmentOf
<1>4. page = [items |-> items, first |-> after + 1, last |-> LastSequence(after, items)]
  BY DEF Page
<1>. HIDE DEF items
<1>5. page.items = items /\ page.first = after + 1 /\ page.last = LastSequence(after, items)
  BY <1>4
<1>6. LastSequence(after, items) = IF items = <<>> THEN 0 ELSE after + 1 - 1 + Len(items)
  BY <1>3 DEF LastSequence
<1>. HIDE DEF page
<1>7. page.first \in 1 .. held + 1
  BY <1>5
<1>8. page.last = IF page.items = <<>> THEN 0 ELSE page.first - 1 + Len(page.items)
  BY <1>5, <1>6
<1>9. SegmentOf(ledger, page.items, page.first)
  BY <1>2, <1>5
<1>10. PageFits(ledger, page, held)
  BY <1>7, <1>8, <1>9 DEF PageFits
<1>. QED  BY <1>10 DEF page

\* The end of a sequence.
LEMMA EndOfSequence ==
    ASSUME NEW items \in Seq(Events), NEW from \in Nat \ {0}
    PROVE  /\ SubSeq(items, from, Len(items)) \in Seq(Events)
           /\ Len(SubSeq(items, from, Len(items))) =
                 IF from <= Len(items) THEN Len(items) - from + 1 ELSE 0
           /\ \A i \in 1 .. Len(items) - from + 1 :
                 SubSeq(items, from, Len(items))[i] = items[from + i - 1]
<1>1. Len(items) \in Nat
  OBVIOUS
<1>2. \A i \in from .. Len(items) : items[i] \in Events
  BY <1>1, ElementOfSeq
<1>. QED  BY <1>1, <1>2, SubSeqProperties

\* A segment that starts in what a device has, or right after it, continues it.
LEMMA SegmentsJoin ==
    ASSUME NEW log \in Seq(Events), NEW events, NEW items, NEW first,
           SegmentOf(log, events, 1), SegmentOf(log, items, first),
           first \in 1 .. Len(events) + 1
    PROVE  LET joined == events \o SubSeq(items, Len(events) - first + 2, Len(items))
           IN  /\ SegmentOf(log, joined, 1)
               /\ Len(joined) >= Len(events)
               /\ Len(joined) >= first - 1 + Len(items)
<1>. DEFINE from   == Len(events) - first + 2
            new    == SubSeq(items, from, Len(items))
            joined == events \o new
<1>1. /\ Len(events) \in Nat /\ Len(items) \in Nat /\ Len(log) \in Nat
      /\ events \in Seq(Events) /\ items \in Seq(Events)
  BY DEF SegmentOf
<1>2. first \in Nat \ {0} /\ from \in Nat \ {0} /\ from = Len(events) - first + 2
  BY <1>1
<1>. HIDE DEF from
<1>3. /\ new \in Seq(Events)
      /\ Len(new) = IF from <= Len(items) THEN Len(items) - from + 1 ELSE 0
      /\ \A i \in 1 .. Len(items) - from + 1 : new[i] = items[from + i - 1]
  BY <1>1, <1>2, EndOfSequence
<1>. HIDE DEF new
<1>4. /\ joined \in Seq(Events)
      /\ Len(joined) = Len(events) + Len(new)
      /\ \A i \in 1 .. Len(events) + Len(new) :
            joined[i] = IF i <= Len(events) THEN events[i] ELSE new[i - Len(events)]
  BY <1>1, <1>3, ConcatProperties
<1>. HIDE DEF joined
<1>5. Len(new) \in Nat /\ Len(joined) \in Nat
  BY <1>1, <1>3, <1>4
<1>6. /\ 0 + Len(events) <= Len(log) /\ first - 1 + Len(items) <= Len(log)
      /\ \A i \in 1 .. Len(events) : events[i] = log[i]
      /\ \A i \in 1 .. Len(items) : items[i] = log[first - 1 + i]
  BY <1>1 DEF SegmentOf
<1>7. Len(joined) <= Len(log) /\ Len(joined) >= first - 1 + Len(items)
      /\ Len(joined) >= Len(events)
  BY <1>1, <1>2, <1>3, <1>4, <1>5, <1>6
<1>8. ASSUME NEW i \in 1 .. Len(joined)
      PROVE  joined[i] = log[i]
  <2>1. CASE i <= Len(events)
    <3>1. i \in 1 .. Len(events) /\ i \in 1 .. Len(events) + Len(new)
      BY <1>1, <1>4, <1>5, <2>1
    <3>. QED  BY <1>4, <1>6, <2>1, <3>1
  <2>2. CASE i > Len(events)
    <3>. DEFINE j == i - Len(events)
                k == from + j - 1
    <3>1. /\ j \in 1 .. Len(items) - from + 1
          /\ k \in 1 .. Len(items)
          /\ first - 1 + k = i
      BY <1>1, <1>2, <1>3, <1>4, <1>5, <2>2
    <3>2. joined[i] = new[j]
      BY <1>1, <1>4, <1>5, <2>2
    <3>. HIDE DEF j
    <3>3. new[j] = items[k]
      BY <1>3, <3>1
    <3>. HIDE DEF k
    <3>4. items[k] = log[i]
      BY <1>6, <3>1
    <3>. QED  BY <3>2, <3>3, <3>4
  <2>. QED  BY <1>1, <1>5, <2>1, <2>2
<1>9. SegmentOf(log, joined, 1)
  BY <1>1, <1>4, <1>5, <1>7, <1>8 DEF SegmentOf
<1>. QED  BY <1>7, <1>9 DEF joined, new, from

-----------------------------------------------------------------------------
(* The invariant *)

LEMMA FeedInit == Init => FeedInvariant
<1>. SUFFICES ASSUME Init PROVE FeedInvariant
  OBVIOUS
<1>1. <<>> \in Seq(Events) /\ Len(<<>>) = 0
  OBVIOUS
<1>2. LedgerType
  BY <1>1 DEF Init, LedgerType
<1>3. \A r \in Readers : DeviceFits(r)
  BY <1>1 DEF Init, DeviceFits, SegmentOf
<1>4. \A w \in Workers : SessionFits(w)
  BY DEF Init, SessionFits
<1>. QED  BY <1>2, <1>3, <1>4 DEF FeedInvariant

\* A step that adds an event, or none, and leaves sessions and devices alone.
LEMMA LedgerStep ==
    ASSUME FeedInvariant, UNCHANGED <<session, device>>,
           ledger' = ledger \/ \E e \in Events : ledger' = Append(ledger, e)
    PROVE  FeedInvariant'
<1>0. \A e \in Events : ledger \in Seq(Events) /\ Append(ledger, e) \in Seq(Events)
  BY AppendProperties DEF FeedInvariant, LedgerType
<1>1. ledger' \in Seq(Events)
  BY <1>0 DEF FeedInvariant, LedgerType
<1>2. ASSUME NEW events, NEW first \in Nat \ {0}, SegmentOf(ledger, events, first)
      PROVE  SegmentOf(ledger', events, first)
  BY <1>2, SegmentGrows DEF FeedInvariant, LedgerType
<1>3. LedgerType'
  BY <1>1 DEF FeedInvariant, LedgerType, session, device
<1>4. ASSUME NEW r \in Readers
      PROVE  DeviceFits(r)'
  <2>1. SegmentOf(ledger, copy[r], 1) /\ cursor[r] <= Len(copy[r])
    BY DEF FeedInvariant, DeviceFits
  <2>2. SegmentOf(ledger', copy[r], 1)
    BY <1>2, <2>1
  <2>. QED  BY <2>1, <2>2 DEF DeviceFits, device
<1>5. ASSUME NEW w \in Workers
      PROVE  SessionFits(w)'
  <2>1. SessionFits(w)
    BY DEF FeedInvariant
  <2>2. req' = req /\ pc' = pc /\ reply' = reply /\ copy' = copy
    BY DEF session, device
  <2>3. ASSUME pc[w] = "reply", req[w].op = "list",
               PageFits(ledger, reply[w].value, Len(copy[req[w].reader]))
        PROVE  PageFits(ledger', reply[w].value, Len(copy[req[w].reader]))
    BY <1>2, <2>3 DEF PageFits
  <2>. QED  BY <2>1, <2>2, <2>3 DEF SessionFits
<1>. QED  BY <1>3, <1>4, <1>5 DEF FeedInvariant

LEMMA RecordStep ==
    ASSUME FeedInvariant, NEW c \in Commands, Record(c)
    PROVE  FeedInvariant'
<1>. DEFINE e == [action |-> c.action, side |-> c.side,
                  adjustment |-> c.adjustment, reverses |-> 0]
<1>1. e \in Events
  BY FeedAssumption DEF Events
<1>2. ledger' = Append(ledger, e) /\ UNCHANGED <<session, device>>
  BY DEF Record
<1>. QED  BY <1>1, <1>2, LedgerStep

LEMMA UndoStep ==
    ASSUME FeedInvariant, NEW n \in 1 .. MaxEvents, Undo(n)
    PROVE  FeedInvariant'
<1>. DEFINE e == [action |-> "EVENT_REVERSAL", side |-> ledger[n].side,
                  adjustment |-> ledger[n].adjustment, reverses |-> n]
<1>1. ledger[n] \in Events
  BY DEF FeedInvariant, LedgerType, Undo
<1>2. e \in Events
  BY <1>1 DEF Events, Actions
<1>3. ledger' = Append(ledger, e) /\ UNCHANGED <<session, device>>
  BY DEF Undo
<1>. QED  BY <1>2, <1>3, LedgerStep

\* A session no step touches keeps fitting, its device having no less than before.
LEMMA SessionKept ==
    ASSUME NEW w \in Workers, SessionFits(w), ledger' = ledger,
           pc'[w] = pc[w], req'[w] = req[w], reply'[w] = reply[w],
           \A r \in Readers : /\ Len(copy[r]) \in Nat /\ Len(copy'[r]) \in Nat
                              /\ Len(copy[r]) <= Len(copy'[r])
    PROVE  SessionFits(w)'
<1>. DEFINE r == req[w].reader
<1>. SUFFICES ASSUME pc[w] # "idle" PROVE SessionFits(w)'
  BY DEF SessionFits
<1>1. /\ r \in Readers /\ Len(copy[r]) \in Nat /\ Len(copy'[r]) \in Nat
      /\ Len(copy[r]) <= Len(copy'[r])
  BY DEF SessionFits
<1>2. req[w].op = "list" => req[w].after \in Nat /\ req[w].after <= Len(copy'[r])
  BY <1>1 DEF SessionFits
<1>3. ASSUME PageFits(ledger, reply[w].value, Len(copy[r]))
      PROVE  PageFits(ledger', reply[w].value, Len(copy'[r]))
  BY <1>1, <1>3 DEF PageFits
<1>. QED  BY <1>1, <1>2, <1>3 DEF SessionFits

\* A step of worker w that leaves the ledger and the devices alone.
LEMMA WorkerStep ==
    ASSUME FeedInvariant, NEW w \in Workers, UNCHANGED <<ledger, copy, cursor>>,
           DOMAIN pc' = Workers, DOMAIN req' = Workers, DOMAIN reply' = Workers,
           \A v \in Workers \ {w} : pc'[v] = pc[v] /\ req'[v] = req[v] /\ reply'[v] = reply[v],
           SessionFits(w)'
    PROVE  FeedInvariant'
<1>1. \A r \in Readers : Len(copy[r]) \in Nat
  BY LenProperties DEF FeedInvariant, LedgerType
<1>2. \A v \in Workers \ {w} : SessionFits(v)'
  BY <1>1, SessionKept DEF FeedInvariant
<1>3. LedgerType'
  BY DEF FeedInvariant, LedgerType
<1>4. \A r \in Readers : DeviceFits(r)'
  BY DEF FeedInvariant, DeviceFits
<1>. QED  BY <1>2, <1>3, <1>4 DEF FeedInvariant

LEMMA AdvanceStep == FeedInvariant /\ Advance => FeedInvariant'
  BY LedgerStep DEF Advance

LEMMA SendStep ==
    ASSUME FeedInvariant, NEW w \in Workers, NEW r \in Readers, NEW op \in Ops, Send(w, r, op)
    PROVE  FeedInvariant'
<1>1. PICK adapter :
        req' = [req EXCEPT ![w] =
              [reader |-> r, op |-> op, adapter |-> adapter,
               after |-> IF op = "list" THEN cursor[r] ELSE 0, since |-> Stage(match)]]
  BY DEF Send
<1>2. /\ pc' = [pc EXCEPT ![w] = "read"] /\ reply' = reply
      /\ UNCHANGED <<ledger, copy, cursor>>
  BY DEF Send, Goto, store, device
<1>3. DOMAIN pc = Workers /\ DOMAIN req = Workers /\ DOMAIN reply = Workers
  BY DEF FeedInvariant, LedgerType
<1>4. cursor[r] \in Nat /\ cursor[r] <= Len(copy[r])
  BY DEF FeedInvariant, LedgerType, DeviceFits
<1>5. /\ pc'[w] = "read" /\ req'[w].reader = r /\ req'[w].op = op
      /\ req'[w].after = IF op = "list" THEN cursor[r] ELSE 0
  BY <1>1, <1>2, <1>3
<1>6. SessionFits(w)'
  BY <1>2, <1>4, <1>5 DEF SessionFits
<1>. QED  BY <1>1, <1>2, <1>3, <1>6, WorkerStep

\* An answer of worker w to the request it serves.
LEMMA AnswerStep ==
    ASSUME FeedInvariant, NEW w \in Workers, NEW outcome, NEW value,
           pc[w] # "idle", Answer(w, outcome, value),
           req[w].op = "list" =>
               \/ outcome = "ErrMatchNotFound"
               \/ outcome = "ok" /\ PageFits(ledger, value, Len(copy[req[w].reader]))
    PROVE  FeedInvariant'
<1>1. /\ pc' = [pc EXCEPT ![w] = "reply"]
      /\ reply' = [reply EXCEPT ![w] = [outcome |-> outcome, value |-> value]]
      /\ req' = req /\ UNCHANGED <<ledger, copy, cursor>>
  BY DEF Answer, Goto, store, device
<1>2. DOMAIN pc = Workers /\ DOMAIN req = Workers /\ DOMAIN reply = Workers
  BY DEF FeedInvariant, LedgerType
<1>3. pc'[w] = "reply" /\ reply'[w].outcome = outcome /\ reply'[w].value = value
  BY <1>1, <1>2
<1>4. SessionFits(w)
  BY DEF FeedInvariant
<1>5. SessionFits(w)'
  BY <1>1, <1>3, <1>4 DEF SessionFits
<1>. QED  BY <1>1, <1>2, <1>5, WorkerStep

LEMMA FindMatchStep ==
    ASSUME FeedInvariant, NEW w \in Workers, FindMatch(w)
    PROVE  FeedInvariant'
<1>1. CASE Answer(w, "ErrMatchNotFound", None)
  BY <1>1, AnswerStep DEF FindMatch
<1>2. CASE Goto(w, "list") /\ UNCHANGED <<store, req, reply, device>>
  <2>1. /\ pc' = [pc EXCEPT ![w] = "list"] /\ req' = req /\ reply' = reply
        /\ UNCHANGED <<ledger, copy, cursor>>
    BY <1>2 DEF Goto, store, device
  <2>2. DOMAIN pc = Workers /\ DOMAIN req = Workers /\ DOMAIN reply = Workers
    BY DEF FeedInvariant, LedgerType
  <2>3. SessionFits(w) /\ pc[w] # "idle"
    BY DEF FeedInvariant, FindMatch
  <2>4. SessionFits(w)'
    BY <2>1, <2>2, <2>3 DEF SessionFits
  <2>. QED  BY <2>1, <2>2, <2>4, WorkerStep
<1>. QED  BY <1>1, <1>2 DEF FindMatch

LEMMA ListEventsStep ==
    ASSUME FeedInvariant, NEW w \in Workers, ListEvents(w)
    PROVE  FeedInvariant'
<1>. DEFINE r     == req[w].reader
            after == AfterSequence(req[w])
<1>1. pc[w] # "idle" /\ SessionFits(w) /\ Answer(w, "ok", Page(after))
  BY DEF ListEvents, FeedInvariant
<1>2. /\ r \in Readers /\ Len(copy[r]) \in Nat /\ Len(copy[r]) <= Len(ledger)
      /\ Len(ledger) \in Nat /\ ledger \in Seq(Events)
  BY <1>1, LenProperties DEF FeedInvariant, LedgerType, SessionFits, DeviceFits, SegmentOf
<1>3. ASSUME req[w].op = "list" PROVE PageFits(ledger, Page(after), Len(copy[r]))
  <2>1. after \in Nat /\ after <= Len(copy[r])
    BY <1>1, <1>2, <1>3 DEF SessionFits, AfterSequence
  <2>. HIDE DEF after
  <2>. QED  BY <1>2, <2>1, PageFitsCopy
<1>. QED  BY <1>1, <1>3, AnswerStep

LEMMA GetStep ==
    ASSUME FeedInvariant, NEW w \in Workers, GetSnapshot(w) \/ GetMatch(w)
    PROVE  FeedInvariant'
<1>1. pc[w] # "idle" /\ req[w].op # "list"
  BY DEF GetSnapshot, GetMatch
<1>2. PICK outcome, value : Answer(w, outcome, value)
  BY DEF GetSnapshot, GetMatch
<1>. QED  BY <1>1, <1>2, AnswerStep

\* The end of a session.
LEMMA SessionEnds ==
    ASSUME FeedInvariant, NEW w \in Workers, EndSession(w)
    PROVE  /\ ledger' = ledger
           /\ DOMAIN pc' = Workers /\ DOMAIN req' = Workers /\ DOMAIN reply' = Workers
           /\ \A v \in Workers \ {w} :
                 pc'[v] = pc[v] /\ req'[v] = req[v] /\ reply'[v] = reply[v]
           /\ SessionFits(w)'
<1>1. /\ pc' = [pc EXCEPT ![w] = "idle"] /\ req' = [req EXCEPT ![w] = None]
      /\ reply' = [reply EXCEPT ![w] = None] /\ ledger' = ledger
  BY DEF EndSession, Goto, store
<1>2. DOMAIN pc = Workers /\ DOMAIN req = Workers /\ DOMAIN reply = Workers
  BY DEF FeedInvariant, LedgerType
<1>3. pc'[w] = "idle"
  BY <1>1, <1>2
<1>. QED  BY <1>1, <1>2, <1>3 DEF SessionFits

LEMMA LoseStep ==
    ASSUME FeedInvariant, NEW w \in Workers, Lose(w)
    PROVE  FeedInvariant'
<1>1. EndSession(w) /\ UNCHANGED <<copy, cursor>>
  BY DEF Lose, device
<1>. QED  BY <1>1, SessionEnds, WorkerStep

\* What a delivery leaves in the device it is for.
LEMMA DeviceTakesPage ==
    ASSUME FeedInvariant, NEW w \in Workers, Deliver(w)
    PROVE  /\ copy' \in [Readers -> Seq(Events)] /\ cursor' \in [Readers -> Nat]
           /\ \A r \in Readers : /\ SegmentOf(ledger, copy'[r], 1)
                                 /\ cursor'[r] <= Len(copy'[r])
                                 /\ Len(copy[r]) <= Len(copy'[r])
<1>. DEFINE q     == req[w].reader
            value == reply[w].value
<1>0. /\ SessionFits(w) /\ pc[w] = "reply" /\ ledger \in Seq(Events)
      /\ copy \in [Readers -> Seq(Events)] /\ cursor \in [Readers -> Nat]
      /\ \A r \in Readers : SegmentOf(ledger, copy[r], 1) /\ cursor[r] <= Len(copy[r])
  BY DEF FeedInvariant, LedgerType, DeviceFits, Deliver
<1>1. \A r \in Readers : Len(copy[r]) \in Nat
  BY <1>0, LenProperties
<1>2. CASE UNCHANGED <<copy, cursor>>
  BY <1>0, <1>1, <1>2
<1>3. CASE /\ HttpStatus(reply[w].outcome) = 200 /\ req[w].op = "list"
           /\ cursor' = [cursor EXCEPT ![q] = value.last]
           /\ copy' = [copy EXCEPT ![q] = IF value.items = <<>> THEN @ ELSE Merge(@, value)]
  <2>1. q \in Readers /\ PageFits(ledger, value, Len(copy[q]))
    BY <1>0, <1>3 DEF SessionFits, HttpStatus
  <2>2. /\ value.first \in 1 .. Len(copy[q]) + 1 /\ SegmentOf(ledger, value.items, value.first)
        /\ Len(value.items) \in Nat
        /\ value.last = IF value.items = <<>> THEN 0 ELSE value.first - 1 + Len(value.items)
    BY <2>1, LenProperties DEF PageFits, SegmentOf
  <2>3. /\ cursor'[q] = value.last
        /\ copy'[q] = IF value.items = <<>> THEN copy[q] ELSE Merge(copy[q], value)
        /\ \A r \in Readers \ {q} : cursor'[r] = cursor[r] /\ copy'[r] = copy[r]
    BY <1>0, <1>3, <2>1
  <2>4. /\ SegmentOf(ledger, Merge(copy[q], value), 1)
        /\ Len(Merge(copy[q], value)) >= Len(copy[q])
        /\ Len(Merge(copy[q], value)) >= value.first - 1 + Len(value.items)
    BY <1>0, <2>1, <2>2, SegmentsJoin DEF Merge
  <2>5. Merge(copy[q], value) \in Seq(Events) /\ Len(Merge(copy[q], value)) \in Nat
    BY <2>4, LenProperties DEF SegmentOf
  <2>6. value.last \in Nat
    BY <1>1, <2>1, <2>2
  <2>7. /\ SegmentOf(ledger, copy'[q], 1) /\ cursor'[q] <= Len(copy'[q])
        /\ Len(copy[q]) <= Len(copy'[q])
    <3>1. CASE value.items = <<>>
      BY <1>0, <1>1, <2>1, <2>2, <2>3, <3>1
    <3>2. CASE value.items # <<>>
      BY <1>1, <2>1, <2>2, <2>3, <2>4, <2>5, <3>2
    <3>. QED  BY <3>1, <3>2
  <2>8. copy' \in [Readers -> Seq(Events)] /\ cursor' \in [Readers -> Nat]
    BY <1>0, <1>3, <2>1, <2>5, <2>6
  <2>9. \A r \in Readers \ {q} : /\ SegmentOf(ledger, copy'[r], 1)
                                 /\ cursor'[r] <= Len(copy'[r])
                                 /\ Len(copy[r]) <= Len(copy'[r])
    BY <1>0, <1>1, <2>3
  <2>. QED  BY <2>7, <2>8, <2>9
<1>. QED  BY <1>2, <1>3 DEF Deliver

LEMMA DeliverStep ==
    ASSUME FeedInvariant, NEW w \in Workers, Deliver(w)
    PROVE  FeedInvariant'
<1>1. /\ ledger' = ledger /\ ledger \in Seq(Events)
      /\ DOMAIN pc' = Workers /\ DOMAIN req' = Workers /\ DOMAIN reply' = Workers
      /\ \A v \in Workers \ {w} : pc'[v] = pc[v] /\ req'[v] = req[v] /\ reply'[v] = reply[v]
      /\ SessionFits(w)'
  BY SessionEnds DEF Deliver, FeedInvariant, LedgerType
<1>2. /\ copy' \in [Readers -> Seq(Events)] /\ cursor' \in [Readers -> Nat]
      /\ \A r \in Readers : /\ SegmentOf(ledger, copy'[r], 1)
                            /\ cursor'[r] <= Len(copy'[r])
                            /\ Len(copy[r]) <= Len(copy'[r])
  BY DeviceTakesPage
<1>3. LedgerType'
  BY <1>1, <1>2 DEF LedgerType
<1>4. \A r \in Readers : DeviceFits(r)'
  BY <1>1, <1>2 DEF DeviceFits
<1>5. \A r \in Readers : Len(copy[r]) \in Nat /\ Len(copy'[r]) \in Nat
  BY <1>2, LenProperties DEF FeedInvariant, LedgerType
<1>6. \A v \in Workers \ {w} : SessionFits(v)'
  BY <1>1, <1>2, <1>5, SessionKept DEF FeedInvariant
<1>. QED  BY <1>1, <1>3, <1>4, <1>6 DEF FeedInvariant

LEMMA FeedNext == FeedInvariant /\ [Next]_vars => FeedInvariant'
<1>. SUFFICES ASSUME FeedInvariant, [Next]_vars PROVE FeedInvariant'
  OBVIOUS
<1>1. CASE Advance
  BY <1>1, AdvanceStep
<1>2. ASSUME NEW c \in Commands, Record(c) PROVE FeedInvariant'
  BY <1>2, RecordStep
<1>3. ASSUME NEW n \in 1 .. MaxEvents, Undo(n) PROVE FeedInvariant'
  BY <1>3, UndoStep
<1>4. ASSUME NEW w \in Workers, NEW r \in Readers, NEW op \in Ops, Send(w, r, op)
      PROVE  FeedInvariant'
  BY <1>4, SendStep
<1>5. ASSUME NEW w \in Workers, Serve(w) PROVE FeedInvariant'
  BY <1>5, FindMatchStep, ListEventsStep, GetStep DEF Serve
<1>6. ASSUME NEW w \in Workers, Deliver(w) PROVE FeedInvariant'
  BY <1>6, DeliverStep
<1>7. ASSUME NEW w \in Workers, Lose(w) PROVE FeedInvariant'
  BY <1>7, LoseStep
<1>8. CASE UNCHANGED vars
  BY <1>8, LedgerStep DEF vars, session, device
<1>. QED  BY <1>1, <1>2, <1>3, <1>4, <1>5, <1>6, <1>7, <1>8 DEF Next

-----------------------------------------------------------------------------
(* The theorems *)

\* What every step keeps: the copies and the pages under way are segments of the
\* ledger, no page starts beyond what its device has, and no cursor is ahead.
THEOREM FeedIsConsistent == Spec => []FeedInvariant
  BY FeedInit, FeedNext, PTL DEF Spec

\* For any number of devices and of requests under way: a device has the first
\* events of the ledger, each once.
THEOREM CopiesArePrefixes == Spec => []CopyIsPrefix
<1>1. FeedInvariant => CopyIsPrefix
  <2>. SUFFICES ASSUME FeedInvariant, NEW r \in Readers
                PROVE  /\ Len(copy[r]) <= Len(ledger)
                       /\ copy[r] = SubSeq(ledger, 1, Len(copy[r]))
    BY DEF CopyIsPrefix
  <2>1. /\ ledger \in Seq(Events) /\ copy[r] \in Seq(Events)
        /\ SegmentOf(ledger, copy[r], 1)
    BY DEF FeedInvariant, LedgerType, DeviceFits
  <2>2. Len(copy[r]) \in Nat /\ Len(ledger) \in Nat
    BY <2>1, LenProperties
  <2>3. /\ Len(copy[r]) <= Len(ledger)
        /\ \A i \in 1 .. Len(copy[r]) : copy[r][i] = ledger[i]
    BY <2>1, <2>2 DEF SegmentOf
  <2>4. \A i \in 1 .. Len(copy[r]) : ledger[i] \in Events
    BY <2>1, <2>2, <2>3, ElementOfSeq
  <2>5. /\ SubSeq(ledger, 1, Len(copy[r])) \in Seq(Events)
        /\ Len(SubSeq(ledger, 1, Len(copy[r]))) = Len(copy[r])
        /\ \A i \in 1 .. Len(copy[r]) : SubSeq(ledger, 1, Len(copy[r]))[i] = ledger[i]
    <3>1. /\ SubSeq(ledger, 1, Len(copy[r])) \in Seq(Events)
          /\ Len(SubSeq(ledger, 1, Len(copy[r]))) =
                IF 1 <= Len(copy[r]) THEN Len(copy[r]) - 1 + 1 ELSE 0
          /\ \A i \in 1 .. Len(copy[r]) - 1 + 1 :
                SubSeq(ledger, 1, Len(copy[r]))[i] = ledger[1 + i - 1]
      BY <2>2, <2>4, SubSeqProperties
    <3>. QED  BY <2>2, <3>1
  <2>6. copy[r] = SubSeq(ledger, 1, Len(copy[r]))
    BY <2>1, <2>3, <2>5, SeqEqual
  <2>. QED  BY <2>3, <2>6
<1>. QED  BY <1>1, FeedIsConsistent, PTL

\* Although an empty page sets the cursor back, and pages arrive in any order, a
\* device never asks from beyond what it has.
THEOREM CursorsNeverSkip == Spec => []CursorNeverSkips
<1>1. FeedInvariant => CursorNeverSkips
  BY DEF FeedInvariant, DeviceFits, CursorNeverSkips
<1>. QED  BY <1>1, FeedIsConsistent, PTL

-----------------------------------------------------------------------------
(* The score of a sequence of events *)

Score(events) ==
    [s \in Sides |-> Cardinality(Standing(events, s, 1)) - Cardinality(Standing(events, s, -1))]

ReversesEarlier(events) == \A i \in 1 .. Len(events) : events[i].reverses \in 0 .. i - 1

LEMMA StandingIsFinite ==
    ASSUME NEW log \in Seq(Events), NEW s, NEW d
    PROVE  /\ Standing(log, s, d) \subseteq 1 .. Len(log)
           /\ IsFiniteSet(Standing(log, s, d)) /\ Cardinality(Standing(log, s, d)) \in Nat
<1>1. Len(log) \in Nat /\ DOMAIN log = 1 .. Len(log)
  BY LenProperties
<1>2. IsFiniteSet(1 .. Len(log))
  BY <1>1, FS_Interval
<1>3. Standing(log, s, d) \subseteq 1 .. Len(log)
  BY <1>1 DEF Standing
<1>4. IsFiniteSet(Standing(log, s, d))
  BY <1>2, <1>3, FS_Subset
<1>. QED  BY <1>3, <1>4, FS_CardinalityType

\* Nothing reverses an event that has just been recorded.
LEMMA StandingRecorded ==
    ASSUME NEW log \in Seq(Events), ReversesEarlier(log), NEW e \in Events, e.reverses = 0,
           NEW s, NEW d
    PROVE  /\ e.side = s /\ ScoreDelta(e) = d =>
                 Standing(Append(log, e), s, d) = Standing(log, s, d) \union {Len(log) + 1}
           /\ ~(e.side = s /\ ScoreDelta(e) = d) =>
                 Standing(Append(log, e), s, d) = Standing(log, s, d)
<1>. DEFINE after == Append(log, e)
            last  == Len(log) + 1
<1>1. /\ Len(log) \in Nat /\ DOMAIN log = 1 .. Len(log)
      /\ DOMAIN after = 1 .. last /\ after[last] = e
      /\ \A i \in 1 .. Len(log) : after[i] = log[i] /\ log[i] \in Events
  BY LenProperties, AppendProperties, ElementOfSeq
<1>. HIDE DEF after
<1>2. \A j \in 1 .. last : after[j].reverses # last
  BY <1>1 DEF ReversesEarlier
<1>3. ASSUME NEW i \in 1 .. Len(log)
      PROVE  i \in Standing(after, s, d) <=> i \in Standing(log, s, d)
  <2>1. (\A j \in 1 .. last : after[j].reverses # i) <=>
            (\A j \in 1 .. Len(log) : log[j].reverses # i)
    BY <1>1
  <2>. QED  BY <1>1, <2>1 DEF Standing
<1>4. last \in Standing(after, s, d) <=> e.side = s /\ ScoreDelta(e) = d
  BY <1>1, <1>2 DEF Standing
<1>5. Standing(after, s, d) \subseteq 1 .. last /\ Standing(log, s, d) \subseteq 1 .. Len(log)
  BY <1>1 DEF Standing
<1>6. ASSUME e.side = s /\ ScoreDelta(e) = d
      PROVE  Standing(after, s, d) = Standing(log, s, d) \union {last}
  BY <1>1, <1>3, <1>4, <1>5, <1>6
<1>7. ASSUME ~(e.side = s /\ ScoreDelta(e) = d)
      PROVE  Standing(after, s, d) = Standing(log, s, d)
  <2>1. last \notin Standing(after, s, d)
    BY <1>4, <1>7
  <2>2. \A i \in 1 .. last : i \in Standing(after, s, d) => i \in 1 .. Len(log)
    BY <1>1, <2>1
  <2>. HIDE DEF last
  <2>. QED  BY <1>3, <1>5, <2>2
<1>. QED  BY <1>6, <1>7 DEF after

\* The reversal of event n takes it out, and has no score of its own.
LEMMA StandingReversed ==
    ASSUME NEW log \in Seq(Events), NEW n \in 1 .. Len(log), NEW e \in Events,
           e.action = "EVENT_REVERSAL", e.reverses = n, NEW s, NEW d \in {-1, 1}
    PROVE  Standing(Append(log, e), s, d) = Standing(log, s, d) \ {n}
<1>. DEFINE after == Append(log, e)
            last  == Len(log) + 1
<1>1. /\ Len(log) \in Nat /\ DOMAIN log = 1 .. Len(log)
      /\ DOMAIN after = 1 .. last /\ after[last] = e
      /\ \A i \in 1 .. Len(log) : after[i] = log[i]
  BY LenProperties, AppendProperties
<1>. HIDE DEF after
<1>2. ScoreDelta(e) = 0
  BY DEF ScoreDelta
<1>3. last \notin Standing(after, s, d)
  BY <1>1, <1>2 DEF Standing
<1>4. ASSUME NEW i \in 1 .. Len(log)
      PROVE  i \in Standing(after, s, d) <=> i \in Standing(log, s, d) /\ i # n
  <2>1. (\A j \in 1 .. last : after[j].reverses # i) <=>
            (\A j \in 1 .. Len(log) : log[j].reverses # i) /\ i # n
    BY <1>1
  <2>. QED  BY <1>1, <2>1 DEF Standing
<1>5. Standing(after, s, d) \subseteq 1 .. last /\ Standing(log, s, d) \subseteq 1 .. Len(log)
  BY <1>1 DEF Standing
<1>6. Standing(after, s, d) = Standing(log, s, d) \ {n}
  BY <1>1, <1>3, <1>4, <1>5
<1>. QED  BY <1>6 DEF after

LEMMA ScoreRecorded ==
    ASSUME NEW log \in Seq(Events), ReversesEarlier(log), NEW e \in Events, e.reverses = 0
    PROVE  Score(Append(log, e)) = [Score(log) EXCEPT ![e.side] = @ + ScoreDelta(e)]
<1>1. e.side \in Sides /\ ScoreDelta(e) \in {-1, 0, 1}
  BY ScoreDeltaType DEF Events
<1>2. ASSUME NEW s \in Sides, NEW d \in {-1, 1}
      PROVE  Cardinality(Standing(Append(log, e), s, d)) =
                 Cardinality(Standing(log, s, d)) +
                     (IF e.side = s /\ ScoreDelta(e) = d THEN 1 ELSE 0)
  <2>1. /\ IsFiniteSet(Standing(log, s, d)) /\ Len(log) + 1 \notin Standing(log, s, d)
        /\ Cardinality(Standing(log, s, d)) \in Nat
    BY StandingIsFinite, LenProperties
  <2>0. /\ e.side = s /\ ScoreDelta(e) = d =>
              Standing(Append(log, e), s, d) = Standing(log, s, d) \union {Len(log) + 1}
        /\ ~(e.side = s /\ ScoreDelta(e) = d) =>
              Standing(Append(log, e), s, d) = Standing(log, s, d)
    BY StandingRecorded
  <2>2. CASE e.side = s /\ ScoreDelta(e) = d
    <3>1. Standing(Append(log, e), s, d) = Standing(log, s, d) \union {Len(log) + 1}
      BY <2>0, <2>2
    <3>2. Cardinality(Standing(log, s, d) \union {Len(log) + 1}) =
              Cardinality(Standing(log, s, d)) + 1
      BY <2>1, FS_AddElement
    <3>. QED  BY <2>2, <3>1, <3>2
  <2>3. CASE ~(e.side = s /\ ScoreDelta(e) = d)
    <3>1. Standing(Append(log, e), s, d) = Standing(log, s, d)
      BY <2>0, <2>3
    <3>. QED  BY <2>1, <2>3, <3>1
  <2>. QED  BY <2>2, <2>3
<1>3. \A s \in Sides, d \in {-1, 1} : Cardinality(Standing(log, s, d)) \in Nat
  BY StandingIsFinite
<1>4. ASSUME NEW s \in Sides
      PROVE  Cardinality(Standing(Append(log, e), s, 1))
                 - Cardinality(Standing(Append(log, e), s, -1)) =
             IF s = e.side
             THEN Cardinality(Standing(log, s, 1)) - Cardinality(Standing(log, s, -1))
                      + ScoreDelta(e)
             ELSE Cardinality(Standing(log, s, 1)) - Cardinality(Standing(log, s, -1))
  BY <1>1, <1>2, <1>3
<1>. QED  BY <1>1, <1>4 DEF Score

LEMMA ScoreReversed ==
    ASSUME NEW log \in Seq(Events), NEW n \in 1 .. Len(log), NEW e \in Events,
           e.action = "EVENT_REVERSAL", e.reverses = n, e.side = log[n].side,
           \A i \in 1 .. Len(log) : log[i].reverses # n
    PROVE  Score(Append(log, e)) = [Score(log) EXCEPT ![e.side] = @ - ScoreDelta(log[n])]
<1>1. e.side \in Sides /\ ScoreDelta(log[n]) \in {-1, 0, 1} /\ DOMAIN log = 1 .. Len(log)
  <2>1. log[n] \in Events
    BY ElementOfSeq
  <2>. QED  BY <2>1, ScoreDeltaType, LenProperties DEF Events
<1>2. ASSUME NEW s \in Sides, NEW d \in {-1, 1}
      PROVE  Cardinality(Standing(Append(log, e), s, d)) =
                 Cardinality(Standing(log, s, d)) -
                     (IF e.side = s /\ ScoreDelta(log[n]) = d THEN 1 ELSE 0)
  <2>1. /\ IsFiniteSet(Standing(log, s, d))
        /\ Cardinality(Standing(log, s, d)) \in Nat
    BY StandingIsFinite
  <2>2. Standing(Append(log, e), s, d) = Standing(log, s, d) \ {n}
    BY StandingReversed
  <2>3. n \in Standing(log, s, d) <=> e.side = s /\ ScoreDelta(log[n]) = d
    BY <1>1 DEF Standing
  <2>4. Cardinality(Standing(log, s, d) \ {n}) =
            IF n \in Standing(log, s, d) THEN Cardinality(Standing(log, s, d)) - 1
                                         ELSE Cardinality(Standing(log, s, d))
    BY <2>1, FS_RemoveElement
  <2>. QED  BY <2>1, <2>2, <2>3, <2>4
<1>3. \A s \in Sides, d \in {-1, 1} : Cardinality(Standing(log, s, d)) \in Nat
  BY StandingIsFinite
<1>4. ASSUME NEW s \in Sides
      PROVE  Cardinality(Standing(Append(log, e), s, 1))
                 - Cardinality(Standing(Append(log, e), s, -1)) =
             IF s = e.side
             THEN Cardinality(Standing(log, s, 1)) - Cardinality(Standing(log, s, -1))
                      - ScoreDelta(log[n])
             ELSE Cardinality(Standing(log, s, 1)) - Cardinality(Standing(log, s, -1))
  BY <1>1, <1>2, <1>3
<1>. QED  BY <1>1, <1>4 DEF Score

LEMMA ScoreOfNothing == Score(<<>>) = [s \in Sides |-> 0]
<1>1. \A s, d : Standing(<<>>, s, d) = {}
  BY DEF Standing
<1>2. \A s : Cardinality(Standing(<<>>, s, 1)) - Cardinality(Standing(<<>>, s, -1)) = 0
  <2>1. Cardinality({}) = 0
    BY FS_EmptySet
  <2>2. \A s, d : Cardinality(Standing(<<>>, s, d)) = 0
    BY <1>1, <2>1
  <2>. QED  BY <2>2
<1>. QED  BY <1>2 DEF Score

\* The beginning of a sequence.
LEMMA Beginning ==
    ASSUME NEW log \in Seq(Events), NEW n \in 0 .. Len(log)
    PROVE  /\ SubSeq(log, 1, n) \in Seq(Events) /\ Len(SubSeq(log, 1, n)) = n
           /\ \A i \in 1 .. n : SubSeq(log, 1, n)[i] = log[i]
<1>1. Len(log) \in Nat /\ n \in Int /\ n \in Nat /\ \A i \in 1 .. n : log[i] \in Events
  BY LenProperties, ElementOfSeq
<1>2. /\ SubSeq(log, 1, n) \in Seq(Events)
      /\ Len(SubSeq(log, 1, n)) = IF 1 <= n THEN n - 1 + 1 ELSE 0
      /\ \A i \in 1 .. n - 1 + 1 : SubSeq(log, 1, n)[i] = log[1 + i - 1]
  BY <1>1, SubSeqProperties
<1>. QED  BY <1>1, <1>2

LEMMA BeginningKept ==
    ASSUME NEW log \in Seq(Events), NEW e \in Events, NEW n \in 0 .. Len(log)
    PROVE  SubSeq(Append(log, e), 1, n) = SubSeq(log, 1, n)
<1>1. /\ Append(log, e) \in Seq(Events) /\ Len(Append(log, e)) = Len(log) + 1
      /\ Len(log) \in Nat /\ \A i \in 1 .. Len(log) : Append(log, e)[i] = log[i]
  BY AppendProperties, LenProperties
<1>2. n \in 0 .. Len(Append(log, e))
  BY <1>1
<1>3. /\ SubSeq(log, 1, n) \in Seq(Events) /\ Len(SubSeq(log, 1, n)) = n
      /\ \A i \in 1 .. n : SubSeq(log, 1, n)[i] = log[i]
  BY Beginning
<1>4. /\ SubSeq(Append(log, e), 1, n) \in Seq(Events)
      /\ Len(SubSeq(Append(log, e), 1, n)) = n
      /\ \A i \in 1 .. n : SubSeq(Append(log, e), 1, n)[i] = Append(log, e)[i]
  BY <1>1, <1>2, Beginning
<1>. QED  BY <1>1, <1>3, <1>4, SeqEqual

-----------------------------------------------------------------------------
(* What reads tell *)

\* A snapshot has the score of the events its sequence counts.
Tells(log, snapshot) ==
    /\ snapshot \in Snapshots
    /\ snapshot.sequence <= Len(log)
    /\ snapshot.score = Score(SubSeq(log, 1, snapshot.sequence))

\* A match that was at this stage may show this one later.
Reaches(old, new) ==
    /\ old.sequence <= new.sequence
    /\ new.status \in StatusesFrom(old.status)

StoreFits ==
    /\ match \in Snapshots \union {None}
    /\ Len(ledger) <= MaxEvents /\ ReversesEarlier(ledger)
    /\ match = None => ledger = <<>>
    /\ match # None => Tells(ledger, match) /\ match.sequence = Len(ledger)

\* Answer a to request q tells of nothing older than q, and tells of it correctly.
AnswerFits(log, q, a) ==
    /\ q.since # None =>
          /\ a.outcome = "ok"
          /\ IF q.op = "list"
             THEN q.after < q.since.sequence => a.value.last >= q.since.sequence
             ELSE Reaches(q.since, a.value)
    /\ q.op = "snapshot" /\ a.outcome = "ok" => Tells(log, a.value)

\* The match has not gone back since the request was sent.
SessionTells(w) ==
    /\ pc[w] \in {"idle", "read", "list", "reply"}
    /\ pc[w] = "idle" => req[w] = None
    /\ pc[w] # "idle" =>
          /\ req[w] \in Asks
          /\ req[w].since # None => match # None /\ Reaches(req[w].since, match)
    /\ pc[w] = "list" => req[w].op = "list"
    /\ pc[w] = "reply" => reply[w] \in Replies /\ AnswerFits(ledger, req[w], reply[w])
    /\ pc[w] # "reply" => reply[w] = None

DevicesKnow ==
    /\ known \in [Readers -> Snapshots \union {None}]
    /\ \A r \in Readers : known[r] # None => Tells(ledger, known[r])

SessionsAreFunctions ==
    /\ pc = [w \in Workers |-> pc[w]]
    /\ req = [w \in Workers |-> req[w]]
    /\ reply = [w \in Workers |-> reply[w]]

ReadInvariant ==
    /\ StoreFits
    /\ SessionsAreFunctions
    /\ \A w \in Workers : SessionTells(w)
    /\ DevicesKnow

LEMMA ReadInit == Init => ReadInvariant
<1>. SUFFICES ASSUME Init PROVE ReadInvariant
  OBVIOUS
<1>1. StoreFits
  BY FeedAssumption DEF Init, StoreFits, ReversesEarlier
<1>2. \A w \in Workers : SessionTells(w)
  BY DEF Init, SessionTells
<1>3. DevicesKnow
  BY DEF Init, DevicesKnow
<1>4. SessionsAreFunctions
  BY DEF Init, SessionsAreFunctions
<1>. QED  BY <1>1, <1>2, <1>3, <1>4 DEF ReadInvariant

-----------------------------------------------------------------------------
(* Commits *)

\* What a snapshot tells stays true.
LEMMA TellsGrows ==
    ASSUME NEW log \in Seq(Events), NEW e \in Events, NEW snapshot, Tells(log, snapshot)
    PROVE  Tells(Append(log, e), snapshot)
<1>1. snapshot.sequence \in Nat /\ Len(log) \in Nat /\ Len(Append(log, e)) = Len(log) + 1
  BY LenProperties, AppendProperties DEF Tells, Snapshots
<1>2. snapshot.sequence \in 0 .. Len(log)
  BY <1>1 DEF Tells
<1>3. SubSeq(Append(log, e), 1, snapshot.sequence) = SubSeq(log, 1, snapshot.sequence)
  BY <1>2, BeginningKept
<1>4. snapshot \in Snapshots /\ snapshot.score = Score(SubSeq(log, 1, snapshot.sequence))
  BY DEF Tells
<1>5. snapshot.score = Score(SubSeq(Append(log, e), 1, snapshot.sequence))
  BY <1>3, <1>4
<1>6. snapshot.sequence <= Len(Append(log, e))
  BY <1>1, <1>2
<1>. QED  BY <1>4, <1>5, <1>6 DEF Tells

LEMMA ReachesOn ==
    ASSUME NEW old \in Stages, NEW new, NEW newer, new.sequence \in Nat, newer.sequence \in Nat,
           Reaches(old, new), Reaches(new, newer)
    PROVE  Reaches(old, newer)
<1>1. old.sequence \in Nat /\ old.status \in {"DRAFT", "READY", "LIVE"}
  BY DEF Stages, Statuses
<1>. QED  BY <1>1 DEF Reaches, StatusesFrom, Statuses

\* A step of the write path: sessions and devices still tell the truth.
LEMMA StoreMoves ==
    ASSUME ReadInvariant, ledger \in Seq(Events), StoreFits', UNCHANGED <<session, device>>,
           ledger' = ledger \/ \E e \in Events : ledger' = Append(ledger, e),
           match # None => match' # None /\ Reaches(match, match')
    PROVE  ReadInvariant'
<1>1. \A s : Tells(ledger, s) => Tells(ledger', s)
  BY TellsGrows
<1>2. UNCHANGED <<pc, req, reply, copy, cursor, known>>
  BY DEF session, device
<1>3. DevicesKnow'
  BY <1>1, <1>2 DEF ReadInvariant, DevicesKnow
<1>4. ASSUME NEW w \in Workers PROVE SessionTells(w)'
  <2>1. SessionTells(w)
    BY DEF ReadInvariant
  <2>2. ASSUME req[w] \in Asks, req[w].since # None, match # None, Reaches(req[w].since, match)
        PROVE  Reaches(req[w].since, match')
    <3>1. req[w].since \in Stages
      BY <2>2 DEF Asks
    <3>2. match.sequence \in Nat /\ match'.sequence \in Nat
      BY <2>2 DEF ReadInvariant, StoreFits, Snapshots
    <3>. QED  BY <2>2, <3>1, <3>2, ReachesOn
  <2>3. AnswerFits(ledger, req[w], reply[w]) => AnswerFits(ledger', req[w], reply[w])
    BY <1>1 DEF AnswerFits
  <2>. QED  BY <1>2, <2>1, <2>2, <2>3 DEF SessionTells
<1>5. SessionsAreFunctions'
  BY <1>2 DEF ReadInvariant, SessionsAreFunctions
<1>. QED  BY <1>3, <1>4, <1>5 DEF ReadInvariant

\* The store after an event was added for which the rules have computed next.
LEMMA EventAdded ==
    ASSUME StoreFits, match # None, ledger \in Seq(Events), NEW e \in Events,
           Len(ledger) < MaxEvents, e.reverses \in 0 .. Len(ledger),
           ledger' = Append(ledger, e), match' \in Snapshots,
           match.status = "LIVE" /\ match'.status = "LIVE", match'.sequence = match.sequence + 1,
           match'.score = Score(Append(ledger, e))
    PROVE  StoreFits' /\ match' # None /\ Reaches(match, match')
<1>1. /\ Len(ledger) \in Nat /\ Len(ledger') = Len(ledger) + 1 /\ ledger' \in Seq(Events)
      /\ ledger'[Len(ledger) + 1] = e /\ \A i \in 1 .. Len(ledger) : ledger'[i] = ledger[i]
  BY LenProperties, AppendProperties
<1>2. match.sequence = Len(ledger) /\ match'.sequence = Len(ledger')
  BY <1>1 DEF StoreFits
<1>3. SubSeq(ledger', 1, Len(ledger')) = ledger'
  BY <1>1, SubSeqFull
<1>4. Tells(ledger', match')
  <2>1. match'.score = Score(SubSeq(ledger', 1, match'.sequence))
    BY <1>2, <1>3
  <2>2. match'.sequence <= Len(ledger')
    BY <1>1, <1>2
  <2>. QED  BY <2>1, <2>2 DEF Tells
<1>5. ReversesEarlier(ledger')
  BY <1>1 DEF StoreFits, ReversesEarlier
<1>6. Len(ledger') <= MaxEvents
  BY <1>1, FeedAssumption
<1>7. Reaches(match, match')
  BY <1>1, <1>2 DEF Reaches, StatusesFrom
<1>. QED  BY <1>2, <1>4, <1>5, <1>6, <1>7, NoneAssumption DEF StoreFits

\* The score of the match is that of the whole ledger.
LEMMA ScoreOfMatch ==
    ASSUME StoreFits, match # None, ledger \in Seq(Events)
    PROVE  match \in Snapshots /\ match.score = Score(ledger)
<1>1. SubSeq(ledger, 1, Len(ledger)) = ledger
  BY SubSeqFull
<1>. QED  BY <1>1 DEF StoreFits, Tells

LEMMA AdvanceReads ==
    ASSUME ReadInvariant, ledger \in Seq(Events), Advance
    PROVE  ReadInvariant'
<1>1. StoreFits /\ ledger' = ledger
  BY DEF ReadInvariant, Advance
<1>2. CASE match = None
  <2>1. /\ match' \in Snapshots /\ match'.sequence = 0 /\ ledger = <<>>
        /\ match'.score = [s \in Sides |-> 0]
    BY <1>1, <1>2 DEF Advance, Snapshots, Statuses, StoreFits
  <2>2. SubSeq(<<>>, 1, 0) = <<>> /\ Len(<<>>) = 0
    BY EmptySeq, SubSeqEmpty
  <2>3. Tells(ledger, match')
    <3>1. match'.score = Score(SubSeq(ledger, 1, match'.sequence))
      BY <2>1, <2>2, ScoreOfNothing
    <3>2. match'.sequence <= Len(ledger)
      BY <2>1, <2>2
    <3>. QED  BY <2>1, <3>1, <3>2 DEF Tells
  <2>4. StoreFits'
    BY <1>1, <2>1, <2>2, <2>3 DEF StoreFits
  <2>. QED  BY <1>1, <1>2, <2>4, StoreMoves DEF Advance
<1>3. CASE match # None
  <2>1. /\ match \in Snapshots /\ Tells(ledger, match) /\ match.sequence = Len(ledger)
        /\ match.sequence \in Nat /\ match.status \in {"DRAFT", "READY", "LIVE"}
    BY <1>1, <1>3 DEF StoreFits, Snapshots, Statuses
  <2>2. match' = [match EXCEPT !.status = IF @ = "DRAFT" THEN "READY" ELSE "LIVE"]
    BY <1>3 DEF Advance
  <2>3. /\ match' \in Snapshots /\ match'.sequence = match.sequence /\ match'.score = match.score
        /\ match'.status = IF match.status = "DRAFT" THEN "READY" ELSE "LIVE"
    BY <2>1, <2>2 DEF Snapshots, Statuses
  <2>4. Tells(ledger, match') /\ match' # None
    BY <2>1, <2>3, NoneAssumption DEF Tells
  <2>5. StoreFits'
    BY <1>1, <2>1, <2>3, <2>4 DEF StoreFits
  <2>6. Reaches(match, match')
    BY <2>1, <2>3 DEF Reaches, StatusesFrom, Statuses
  <2>. QED  BY <1>1, <2>4, <2>5, <2>6, StoreMoves DEF Advance
<1>. QED  BY <1>2, <1>3

LEMMA RecordReads ==
    ASSUME ReadInvariant, ledger \in Seq(Events), NEW c \in Commands, Record(c)
    PROVE  ReadInvariant'
<1>. DEFINE r == [action |-> c.action, side |-> c.side,
                  adjustment |-> c.adjustment, expected |-> match.sequence]
            e == [action |-> c.action, side |-> c.side,
                  adjustment |-> c.adjustment, reverses |-> 0]
<1>1. /\ StoreFits /\ match # None /\ Len(ledger) < MaxEvents
      /\ ApplyError(match, r) = "none" /\ match' = ApplyEvent(match, r)
      /\ ledger' = Append(ledger, e) /\ UNCHANGED <<session, device>>
  BY DEF Record, ReadInvariant
<1>2. match \in Snapshots /\ match.score = Score(ledger)
  BY <1>1, ScoreOfMatch
<1>3. /\ r.action \in Actions /\ r.side \in Sides /\ r.adjustment \in {-1, 1}
      /\ e \in Events /\ e.reverses = 0 /\ e.side = r.side
  BY FeedAssumption DEF Events
<1>4. ScoreDelta(e) = ScoreDelta(r)
  BY DEF ScoreDelta
<1>5. Len(ledger) \in Nat /\ ReversesEarlier(ledger)
  BY <1>1, LenProperties DEF StoreFits
<1>. HIDE DEF r, e
<1>6. /\ match' \in Snapshots /\ match'.status = "LIVE" /\ match.status = "LIVE"
      /\ match'.sequence = match.sequence + 1
      /\ match'.score = [match.score EXCEPT ![r.side] = @ + ScoreDelta(r)]
  BY <1>1, <1>2, <1>3, ApplyEventType
<1>7. Score(Append(ledger, e)) = [Score(ledger) EXCEPT ![e.side] = @ + ScoreDelta(e)]
  BY <1>3, <1>5, ScoreRecorded
<1>8. StoreFits' /\ match' # None /\ Reaches(match, match')
  BY <1>1, <1>2, <1>3, <1>4, <1>5, <1>6, <1>7, EventAdded
<1>. QED  BY <1>1, <1>3, <1>8, StoreMoves

LEMMA UndoReads ==
    ASSUME ReadInvariant, ledger \in Seq(Events), NEW n \in 1 .. MaxEvents, Undo(n)
    PROVE  ReadInvariant'
<1>. DEFINE e == [action |-> "EVENT_REVERSAL", side |-> ledger[n].side,
                  adjustment |-> ledger[n].adjustment, reverses |-> n]
<1>1. /\ StoreFits /\ match # None /\ Len(ledger) < MaxEvents
      /\ n \in DOMAIN ledger /\ \A i \in DOMAIN ledger : ledger[i].reverses # n
      /\ ReverseError(match, ledger[n]) = "none" /\ match' = ReverseEvent(match, ledger[n])
      /\ ledger' = Append(ledger, e) /\ UNCHANGED <<session, device>>
  BY DEF Undo, ReadInvariant
<1>2. match \in Snapshots /\ match.score = Score(ledger)
  BY <1>1, ScoreOfMatch
<1>3. Len(ledger) \in Nat /\ DOMAIN ledger = 1 .. Len(ledger) /\ n \in 1 .. Len(ledger)
  BY <1>1, LenProperties
<1>4. /\ ledger[n].action \in Actions /\ ledger[n].side \in Sides
      /\ ledger[n].adjustment \in {-1, 1}
  <2>1. ledger[n] \in Events
    BY <1>3, ElementOfSeq
  <2>. QED  BY <2>1 DEF Events
<1>5. /\ e \in Events /\ e.action = "EVENT_REVERSAL" /\ e.reverses = n
      /\ e.side = ledger[n].side
  BY <1>3, <1>4 DEF Events, Actions
<1>. HIDE DEF e
<1>6. /\ match' \in Snapshots /\ match'.status = "LIVE" /\ match.status = "LIVE"
      /\ match'.sequence = match.sequence + 1
      /\ match'.score = [match.score EXCEPT ![ledger[n].side] = @ - ScoreDelta(ledger[n])]
  BY <1>1, <1>2, <1>4, ReverseEventType
<1>7. Score(Append(ledger, e)) = [Score(ledger) EXCEPT ![e.side] = @ - ScoreDelta(ledger[n])]
  BY <1>1, <1>3, <1>5, ScoreReversed
<1>8. StoreFits' /\ match' # None /\ Reaches(match, match')
  BY <1>1, <1>2, <1>3, <1>5, <1>6, <1>7, EventAdded
<1>. QED  BY <1>1, <1>5, <1>8, StoreMoves

-----------------------------------------------------------------------------
(* Requests *)

\* A step of worker w that leaves the store alone.
LEMMA SessionReads ==
    ASSUME ReadInvariant, NEW w \in Workers, UNCHANGED store, SessionTells(w)', DevicesKnow',
           SessionsAreFunctions',
           \A v \in Workers \ {w} : pc'[v] = pc[v] /\ req'[v] = req[v] /\ reply'[v] = reply[v]
    PROVE  ReadInvariant'
<1>1. StoreFits'
  BY DEF ReadInvariant, StoreFits, store
<1>2. \A v \in Workers \ {w} : SessionTells(v)'
  BY DEF ReadInvariant, SessionTells, store
<1>. QED  BY <1>1, <1>2 DEF ReadInvariant

\* Sessions are functions whatever one of them becomes.
LEMMA SessionSet ==
    ASSUME FeedInvariant, ReadInvariant, NEW w \in Workers,
           NEW label, pc' = [pc EXCEPT ![w] = label],
           NEW q, req' = req \/ req' = [req EXCEPT ![w] = q],
           NEW a, reply' = reply \/ reply' = [reply EXCEPT ![w] = a]
    PROVE  SessionsAreFunctions'
<1>1. SessionsAreFunctions
  BY DEF ReadInvariant
<1>2. DOMAIN pc = Workers /\ DOMAIN req = Workers /\ DOMAIN reply = Workers
  BY DEF FeedInvariant, LedgerType
<1>3. pc' = [v \in Workers |-> pc'[v]]
  BY <1>2
<1>4. req' = [v \in Workers |-> req'[v]]
  BY <1>1, <1>2 DEF SessionsAreFunctions
<1>5. reply' = [v \in Workers |-> reply'[v]]
  BY <1>1, <1>2 DEF SessionsAreFunctions
<1>. QED  BY <1>3, <1>4, <1>5 DEF SessionsAreFunctions

LEMMA SendReads ==
    ASSUME FeedInvariant, ReadInvariant, NEW w \in Workers, NEW r \in Readers, NEW op \in Ops,
           Send(w, r, op)
    PROVE  ReadInvariant'
<1>1. PICK adapter \in Adapters \union {None} :
        req' = [req EXCEPT ![w] =
              [reader |-> r, op |-> op, adapter |-> adapter,
               after |-> IF op = "list" THEN cursor[r] ELSE 0, since |-> Stage(match)]]
  BY DEF Send
<1>. DEFINE q == [reader |-> r, op |-> op, adapter |-> adapter,
                  after |-> IF op = "list" THEN cursor[r] ELSE 0, since |-> Stage(match)]
<1>2. /\ pc[w] = "idle" /\ pc' = [pc EXCEPT ![w] = "read"]
      /\ UNCHANGED <<store, reply, device>>
  BY DEF Send, Goto
<1>3. /\ DOMAIN pc = Workers /\ DOMAIN req = Workers /\ cursor[r] \in Nat
      /\ reply[w] = None
  BY <1>2 DEF FeedInvariant, LedgerType, ReadInvariant, SessionTells
<1>4. /\ Stage(match) \in Stages \union {None}
      /\ Stage(match) # None => match # None /\ Reaches(Stage(match), match)
  <2>1. CASE match = None
    BY <2>1 DEF Stage
  <2>2. CASE match # None
    <3>1. match.status \in {"DRAFT", "READY", "LIVE"} /\ match.sequence \in Nat
      BY <2>2 DEF ReadInvariant, StoreFits, Snapshots, Statuses
    <3>2. Stage(match) = [status |-> match.status, sequence |-> match.sequence]
      BY <2>2 DEF Stage
    <3>. QED  BY <2>2, <3>1, <3>2 DEF Stages, Statuses, Reaches, StatusesFrom
  <2>. QED  BY <2>1, <2>2
<1>5. q \in Asks /\ q.since = Stage(match)
  BY <1>3, <1>4 DEF Asks
<1>6. pc'[w] = "read" /\ req'[w] = q /\ reply'[w] = None /\ match' = match
  BY <1>1, <1>2, <1>3 DEF store
<1>. HIDE DEF q
<1>7. SessionTells(w)'
  BY <1>4, <1>5, <1>6 DEF SessionTells
<1>8. DevicesKnow'
  BY <1>2 DEF ReadInvariant, DevicesKnow, store, device
<1>9. SessionsAreFunctions'
  BY <1>1, <1>2, SessionSet
<1>. QED  BY <1>1, <1>2, <1>3, <1>7, <1>8, <1>9, SessionReads

LEMMA AnswerReads ==
    ASSUME FeedInvariant, ReadInvariant, NEW w \in Workers, NEW outcome, NEW value,
           pc[w] # "idle", Answer(w, outcome, value),
           [outcome |-> outcome, value |-> value] \in Replies,
           AnswerFits(ledger, req[w], [outcome |-> outcome, value |-> value])
    PROVE  ReadInvariant'
<1>1. /\ pc' = [pc EXCEPT ![w] = "reply"]
      /\ reply' = [reply EXCEPT ![w] = [outcome |-> outcome, value |-> value]]
      /\ req' = req /\ UNCHANGED <<store, device>>
  BY DEF Answer, Goto
<1>2. DOMAIN pc = Workers /\ DOMAIN req = Workers /\ DOMAIN reply = Workers
  BY DEF FeedInvariant, LedgerType
<1>3. pc'[w] = "reply" /\ reply'[w] = [outcome |-> outcome, value |-> value]
  BY <1>1, <1>2
<1>4. SessionTells(w)
  BY DEF ReadInvariant
<1>5. SessionTells(w)'
  BY <1>1, <1>3, <1>4 DEF SessionTells, store
<1>6. DevicesKnow'
  BY <1>1 DEF ReadInvariant, DevicesKnow, store, device
<1>7. SessionsAreFunctions'
  BY <1>1, SessionSet
<1>. QED  BY <1>1, <1>2, <1>5, <1>6, <1>7, SessionReads

\* The request that is being served.
LEMMA RequestServed ==
    ASSUME ReadInvariant, NEW w \in Workers, pc[w] # "idle"
    PROVE  /\ req[w] \in Asks /\ req[w].after \in Nat
           /\ req[w].since \in Stages \union {None}
           /\ req[w].since # None =>
                 /\ match # None /\ Reaches(req[w].since, match)
                 /\ req[w].since \in Stages
<1>1. req[w] \in Asks
  BY DEF ReadInvariant, SessionTells
<1>2. req[w].after \in Nat /\ req[w].since \in Stages \union {None}
  BY <1>1 DEF Asks
<1>. QED  BY <1>1, <1>2 DEF ReadInvariant, SessionTells

\* Only a match that was not there when the request was sent is not found.
LEMMA NotFoundFits ==
    ASSUME ReadInvariant, NEW w \in Workers, pc[w] # "idle", match = None
    PROVE  /\ [outcome |-> "ErrMatchNotFound", value |-> None] \in Replies
           /\ AnswerFits(ledger, req[w], [outcome |-> "ErrMatchNotFound", value |-> None])
  BY RequestServed DEF Replies, AnswerFits

LEMMA FindMatchReads ==
    ASSUME FeedInvariant, ReadInvariant, NEW w \in Workers, FindMatch(w)
    PROVE  ReadInvariant'
<1>1. pc[w] = "read" /\ req[w].op = "list"
  BY DEF FindMatch
<1>2. CASE match = None /\ Answer(w, "ErrMatchNotFound", None)
  BY <1>1, <1>2, NotFoundFits, AnswerReads
<1>3. CASE Goto(w, "list") /\ UNCHANGED <<store, req, reply, device>>
  <2>1. /\ pc' = [pc EXCEPT ![w] = "list"] /\ DOMAIN pc = Workers
        /\ req' = req /\ reply' = reply /\ UNCHANGED <<store, device>>
    BY <1>3 DEF Goto, FeedInvariant, LedgerType
  <2>2. SessionTells(w)'
    BY <1>1, <2>1 DEF ReadInvariant, SessionTells, store
  <2>3. DevicesKnow'
    BY <2>1 DEF ReadInvariant, DevicesKnow, store, device
  <2>4. SessionsAreFunctions'
    BY <2>1, SessionSet
  <2>. QED  BY <2>1, <2>2, <2>3, <2>4, SessionReads
<1>. QED  BY <1>2, <1>3 DEF FindMatch

\* A page holds every event there is, from where it was asked for.
LEMMA PageIsComplete ==
    ASSUME ledger \in Seq(Events), NEW after \in Nat, after <= Len(ledger)
    PROVE  /\ Page(after) \in Pages
           /\ after < Len(ledger) => Page(after).last = Len(ledger)
<1>. DEFINE items == Items(after)
<1>1. Len(ledger) \in Nat /\ \A i \in after + 1 .. Len(ledger) : ledger[i] \in Events
  BY LenProperties, ElementOfSeq
<1>2. /\ items \in Seq(Events)
      /\ Len(items) = IF after + 1 <= Len(ledger) THEN Len(ledger) - (after + 1) + 1 ELSE 0
  BY <1>1, SubSeqProperties DEF Items
<1>3. Page(after) = [items |-> items, first |-> after + 1, last |-> LastSequence(after, items)]
  BY DEF Page
<1>. HIDE DEF items
<1>4. LastSequence(after, items) \in Nat
  BY <1>1, <1>2 DEF LastSequence
<1>5. after < Len(ledger) => LastSequence(after, items) = Len(ledger)
  <2>1. after < Len(ledger) => items # <<>> /\ Len(items) = Len(ledger) - after
    BY <1>1, <1>2, EmptySeq
  <2>. QED  BY <1>1, <2>1 DEF LastSequence
<1>. QED  BY <1>2, <1>3, <1>4, <1>5 DEF Pages

LEMMA ListEventsReads ==
    ASSUME FeedInvariant, ReadInvariant, NEW w \in Workers, ListEvents(w)
    PROVE  ReadInvariant'
<1>. DEFINE q     == req[w]
            after == AfterSequence(q)
            a     == [outcome |-> "ok", value |-> Page(after)]
<1>1. pc[w] = "list" /\ Answer(w, "ok", Page(after)) /\ q.op = "list" /\ q.after \in Nat
  BY RequestServed DEF ListEvents, ReadInvariant, SessionTells
<1>2. ledger \in Seq(Events) /\ Len(ledger) \in Nat /\ q.after <= Len(ledger)
  <2>1. /\ q.reader \in Readers /\ q.after <= Len(copy[q.reader])
        /\ Len(copy[q.reader]) <= Len(ledger) /\ Len(copy[q.reader]) \in Nat
        /\ ledger \in Seq(Events)
    BY <1>1, LenProperties
       DEF FeedInvariant, LedgerType, SessionFits, DeviceFits, SegmentOf
  <2>. QED  BY <1>1, <2>1, LenProperties
<1>3. after \in Nat /\ after <= q.after
  BY <1>1 DEF AfterSequence
<1>. HIDE DEF after
<1>4. Page(after) \in Pages /\ (after < Len(ledger) => Page(after).last = Len(ledger))
  BY <1>1, <1>2, <1>3, PageIsComplete
<1>5. a \in Replies
  BY <1>4 DEF Replies
<1>6. ASSUME q.since # None, q.after < q.since.sequence
      PROVE  Page(after).last >= q.since.sequence
  <2>1. /\ match # None /\ Reaches(q.since, match) /\ q.since \in Stages
        /\ match.sequence = Len(ledger)
    BY <1>1, <1>6, RequestServed DEF ReadInvariant, StoreFits
  <2>2. q.since.sequence \in Nat /\ q.since.sequence <= Len(ledger)
    BY <2>1 DEF Stages, Reaches
  <2>. QED  BY <1>1, <1>2, <1>3, <1>4, <1>6, <2>2
<1>7. AnswerFits(ledger, q, a)
  BY <1>1, <1>6 DEF AnswerFits
<1>. QED  BY <1>1, <1>5, <1>7, AnswerReads

LEMMA GetReads ==
    ASSUME FeedInvariant, ReadInvariant, NEW w \in Workers, GetSnapshot(w) \/ GetMatch(w)
    PROVE  ReadInvariant'
<1>1. pc[w] = "read" /\ req[w].op \in {"snapshot", "match"}
  BY DEF GetSnapshot, GetMatch
<1>2. CASE match = None /\ Answer(w, "ErrMatchNotFound", None)
  BY <1>1, <1>2, NotFoundFits, AnswerReads
<1>3. ASSUME match # None
      PROVE  /\ match \in Snapshots /\ Tells(ledger, match) /\ Stage(match) \in Stages
             /\ Stage(match).sequence = match.sequence /\ Stage(match).status = match.status
  BY <1>3 DEF ReadInvariant, StoreFits, Stage, Stages, Snapshots
<1>4. CASE req[w].op = "snapshot" /\ match # None /\ Answer(w, "ok", match)
  <2>. DEFINE a == [outcome |-> "ok", value |-> match]
  <2>1. a \in Replies
    BY <1>3, <1>4 DEF Replies
  <2>2. AnswerFits(ledger, req[w], a)
    BY <1>1, <1>3, <1>4, RequestServed DEF AnswerFits
  <2>. QED  BY <1>1, <1>4, <2>1, <2>2, AnswerReads
<1>5. CASE req[w].op = "match" /\ match # None /\ Answer(w, "ok", Stage(match))
  <2>. DEFINE a == [outcome |-> "ok", value |-> Stage(match)]
  <2>1. a \in Replies
    BY <1>3, <1>5 DEF Replies
  <2>2. AnswerFits(ledger, req[w], a)
    BY <1>1, <1>3, <1>5, RequestServed DEF AnswerFits, Reaches
  <2>. QED  BY <1>1, <1>5, <2>1, <2>2, AnswerReads
<1>. QED  BY <1>2, <1>4, <1>5 DEF GetSnapshot, GetMatch

\* The end of a session, whatever the device has learned from it.
LEMMA EndReads ==
    ASSUME FeedInvariant, ReadInvariant, NEW w \in Workers, EndSession(w), DevicesKnow'
    PROVE  ReadInvariant'
<1>1. /\ pc' = [pc EXCEPT ![w] = "idle"] /\ req' = [req EXCEPT ![w] = None]
      /\ reply' = [reply EXCEPT ![w] = None] /\ UNCHANGED store
  BY DEF EndSession, Goto
<1>2. DOMAIN pc = Workers /\ DOMAIN req = Workers /\ DOMAIN reply = Workers
  BY DEF FeedInvariant, LedgerType
<1>3. SessionTells(w)'
  BY <1>1, <1>2 DEF SessionTells
<1>4. SessionsAreFunctions'
  BY <1>1, SessionSet
<1>. QED  BY <1>1, <1>2, <1>3, <1>4, SessionReads

LEMMA DeliverReads ==
    ASSUME FeedInvariant, ReadInvariant, NEW w \in Workers, Deliver(w)
    PROVE  ReadInvariant'
<1>. DEFINE r     == req[w].reader
            value == reply[w].value
<1>1. EndSession(w) /\ ledger' = ledger /\ SessionTells(w) /\ pc[w] = "reply"
  BY DEF Deliver, EndSession, store, ReadInvariant
<1>2. CASE known' = known
  BY <1>1, <1>2, EndReads DEF ReadInvariant, DevicesKnow
<1>3. CASE /\ HttpStatus(reply[w].outcome) = 200 /\ req[w].op = "snapshot"
           /\ known' = [known EXCEPT ![r] = value]
  <2>1. reply[w].outcome = "ok" /\ r \in Readers
    <3>1. reply[w] \in Replies /\ req[w] \in Asks
      BY <1>1 DEF SessionTells
    <3>2. reply[w].outcome \in {"ok", "ErrMatchNotFound"} /\ r \in Readers
      BY <3>1 DEF Replies, Asks
    <3>. QED  BY <1>3, <3>2 DEF HttpStatus
  <2>2. Tells(ledger, value) /\ value \in Snapshots
    BY <1>1, <1>3, <2>1 DEF SessionTells, AnswerFits, Tells
  <2>3. DevicesKnow'
    BY <1>1, <1>3, <2>1, <2>2 DEF ReadInvariant, DevicesKnow
  <2>. QED  BY <1>1, <2>3, EndReads
<1>. QED  BY <1>2, <1>3 DEF Deliver

LEMMA LoseReads ==
    ASSUME FeedInvariant, ReadInvariant, NEW w \in Workers, Lose(w)
    PROVE  ReadInvariant'
<1>1. EndSession(w) /\ DevicesKnow'
  BY DEF Lose, EndSession, store, device, ReadInvariant, DevicesKnow
<1>. QED  BY <1>1, EndReads

LEMMA ReadNext == FeedInvariant /\ ReadInvariant /\ [Next]_vars => ReadInvariant'
<1>. SUFFICES ASSUME FeedInvariant, ReadInvariant, [Next]_vars PROVE ReadInvariant'
  OBVIOUS
<1>0. ledger \in Seq(Events)
  BY DEF FeedInvariant, LedgerType
<1>1. CASE Advance
  BY <1>0, <1>1, AdvanceReads
<1>2. ASSUME NEW c \in Commands, Record(c) PROVE ReadInvariant'
  BY <1>0, <1>2, RecordReads
<1>3. ASSUME NEW n \in 1 .. MaxEvents, Undo(n) PROVE ReadInvariant'
  BY <1>0, <1>3, UndoReads
<1>4. ASSUME NEW w \in Workers, NEW r \in Readers, NEW op \in Ops, Send(w, r, op)
      PROVE  ReadInvariant'
  BY <1>4, SendReads
<1>5. ASSUME NEW w \in Workers, Serve(w) PROVE ReadInvariant'
  BY <1>5, FindMatchReads, ListEventsReads, GetReads DEF Serve
<1>6. ASSUME NEW w \in Workers, Deliver(w) PROVE ReadInvariant'
  BY <1>6, DeliverReads
<1>7. ASSUME NEW w \in Workers, Lose(w) PROVE ReadInvariant'
  BY <1>7, LoseReads
<1>8. CASE UNCHANGED vars
  BY <1>8 DEF vars, ReadInvariant, StoreFits, SessionsAreFunctions, SessionTells, DevicesKnow
<1>. QED  BY <1>1, <1>2, <1>3, <1>4, <1>5, <1>6, <1>7, <1>8 DEF Next

-----------------------------------------------------------------------------
(* The theorems about what reads tell *)

\* What every step keeps, besides the above: the match has the score of its ledger,
\* every snapshot under way or in a device that of the events it counts, and no
\* answer is behind the moment its request was sent.
THEOREM ReadsAreConsistent == Spec => [](FeedInvariant /\ ReadInvariant)
  BY ReadInit, ReadNext, FeedIsConsistent, PTL DEF Spec

\* The store, the sessions and the devices have their types.
THEOREM FeedTypeCorrect == Spec => []TypeOK
<1>1. ASSUME FeedInvariant, ReadInvariant PROVE TypeOK
  <2>1. /\ match \in Snapshots \union {None} /\ ledger \in Seq(Events)
        /\ \A n \in DOMAIN ledger : ledger[n].reverses \in 0 .. n - 1
    BY <1>1, LenProperties DEF FeedInvariant, LedgerType, ReadInvariant, StoreFits,
                               ReversesEarlier
  <2>2. SessionsAreFunctions
    BY <1>1 DEF ReadInvariant
  <2>3. ASSUME NEW w \in Workers
        PROVE  /\ pc[w] \in {"idle", "read", "list", "reply"}
               /\ req[w] \in Asks \union {None} /\ reply[w] \in Replies \union {None}
               /\ pc[w] = "idle" <=> req[w] = None
               /\ pc[w] = "reply" <=> reply[w] # None
    BY <1>1, NoneAssumption DEF ReadInvariant, SessionTells
  <2>4. ASSUME NEW r \in Readers PROVE cursor[r] \in 0 .. MaxEvents
    <3>1. /\ cursor[r] \in Nat /\ cursor[r] <= Len(copy[r])
          /\ Len(copy[r]) <= Len(ledger) /\ Len(ledger) <= MaxEvents
          /\ copy[r] \in Seq(Events) /\ ledger \in Seq(Events)
      <4>1. LedgerType /\ DeviceFits(r) /\ StoreFits
        BY <1>1 DEF FeedInvariant, ReadInvariant
      <4>2. Len(copy[r]) \in Nat /\ Len(ledger) \in Nat
        BY <4>1, LenProperties DEF LedgerType
      <4>. QED  BY <4>1, <4>2 DEF LedgerType, DeviceFits, SegmentOf, StoreFits
    <3>2. Len(copy[r]) \in Nat /\ Len(ledger) \in Nat
      BY <3>1, LenProperties
    <3>. QED  BY <3>1, <3>2, FeedAssumption
  <2>5. /\ pc \in [Workers -> {"idle", "read", "list", "reply"}]
        /\ req \in [Workers -> Asks \union {None}]
        /\ reply \in [Workers -> Replies \union {None}]
    BY <2>2, <2>3 DEF SessionsAreFunctions
  <2>. QED
    BY <1>1, <2>1, <2>3, <2>4, <2>5
       DEF TypeOK, FeedInvariant, LedgerType, ReadInvariant, DevicesKnow
<1>. QED  BY <1>1, ReadsAreConsistent, PTL

\* A read sees everything that was committed before it was sent, however many
\* commits and other reads come between its statements.
THEOREM AnswersAreAlwaysFresh == Spec => []AnswersAreFresh
<1>1. ReadInvariant => AnswersAreFresh
  BY DEF ReadInvariant, SessionTells, AnswerFits, Reaches, AnswersAreFresh
<1>. QED  BY <1>1, ReadsAreConsistent, PTL

\* A device derives the score of a snapshot from the events it has, although the
\* two come from different requests.
THEOREM SnapshotsAgreeWithFeeds == Spec => []SnapshotAgreesWithFeed
<1>1. ASSUME FeedInvariant, ReadInvariant PROVE SnapshotAgreesWithFeed
  <2>. SUFFICES ASSUME NEW r \in Readers, known[r] # None, known[r].sequence <= Len(copy[r])
                PROVE  known[r].score = Score(SubSeq(copy[r], 1, known[r].sequence))
    BY DEF SnapshotAgreesWithFeed, Score
  <2>. DEFINE n == known[r].sequence
  <2>1. /\ n \in Nat /\ n <= Len(ledger)
        /\ known[r].score = Score(SubSeq(ledger, 1, n))
    BY <1>1 DEF ReadInvariant, DevicesKnow, Tells, Snapshots
  <2>2. /\ ledger \in Seq(Events) /\ copy[r] \in Seq(Events)
        /\ \A i \in 1 .. Len(copy[r]) : copy[r][i] = ledger[i]
    <3>1. ledger \in Seq(Events) /\ copy[r] \in Seq(Events) /\ SegmentOf(ledger, copy[r], 1)
      BY <1>1 DEF FeedInvariant, LedgerType, DeviceFits
    <3>2. Len(copy[r]) \in Nat
      BY <3>1, LenProperties
    <3>. QED  BY <3>1, <3>2 DEF SegmentOf
  <2>3. Len(copy[r]) \in Nat /\ Len(ledger) \in Nat
    BY <2>2, LenProperties
  <2>4. n \in 0 .. Len(ledger) /\ n \in 0 .. Len(copy[r])
    BY <2>1, <2>3
  <2>. HIDE DEF n
  <2>5. /\ SubSeq(ledger, 1, n) \in Seq(Events) /\ Len(SubSeq(ledger, 1, n)) = n
        /\ \A i \in 1 .. n : SubSeq(ledger, 1, n)[i] = ledger[i]
    BY <2>2, <2>4, Beginning
  <2>6. /\ SubSeq(copy[r], 1, n) \in Seq(Events) /\ Len(SubSeq(copy[r], 1, n)) = n
        /\ \A i \in 1 .. n : SubSeq(copy[r], 1, n)[i] = copy[r][i]
    BY <2>2, <2>4, Beginning
  <2>7. \A i \in 1 .. n : copy[r][i] = ledger[i]
    BY <2>2, <2>3, <2>4
  <2>8. SubSeq(copy[r], 1, n) = SubSeq(ledger, 1, n)
    BY <2>5, <2>6, <2>7, SeqEqual
  <2>9. known[r].score = Score(SubSeq(copy[r], 1, n))
    BY <2>1, <2>8
  <2>. QED  BY <2>9 DEF n
<1>. QED  BY <1>1, ReadsAreConsistent, PTL

=============================================================================
