-------------------------- MODULE MatchSetupProofs --------------------------
(***************************************************************************)
(* Proofs about MatchSetup for any number of workers, matches and          *)
(* participants and every set of requests.                                 *)
(***************************************************************************)
EXTENDS MatchSetup, SequenceTheorems, FiniteSetTheorems, FunctionTheorems, TLAPS

Places == [side : {"HOME", "AWAY"}, state : {"STARTER", "BENCH", "NOT_SELECTED", "LEFT_MATCH"}]

IsRoster(roster) == DOMAIN roster \subseteq Participants /\ roster \in [DOMAIN roster -> Places]

-----------------------------------------------------------------------------
(* The tables *)

\* Both sides have so many starters.
Complete(roster, number) ==
    \A side \in {"HOME", "AWAY"} : Cardinality(Starters(roster, side)) = number

EventFits(e, roster) ==
    /\ eventActionRoles[e.action] \subseteq RolesIn(e.subjects)
    /\ SubjectsFit(e, roster)

RecordedEvents == {EventOf(r) : r \in {q \in Requests : q.op = "event"}}

\* A match, its participants and its events.
MatchFits(m) ==
    /\ status[m] = "NONE" <=> players[m] \notin 2 .. 11
    /\ status[m] \in {"READY", "LIVE"} => Complete(RosterOf(m), players[m])
    /\ events[m] \in Seq(RecordedEvents)
    /\ events[m] # <<>> => status[m] = "LIVE"
    /\ \A i \in 1 .. Len(events[m]) : EventFits(events[m][i], RosterOf(m))

TablesFit ==
    /\ status \in [Matches -> {"NONE", "DRAFT", "READY", "LIVE"}]
    /\ DOMAIN players = Matches /\ DOMAIN events = Matches
    /\ rows \in [Participants -> Entries \union {None}]
    /\ \A p \in Participants : rows[p] # None => status[rows[p].match] # "NONE"
    /\ \A m \in Matches : MatchFits(m)

-----------------------------------------------------------------------------
(* Answers and records *)

\* What a value says to the request it answers.
Tells(r, value) ==
    /\ r.op = "roster" => /\ OnSide(value, "HOME") = ToSet(r.home)
                          /\ OnSide(value, "AWAY") = ToSet(r.away)
    /\ r.op = "event" => value = EventOf(r)

\* The match a draft was answered with is there, and for the players asked for.
HasDraft(r, value) ==
    r.op = "create" => /\ value \in Matches /\ status[value] # "NONE"
                       /\ players[value] = r.players

\* A record answers every request that may be given its result.
RecordFits(k) ==
    /\ records[k] = [hash |-> records[k].hash, result |-> Success(records[k].result.value),
                     expired |-> records[k].expired]
    /\ records[k].expired \in BOOLEAN
    /\ \A r \in Requests : RecordKey(r) = k /\ RequestHash(r) = records[k].hash =>
          Tells(r, records[k].result.value) /\ HasDraft(r, records[k].result.value)
    /\ k.op = "create" => /\ records[k].result.value \in Matches
                          /\ status[records[k].result.value] # "NONE"

RecordsFit ==
    /\ DOMAIN records = RecordKeys
    /\ \A k \in RecordKeys : records[k] # None => RecordFits(k)
    /\ \A j, k \in RecordKeys :
          /\ j.op = "create" /\ k.op = "create" /\ records[j] # None /\ records[k] # None
          /\ records[j].result.value = records[k].result.value
          => j = k

-----------------------------------------------------------------------------
(* Transactions *)

Writing(w) == pc[w] \in {"insert", "commit"} /\ req[w].op = "roster"

Creating(w) == pc[w] = "commit" /\ req[w].op = "create"

RequestFits(w) ==
    /\ pc[w] \in {"idle", "reserve", "replay", "lock", "write", "insert", "commit", "reply"}
    /\ pc[w] # "idle" => req[w] \in Requests
    /\ pc[w] \notin {"idle", "reply"} => Accepted(req[w])
    /\ pc[w] = "lock" => req[w].op # "create"
    /\ pc[w] \in {"write", "insert", "commit"} => WellFormed(req[w])
    /\ todo[w] \in Seq(Participants)

\* A transaction has the locks its place in the code implies, or has seen the
\* record of its key.
HoldsLocks(w) ==
    /\ pc[w] = "replay" => RecordFits(RecordKey(req[w]))
    /\ pc[w] \in {"lock", "write", "insert", "commit"} =>
          owner[RecordKey(req[w])] = w /\ Reservable(RecordKey(req[w]))
    /\ pc[w] \in {"write", "insert", "commit"} /\ req[w].op # "create" =>
          matchLock[req[w].match] = w /\ status[req[w].match] # "NONE"

\* What is inserted and what is left to insert make up the roster asked for.
InsertFits(w) ==
    pc[w] = "insert" =>
        /\ req[w].op = "roster" /\ status[req[w].match] = "DRAFT" /\ ValidRoster(req[w])
        /\ draft[w] = [status |-> "DRAFT", roster |-> draft[w].roster, value |-> <<>>]
        /\ IsRoster(draft[w].roster)
        /\ DOMAIN draft[w].roster \union ToSet(todo[w]) = ToSet(req[w].home) \union ToSet(req[w].away)
        /\ \A p \in DOMAIN draft[w].roster :
              /\ draft[w].roster[p].side = IF p \in ToSet(req[w].home) THEN "HOME" ELSE "AWAY"
              /\ draft[w].roster[p].state = "NOT_SELECTED"

\* The participants that have been written belong to this match or to none.
RowsClaimed(w) ==
    Writing(w) =>
        \A p \in DOMAIN draft[w].roster : rows[p] # None => rows[p].match = req[w].match

\* What each operation is about to commit, and what it found.
CommitFits(w) ==
    LET r == req[w]
        d == draft[w]
        m == req[w].match
    IN  pc[w] = "commit" =>
        /\ r.op = "create" =>
              /\ d.status = "DRAFT" /\ d.roster = None
              /\ d.value \in Matches /\ status[d.value] = "NONE"
        /\ r.op # "lineups"
        /\ r.op = "roster" =>
              /\ status[m] = "DRAFT" /\ d.status = "DRAFT" /\ d.value = d.roster
              /\ IsRoster(d.roster) /\ Tells(r, d.roster)
        /\ r.op = "ready" =>
              /\ status[m] = "DRAFT" /\ d.status = "READY" /\ d.roster = None
              /\ Complete(RosterOf(m), players[m])
        /\ r.op = "live-session" =>
              status[m] = "READY" /\ d.status = "LIVE" /\ d.roster = None
        /\ r.op = "event" =>
              /\ status[m] = "LIVE" /\ d.status = "LIVE" /\ d.roster = None
              /\ d.value = EventOf(r) /\ EventFits(d.value, RosterOf(m))

ReplyFits(w) ==
    pc[w] = "reply" =>
        /\ reply[w].outcome \in Outcomes
        /\ reply[w].outcome = "ok" =>
              Tells(req[w], reply[w].value) /\ HasDraft(req[w], reply[w].value)

SessionFits(w) ==
    RequestFits(w) /\ HoldsLocks(w) /\ InsertFits(w) /\ RowsClaimed(w) /\ CommitFits(w) /\ ReplyFits(w)

\* No two transactions write the same participant or create the same match.
Apart(v, w) ==
    /\ Writing(v) /\ Writing(w) => DOMAIN draft[v].roster \intersect DOMAIN draft[w].roster = {}
    /\ Creating(v) /\ Creating(w) => draft[v].value # draft[w].value

\* Locks are held by open transactions that have got as far as to take them.
LocksFit ==
    /\ DOMAIN owner = RecordKeys /\ DOMAIN matchLock = Matches
    /\ \A k \in RecordKeys : owner[k] # None =>
          owner[k] \in Workers /\ pc[owner[k]] \in {"lock", "write", "insert", "commit"}
    /\ \A m \in Matches : matchLock[m] # None =>
          matchLock[m] \in Workers /\ pc[matchLock[m]] \in {"write", "insert", "commit"}

SessionsFit ==
    /\ DOMAIN pc = Workers /\ DOMAIN req = Workers /\ DOMAIN todo = Workers
    /\ DOMAIN draft = Workers /\ DOMAIN reply = Workers
    /\ \A w \in Workers : SessionFits(w)
    /\ \A v, w \in Workers : v # w => Apart(v, w)

SetupInvariant == TablesFit /\ RecordsFit /\ LocksFit /\ SessionsFit

-----------------------------------------------------------------------------
(* Sequences of participants *)

LEMMA SetOfSequence ==
    ASSUME NEW S, NEW s \in Seq(S)
    PROVE  /\ Len(s) \in Nat /\ DOMAIN s = 1 .. Len(s)
           /\ ToSet(s) \subseteq S /\ IsFiniteSet(ToSet(s))
           /\ Cardinality(ToSet(s)) = Len(s) <=> IsInjective(s)
<1>1. Len(s) \in Nat /\ DOMAIN s = 1 .. Len(s) /\ \A i \in 1 .. Len(s) : s[i] \in S
  BY LenProperties, ElementOfSeq
<1>2. s \in [1 .. Len(s) -> ToSet(s)] /\ ToSet(s) \subseteq S
  BY <1>1, LenProperties DEF ToSet
<1>3. s \in Surjection(1 .. Len(s), ToSet(s))
  BY <1>1, <1>2 DEF Surjection, ToSet
<1>4. IsFiniteSet(1 .. Len(s)) /\ Cardinality(1 .. Len(s)) = Len(s)
  <2>1. /\ IsFiniteSet(1 .. Len(s))
        /\ Cardinality(1 .. Len(s)) = IF 1 > Len(s) THEN 0 ELSE Len(s) - 1 + 1
    BY <1>1, FS_Interval
  <2>. QED  BY <1>1, <2>1
<1>5. /\ IsFiniteSet(ToSet(s))
      /\ Cardinality(ToSet(s)) = Cardinality(1 .. Len(s)) <=> s \in Injection(1 .. Len(s), ToSet(s))
  BY <1>3, <1>4, FS_Surjection
<1>6. s \in Injection(1 .. Len(s), ToSet(s)) <=> IsInjective(s)
  BY <1>2 DEF Injection
<1>. QED  BY <1>1, <1>2, <1>4, <1>5, <1>6

\* A roster without repetitions has as many participants on each side as the body
\* of the request, and nobody on both.
LEMMA NoParticipantTwice ==
    ASSUME NEW S, NEW s \in Seq(S), NEW t \in Seq(S),
           Cardinality(ToSet(s \o t)) = Len(s \o t)
    PROVE  /\ Cardinality(ToSet(s)) = Len(s) /\ Cardinality(ToSet(t)) = Len(t)
           /\ ToSet(s) \intersect ToSet(t) = {}
<1>1. /\ Len(s) \in Nat /\ DOMAIN s = 1 .. Len(s)
      /\ Len(t) \in Nat /\ DOMAIN t = 1 .. Len(t)
  BY SetOfSequence
<1>2. /\ s \o t \in Seq(S) /\ Len(s \o t) = Len(s) + Len(t)
      /\ \A i \in 1 .. Len(s) + Len(t) :
            (s \o t)[i] = IF i <= Len(s) THEN s[i] ELSE t[i - Len(s)]
  BY ConcatProperties
<1>. DEFINE u == s \o t
<1>3. IsInjective(u) /\ DOMAIN u = 1 .. Len(s) + Len(t)
  BY <1>2, SetOfSequence
<1>4. \A i \in 1 .. Len(s) : u[i] = s[i] /\ i \in 1 .. Len(s) + Len(t)
  BY <1>1, <1>2
<1>5. \A i \in 1 .. Len(t) : u[Len(s) + i] = t[i] /\ Len(s) + i \in 1 .. Len(s) + Len(t)
  BY <1>1, <1>2
<1>. HIDE DEF u
<1>6. IsInjective(s)
  BY <1>1, <1>3, <1>4 DEF IsInjective
<1>7. IsInjective(t)
  BY <1>1, <1>3, <1>5 DEF IsInjective
<1>8. ASSUME NEW i \in 1 .. Len(s), NEW j \in 1 .. Len(t), s[i] = t[j] PROVE FALSE
  <2>1. u[i] = u[Len(s) + j]
    BY <1>4, <1>5, <1>8
  <2>2. i = Len(s) + j
    BY <1>3, <1>4, <1>5, <2>1 DEF IsInjective
  <2>. QED  BY <1>1, <2>2
<1>9. ToSet(s) \intersect ToSet(t) = {}
  BY <1>1, <1>8 DEF ToSet
<1>. QED  BY <1>6, <1>7, <1>9, SetOfSequence

LEMMA SetOfConcat ==
    ASSUME NEW S, NEW s \in Seq(S), NEW t \in Seq(S)
    PROVE  ToSet(s \o t) = ToSet(s) \union ToSet(t)
<1>1. /\ Len(s) \in Nat /\ DOMAIN s = 1 .. Len(s)
      /\ Len(t) \in Nat /\ DOMAIN t = 1 .. Len(t)
  BY SetOfSequence
<1>2. /\ s \o t \in Seq(S) /\ Len(s \o t) = Len(s) + Len(t)
      /\ \A i \in 1 .. Len(s) + Len(t) :
            (s \o t)[i] = IF i <= Len(s) THEN s[i] ELSE t[i - Len(s)]
  BY ConcatProperties
<1>. DEFINE u == s \o t
<1>3. DOMAIN u = 1 .. Len(s) + Len(t)
  BY <1>2, SetOfSequence
<1>4. \A i \in 1 .. Len(s) : u[i] = s[i] /\ i \in 1 .. Len(s) + Len(t)
  BY <1>1, <1>2
<1>5. \A i \in 1 .. Len(t) : u[Len(s) + i] = t[i] /\ Len(s) + i \in 1 .. Len(s) + Len(t)
  BY <1>1, <1>2
<1>6. \A i \in 1 .. Len(s) + Len(t) :
          \/ i \in 1 .. Len(s) /\ u[i] = s[i]
          \/ i - Len(s) \in 1 .. Len(t) /\ u[i] = t[i - Len(s)]
  BY <1>1, <1>2
<1>. HIDE DEF u
<1>7. ToSet(u) \subseteq ToSet(s) \union ToSet(t)
  BY <1>1, <1>3, <1>6 DEF ToSet
<1>8. ToSet(s) \subseteq ToSet(u)
  BY <1>1, <1>3, <1>4 DEF ToSet
<1>9. ToSet(t) \subseteq ToSet(u)
  BY <1>1, <1>3, <1>5 DEF ToSet
<1>. QED  BY <1>7, <1>8, <1>9 DEF u

\* The first of a sequence and the others.
LEMMA SetOfTail ==
    ASSUME NEW S, NEW s \in Seq(S), s # <<>>
    PROVE  /\ Head(s) \in S /\ Tail(s) \in Seq(S)
           /\ ToSet(s) = {Head(s)} \union ToSet(Tail(s))
<1>1. /\ Head(s) \in S /\ Tail(s) \in Seq(S) /\ Len(Tail(s)) = Len(s) - 1
      /\ \A i \in 1 .. Len(Tail(s)) : Tail(s)[i] = s[i + 1]
  BY HeadTailProperties
<1>2. Len(s) \in Nat \ {0} /\ Head(s) = s[1]
  BY EmptySeq
<1>3. DOMAIN s = 1 .. Len(s) /\ DOMAIN Tail(s) = 1 .. Len(s) - 1
  BY <1>1, SetOfSequence
<1>4. ASSUME NEW i \in 1 .. Len(s) PROVE i = 1 \/ \E j \in 1 .. Len(s) - 1 : s[i] = Tail(s)[j]
  <2>1. CASE i # 1
    <3>1. i - 1 \in 1 .. Len(s) - 1 /\ s[i] = Tail(s)[i - 1]
      BY <1>1, <1>2, <2>1
    <3>. QED  BY <3>1
  <2>. QED  BY <2>1
<1>5. \A j \in 1 .. Len(s) - 1 : j + 1 \in 1 .. Len(s) /\ Tail(s)[j] = s[j + 1]
  BY <1>1, <1>2
<1>6. 1 \in 1 .. Len(s)
  BY <1>2
<1>7. ASSUME NEW i \in 1 .. Len(s) PROVE s[i] = Head(s) \/ s[i] \in ToSet(Tail(s))
  <2>1. CASE i = 1
    BY <1>2, <2>1
  <2>2. ASSUME NEW j \in 1 .. Len(s) - 1, s[i] = Tail(s)[j] PROVE s[i] \in ToSet(Tail(s))
    BY <1>3, <2>2 DEF ToSet
  <2>. QED  BY <1>4, <2>1, <2>2
<1>8. ToSet(Tail(s)) \subseteq ToSet(s) /\ Head(s) \in ToSet(s)
  BY <1>2, <1>3, <1>5, <1>6 DEF ToSet
<1>9. ToSet(s) \subseteq {Head(s)} \union ToSet(Tail(s))
  BY <1>3, <1>7 DEF ToSet
<1>. QED  BY <1>1, <1>8, <1>9

-----------------------------------------------------------------------------
(* Requests and the first state *)

\* What is known of a request, by its operation.
LEMMA RequestCases ==
    ASSUME NEW r \in Requests
    PROVE  /\ r.op \in {"create", "roster", "lineups", "ready", "live-session", "event"}
           /\ RecordKey(r) \in RecordKeys /\ RecordKey(r).op = r.op
           /\ r.op # "create" => r.match \in Matches
           /\ r.op \in {"roster", "lineups"} =>
                 r.home \in Seq(Participants) /\ r.away \in Seq(Participants)
<1>1. RecordKey(r) \in RecordKeys
  BY DEF RecordKeys
<1>2. RecordKey(r).op = r.op
  BY DEF RecordKey
<1>3. CASE r.op = "create" /\ r.match = None /\ r.players \in Nat
  BY <1>1, <1>2, <1>3
<1>4. CASE /\ r.op \in {"roster", "lineups", "ready", "live-session"}
           /\ r.match \in Matches
           /\ r.home \in Seq(Participants) /\ r.away \in Seq(Participants)
  BY <1>1, <1>2, <1>4
<1>5. CASE r.op = "event" /\ r.match \in Matches
  BY <1>1, <1>2, <1>5
<1>. QED  BY <1>3, <1>4, <1>5, RequestsAssumption

\* Requests with the same key and the same hash ask for the same.
LEMMA SameKeySameHash ==
    ASSUME NEW q \in Requests, NEW r \in Requests,
           RecordKey(q) = RecordKey(r), RequestHash(q) = RequestHash(r)
    PROVE  /\ q.op = r.op
           /\ r.op = "create" => q.players = r.players
           /\ r.op = "roster" => q.home = r.home /\ q.away = r.away
           /\ r.op = "event" => EventOf(q) = EventOf(r)
<1>1. q.op = r.op
  BY RequestCases
<1>2. CASE r.op = "create"
  <2>1. RequestHash(q) = <<q.format, q.players>> /\ RequestHash(r) = <<r.format, r.players>>
    BY <1>1, <1>2 DEF RequestHash
  <2>2. <<q.format, q.players>> = <<r.format, r.players>>
    BY <2>1
  <2>. QED  BY <1>1, <1>2, <2>2
<1>3. CASE r.op = "roster"
  <2>1. RequestHash(q) = <<q.home, q.away>> /\ RequestHash(r) = <<r.home, r.away>>
    BY <1>1, <1>3 DEF RequestHash
  <2>2. <<q.home, q.away>> = <<r.home, r.away>>
    BY <2>1
  <2>. QED  BY <1>1, <1>3, <2>2
<1>4. CASE r.op = "event"
  <2>1. RequestHash(q) = <<EventOf(q), q.expected>> /\ RequestHash(r) = <<EventOf(r), r.expected>>
    BY <1>1, <1>4 DEF RequestHash
  <2>2. <<EventOf(q), q.expected>> = <<EventOf(r), r.expected>>
    BY <2>1
  <2>. QED  BY <1>1, <1>4, <2>2
<1>. QED  BY <1>1, <1>2, <1>3, <1>4

\* The roster of a match gives its participants places.
LEMMA RosterType ==
    ASSUME rows \in [Participants -> Entries \union {None}], NEW m
    PROVE  /\ IsRoster(RosterOf(m))
           /\ \A p \in DOMAIN RosterOf(m) : rows[p] # None /\ rows[p].match = m
           /\ \A p \in Participants : rows[p] # None /\ rows[p].match = m => p \in DOMAIN RosterOf(m)
<1>. DEFINE ids == {p \in Participants : rows[p] # None /\ rows[p].match = m}
<1>1. RosterOf(m) = [p \in ids |-> [side |-> rows[p].side, state |-> rows[p].state]]
  BY DEF RosterOf
<1>2. \A p \in ids : rows[p] \in Entries
  OBVIOUS
<1>3. \A p \in ids : [side |-> rows[p].side, state |-> rows[p].state] \in Places
  BY <1>2 DEF Entries, Places
<1>. QED  BY <1>1, <1>3 DEF IsRoster

LEMMA InitFits == Init => SetupInvariant
<1>. SUFFICES ASSUME Init PROVE SetupInvariant
  OBVIOUS
<1>. USE DEF Init
<1>1. ASSUME NEW m \in Matches PROVE MatchFits(m)
  <2>1. status[m] = "NONE" <=> players[m] \notin 2 .. 11
    BY <1>1, SetupAssumption
  <2>2. events[m] = <<>> /\ status[m] \notin {"READY", "LIVE"} /\ Len(<<>>) = 0
    BY <1>1
  <2>3. events[m] \in Seq(RecordedEvents)
    BY <2>2
  <2>. QED  BY <2>1, <2>2, <2>3 DEF MatchFits
<1>2. TablesFit
  <2>1. \A p \in Participants : rows[p] # None => status[rows[p].match] # "NONE"
    BY SetupAssumption, RowsAssumption
  <2>2. status \in [Matches -> {"NONE", "DRAFT", "READY", "LIVE"}]
    OBVIOUS
  <2>. QED  BY <1>1, <2>1, <2>2, RowsAssumption DEF TablesFit
<1>3. RecordsFit
  BY DEF RecordsFit, RecordFits
<1>4. LocksFit
  BY DEF LocksFit
<1>5. ASSUME NEW w \in Workers PROVE SessionFits(w) /\ ~Writing(w) /\ ~Creating(w)
  <2>1. pc[w] = "idle" /\ todo[w] = <<>> /\ <<>> \in Seq(Participants)
    BY <1>5
  <2>. QED  BY <2>1 DEF SessionFits, RequestFits, HoldsLocks, InsertFits, RowsClaimed, CommitFits,
                        ReplyFits, Writing, Creating
<1>6. SessionsFit
  BY <1>5 DEF SessionsFit, Apart
<1>. QED  BY <1>2, <1>3, <1>4, <1>6 DEF SetupInvariant

-----------------------------------------------------------------------------
(* Steps that leave the tables alone *)

\* Only the session of w changes.
OnlySession(w) ==
    /\ DOMAIN pc' = Workers /\ DOMAIN req' = Workers /\ DOMAIN todo' = Workers
    /\ DOMAIN draft' = Workers /\ DOMAIN reply' = Workers
    /\ \A v \in Workers \ {w} :
          /\ pc'[v] = pc[v] /\ req'[v] = req[v] /\ todo'[v] = todo[v]
          /\ draft'[v] = draft[v] /\ reply'[v] = reply[v]

\* Only w takes locks or gives its own back, and keeps none at the end.
OnlyLocks(w) ==
    /\ DOMAIN owner' = RecordKeys /\ DOMAIN matchLock' = Matches
    /\ \A k \in RecordKeys :
          /\ owner[k] \notin {None, w} => owner'[k] = owner[k]
          /\ owner[k] \in {None, w} => owner'[k] \in {None, w}
          /\ owner'[k] = w => pc'[w] \in {"lock", "write", "insert", "commit"}
    /\ \A m \in Matches :
          /\ matchLock[m] \notin {None, w} => matchLock'[m] = matchLock[m]
          /\ matchLock[m] \in {None, w} => matchLock'[m] \in {None, w}
          /\ matchLock'[m] = w => pc'[w] \in {"write", "insert", "commit"}

LEMMA LocksStayWithOpenTransactions ==
    ASSUME LocksFit, NEW w \in Workers, OnlySession(w), OnlyLocks(w)
    PROVE  LocksFit'
<1>1. ASSUME NEW k \in RecordKeys, owner'[k] # None
      PROVE  owner'[k] \in Workers /\ pc'[owner'[k]] \in {"lock", "write", "insert", "commit"}
  <2>1. CASE owner[k] \in {None, w}
    BY <1>1, <2>1 DEF OnlyLocks
  <2>2. CASE owner[k] \notin {None, w}
    BY <1>1, <2>2 DEF OnlyLocks, OnlySession, LocksFit
  <2>. QED  BY <2>1, <2>2
<1>2. ASSUME NEW m \in Matches, matchLock'[m] # None
      PROVE  matchLock'[m] \in Workers /\ pc'[matchLock'[m]] \in {"write", "insert", "commit"}
  <2>1. CASE matchLock[m] \in {None, w}
    BY <1>2, <2>1 DEF OnlyLocks
  <2>2. CASE matchLock[m] \notin {None, w}
    BY <1>2, <2>2 DEF OnlyLocks, OnlySession, LocksFit
  <2>. QED  BY <2>1, <2>2
<1>3. DOMAIN owner' = RecordKeys /\ DOMAIN matchLock' = Matches
  BY DEF OnlyLocks
<1>. QED  BY <1>1, <1>2, <1>3 DEF LocksFit

\* The tables are read through these only.
LEMMA SameTables ==
    ASSUME UNCHANGED tables, TablesFit, RecordsFit
    PROVE  /\ TablesFit' /\ RecordsFit'
           /\ \A m : RosterOf(m)' = RosterOf(m)
           /\ \A k : Reservable(k)' = Reservable(k) /\ RecordFits(k)' = RecordFits(k)
<1>1. /\ status' = status /\ players' = players /\ rows' = rows
      /\ events' = events /\ records' = records
  BY DEF tables
<1>2. \A m : RosterOf(m)' = RosterOf(m)
  BY <1>1 DEF RosterOf
<1>3. \A m : MatchFits(m)' = MatchFits(m)
  BY <1>1, <1>2 DEF MatchFits
<1>4. TablesFit'
  BY <1>1, <1>3 DEF TablesFit
<1>5. \A k : RecordFits(k)' = RecordFits(k)
  BY <1>1 DEF RecordFits, HasDraft
<1>6. RecordsFit'
  BY <1>1, <1>5 DEF RecordsFit
<1>7. \A k : Reservable(k)' = Reservable(k)
  BY <1>1 DEF Reservable
<1>. QED  BY <1>2, <1>4, <1>5, <1>6, <1>7

\* Another session keeps the locks it holds.
LEMMA LocksOfOthers ==
    ASSUME NEW w \in Workers, NEW v \in Workers \ {w}, LocksFit,
           OnlySession(w), OnlyLocks(w), RequestFits(v), HoldsLocks(v)
    PROVE  /\ pc[v] \in {"lock", "write", "insert", "commit"} =>
                 RecordKey(req[v]) \in RecordKeys /\ owner'[RecordKey(req[v])] = v
           /\ pc[v] \in {"write", "insert", "commit"} /\ req[v].op # "create" =>
                 req[v].match \in Matches /\ matchLock'[req[v].match] = v
<1>1. v # None /\ v # w
  BY SetupAssumption
<1>2. pc[v] # "idle" => req[v] \in Requests
  BY DEF RequestFits
<1>3. ASSUME pc[v] \in {"lock", "write", "insert", "commit"}
      PROVE  RecordKey(req[v]) \in RecordKeys /\ owner'[RecordKey(req[v])] = v
  <2>1. RecordKey(req[v]) \in RecordKeys
    BY <1>2, <1>3, RequestCases
  <2>2. owner[RecordKey(req[v])] = v
    BY <1>3 DEF HoldsLocks
  <2>. QED  BY <1>1, <2>1, <2>2 DEF OnlyLocks
<1>4. ASSUME pc[v] \in {"write", "insert", "commit"}, req[v].op # "create"
      PROVE  req[v].match \in Matches /\ matchLock'[req[v].match] = v
  <2>1. req[v].match \in Matches
    BY <1>2, <1>4, RequestCases
  <2>2. matchLock[req[v].match] = v
    BY <1>4 DEF HoldsLocks
  <2>. QED  BY <1>1, <2>1, <2>2 DEF OnlyLocks
<1>. QED  BY <1>3, <1>4

\* A step of w that leaves the tables alone leaves the other sessions as they are.
LEMMA OthersAreLeftAlone ==
    ASSUME NEW w \in Workers, NEW v \in Workers \ {w}, SetupInvariant, UNCHANGED tables,
           OnlySession(w), OnlyLocks(w)
    PROVE  SessionFits(v)'
<1>1. /\ pc'[v] = pc[v] /\ req'[v] = req[v] /\ todo'[v] = todo[v]
      /\ draft'[v] = draft[v] /\ reply'[v] = reply[v]
  BY DEF OnlySession
<1>2. SessionFits(v) /\ LocksFit /\ TablesFit /\ RecordsFit
  BY DEF SetupInvariant, SessionsFit
<1>3. /\ \A m : RosterOf(m)' = RosterOf(m)
      /\ \A k : Reservable(k)' = Reservable(k) /\ RecordFits(k)' = RecordFits(k)
      /\ status' = status /\ players' = players /\ rows' = rows
  BY <1>2, SameTables DEF tables
<1>4. RequestFits(v)'
  BY <1>1, <1>2 DEF SessionFits, RequestFits
<1>5. HoldsLocks(v)'
  <2>1. RequestFits(v) /\ HoldsLocks(v)
    BY <1>2 DEF SessionFits
  <2>2. /\ pc[v] \in {"lock", "write", "insert", "commit"} =>
              owner'[RecordKey(req[v])] = v
        /\ pc[v] \in {"write", "insert", "commit"} /\ req[v].op # "create" =>
              matchLock'[req[v].match] = v
    BY <1>2, <2>1, LocksOfOthers
  <2>. QED  BY <1>1, <1>3, <2>1, <2>2 DEF HoldsLocks
<1>6. InsertFits(v)'
  <2>1. InsertFits(v)
    BY <1>2 DEF SessionFits
  <2>2. ValidRoster(req[v])' = ValidRoster(req[v])
    BY <1>1, <1>3 DEF ValidRoster
  <2>. QED  BY <1>1, <1>3, <2>1, <2>2 DEF InsertFits
<1>7. RowsClaimed(v)'
  BY <1>1, <1>2, <1>3 DEF SessionFits, RowsClaimed, Writing
<1>8. CommitFits(v)'
  <2>1. CommitFits(v)
    BY <1>2 DEF SessionFits
  <2>. QED  BY <1>1, <1>3, <2>1 DEF CommitFits
<1>9. ReplyFits(v)'
  BY <1>1, <1>2, <1>3 DEF SessionFits, ReplyFits, HasDraft
<1>. QED  BY <1>4, <1>5, <1>6, <1>7, <1>8, <1>9 DEF SessionFits

\* What is to be shown of a step of w that leaves the tables alone.
LEMMA SessionStep ==
    ASSUME NEW w \in Workers, SetupInvariant, UNCHANGED tables, OnlySession(w), OnlyLocks(w),
           SessionFits(w)', \A v \in Workers \ {w} : Apart(v, w)'
    PROVE  SetupInvariant'
<1>1. TablesFit /\ RecordsFit /\ LocksFit /\ SessionsFit
  BY DEF SetupInvariant
<1>2. TablesFit' /\ RecordsFit'
  BY <1>1, SameTables
<1>3. LocksFit'
  BY <1>1, LocksStayWithOpenTransactions
<1>4. \A v \in Workers : SessionFits(v)'
  BY OthersAreLeftAlone
<1>5. ASSUME NEW u \in Workers, NEW v \in Workers, u # v PROVE Apart(u, v)'
  <2>1. CASE v = w
    BY <1>5, <2>1
  <2>2. CASE u = w
    <3>1. Apart(v, u)'
      BY <1>5, <2>2
    <3>. QED  BY <3>1 DEF Apart
  <2>3. CASE u # w /\ v # w
    <3>1. Apart(u, v)
      BY <1>1, <1>5 DEF SessionsFit
    <3>2. /\ pc'[u] = pc[u] /\ req'[u] = req[u] /\ draft'[u] = draft[u]
          /\ pc'[v] = pc[v] /\ req'[v] = req[v] /\ draft'[v] = draft[v]
      BY <2>3 DEF OnlySession
    <3>. QED  BY <3>1, <3>2 DEF Apart, Writing, Creating
  <2>. QED  BY <2>1, <2>2, <2>3
<1>6. SessionsFit'
  BY <1>4, <1>5 DEF SessionsFit, OnlySession
<1>. QED  BY <1>2, <1>3, <1>6 DEF SetupInvariant

\* A transaction that goes on keeps its locks.
LEMMA LocksAreKept ==
    ASSUME NEW w \in Workers, LocksFit, UNCHANGED locks,
           pc[w] \in {"lock", "write", "insert", "commit"} =>
               pc'[w] \in {"lock", "write", "insert", "commit"},
           pc[w] \in {"write", "insert", "commit"} => pc'[w] \in {"write", "insert", "commit"}
    PROVE  OnlyLocks(w)
<1>1. owner' = owner /\ matchLock' = matchLock
  BY DEF locks
<1>2. w # None
  BY SetupAssumption
<1>. QED  BY <1>1, <1>2 DEF OnlyLocks, LocksFit

LEMMA LocksAreReleased ==
    ASSUME NEW w \in Workers, LocksFit, Release(w)
    PROVE  OnlyLocks(w)
<1>1. w # None
  BY SetupAssumption
<1>2. DOMAIN owner' = RecordKeys /\ DOMAIN matchLock' = Matches
  BY DEF LocksFit, Release
<1>3. \A k \in RecordKeys : owner'[k] = IF owner[k] = w THEN None ELSE owner[k]
  BY DEF LocksFit, Release
<1>4. \A m \in Matches : matchLock'[m] = IF matchLock[m] = w THEN None ELSE matchLock[m]
  BY DEF LocksFit, Release
<1>. QED  BY <1>1, <1>2, <1>3, <1>4 DEF OnlyLocks

\* A session that is idle, or about to answer, asks for nothing more.
LEMMA SessionEnds ==
    ASSUME NEW w \in Workers, SetupInvariant, UNCHANGED tables, OnlySession(w), OnlyLocks(w),
           todo'[w] \in Seq(Participants),
           pc'[w] = "idle" \/ (pc'[w] = "reply" /\ req'[w] \in Requests /\ ReplyFits(w)')
    PROVE  SetupInvariant'
<1>1. SessionFits(w)'
  BY DEF SessionFits, RequestFits, HoldsLocks, InsertFits, RowsClaimed, CommitFits, ReplyFits, Writing
<1>2. \A v \in Workers \ {w} : Apart(v, w)'
  BY DEF Apart, Writing, Creating
<1>. QED  BY <1>1, <1>2, SessionStep

LEMMA FinishEndsSession ==
    ASSUME NEW w \in Workers, SetupInvariant, NEW result, Finish(w, result)
    PROVE  /\ OnlySession(w) /\ OnlyLocks(w)
           /\ todo'[w] = <<>> /\ todo'[w] \in Seq(Participants)
           /\ pc'[w] = "reply" /\ req'[w] = req[w] /\ reply'[w] = result
<1>1. LocksFit /\ SessionsFit
  BY DEF SetupInvariant
<1>2. OnlyLocks(w)
  BY <1>1, LocksAreReleased DEF Finish
<1>3. /\ DOMAIN pc = Workers /\ DOMAIN req = Workers /\ DOMAIN todo = Workers
      /\ DOMAIN draft = Workers /\ DOMAIN reply = Workers
  BY <1>1 DEF SessionsFit
<1>4. /\ todo' = [todo EXCEPT ![w] = <<>>] /\ draft' = [draft EXCEPT ![w] = None]
      /\ reply' = [reply EXCEPT ![w] = result] /\ pc' = [pc EXCEPT ![w] = "reply"] /\ req' = req
  BY DEF Finish, Goto
<1>5. <<>> \in Seq(Participants)
  OBVIOUS
<1>. QED  BY <1>2, <1>3, <1>4, <1>5 DEF OnlySession

LEMMA RollbackKeeps ==
    ASSUME NEW w \in Workers, SetupInvariant, pc[w] # "idle",
           NEW err \in Outcomes \ {"ok"}, Rollback(w, err)
    PROVE  SetupInvariant'
<1>1. Finish(w, Failure(err)) /\ UNCHANGED tables
  BY DEF Rollback
<1>2. /\ OnlySession(w) /\ OnlyLocks(w) /\ todo'[w] \in Seq(Participants)
      /\ pc'[w] = "reply" /\ req'[w] = req[w] /\ reply'[w] = Failure(err)
  BY <1>1, FinishEndsSession
<1>3. req[w] \in Requests
  BY DEF SetupInvariant, SessionsFit, SessionFits, RequestFits
<1>4. ReplyFits(w)'
  BY <1>2 DEF ReplyFits, Failure
<1>. QED  BY <1>1, <1>2, <1>3, <1>4, SessionEnds

\* What is to be shown of a step of w that writes.
LEMMA WriteStep ==
    ASSUME NEW w \in Workers, SetupInvariant, UNCHANGED <<tables, locks, req, reply>>,
           OnlySession(w), pc[w] \in {"write", "insert"}, pc'[w] \in {"insert", "commit"},
           todo'[w] \in Seq(Participants),
           InsertFits(w)', RowsClaimed(w)', CommitFits(w)',
           \A v \in Workers \ {w} : Apart(v, w)'
    PROVE  SetupInvariant'
<1>1. SessionFits(w) /\ LocksFit /\ TablesFit /\ RecordsFit
  BY DEF SetupInvariant, SessionsFit
<1>2. UNCHANGED tables /\ UNCHANGED locks /\ req' = req
  OBVIOUS
<1>3. OnlyLocks(w)
  BY <1>1, <1>2, LocksAreKept
<1>4. RequestFits(w)'
  BY <1>1, <1>2 DEF SessionFits, RequestFits
<1>5. HoldsLocks(w)'
  <2>1. \A k : Reservable(k)' = Reservable(k)
    BY <1>1, <1>2, SameTables
  <2>2. owner' = owner /\ matchLock' = matchLock /\ status' = status
    BY <1>2 DEF tables, locks
  <2>. QED  BY <1>1, <1>2, <2>1, <2>2 DEF SessionFits, HoldsLocks
<1>6. ReplyFits(w)'
  BY DEF ReplyFits
<1>7. SessionFits(w)'
  BY <1>4, <1>5, <1>6 DEF SessionFits
<1>. QED  BY <1>2, <1>3, <1>7, SessionStep

\* What the operations find wrong.
LEMMA ErrorTypes ==
    ASSUME NEW r
    PROVE  /\ RosterError(r) \in (Outcomes \ {"ok"}) \union {"none"}
           /\ LineupError(r) \in Outcomes \ {"ok"}
           /\ EventError(r) \in (Outcomes \ {"ok"}) \union {"none"}
           /\ \A m : /\ ReadyError(m) \in (Outcomes \ {"ok"}) \union {"none"}
                     /\ LiveError(m) \in (Outcomes \ {"ok"}) \union {"none"}
<1>1. RosterError(r) \in (Outcomes \ {"ok"}) \union {"none"}
  BY DEF RosterError, Outcomes
<1>2. LineupError(r) \in Outcomes \ {"ok"}
  BY DEF LineupError, Outcomes
<1>3. EventError(r) \in (Outcomes \ {"ok"}) \union {"none"}
  BY DEF EventError, Outcomes
<1>4. \A m : /\ ReadyError(m) \in (Outcomes \ {"ok"}) \union {"none"}
             /\ LiveError(m) \in (Outcomes \ {"ok"}) \union {"none"}
  BY DEF ReadyError, LiveError, Outcomes
<1>. QED  BY <1>1, <1>2, <1>3, <1>4

-----------------------------------------------------------------------------
(* Reserving the key and locking the match *)

LEMMA ReceiveKeeps ==
    ASSUME SetupInvariant, NEW w \in Workers, NEW r \in Requests, Receive(w, r)
    PROVE  SetupInvariant'
<1>1. /\ UNCHANGED tables /\ UNCHANGED locks /\ todo' = todo /\ draft' = draft
      /\ pc[w] = "idle" /\ req' = [req EXCEPT ![w] = r]
  BY DEF Receive
<1>2. LocksFit /\ SessionsFit /\ SessionFits(w)
  BY DEF SetupInvariant, SessionsFit
<1>3. OnlyLocks(w)
  BY <1>1, <1>2, LocksAreKept
<1>4. todo'[w] \in Seq(Participants) /\ req'[w] = r
  BY <1>1, <1>2 DEF SessionFits, RequestFits, SessionsFit
<1>5. CASE ~Accepted(r) /\ Goto(w, "reply")
           /\ reply' = [reply EXCEPT ![w] = Failure("ErrInvalidMatchInput")]
  <2>1. OnlySession(w) /\ pc'[w] = "reply" /\ reply'[w] = Failure("ErrInvalidMatchInput")
    BY <1>1, <1>2, <1>5 DEF Goto, OnlySession, SessionsFit
  <2>2. ReplyFits(w)'
    BY <2>1 DEF ReplyFits, Failure, Outcomes
  <2>. QED  BY <1>1, <1>3, <1>4, <2>1, <2>2, SessionEnds
<1>6. CASE Accepted(r) /\ Goto(w, "reserve") /\ reply' = reply
  <2>1. OnlySession(w) /\ pc'[w] = "reserve"
    BY <1>1, <1>2, <1>6 DEF Goto, OnlySession, SessionsFit
  <2>2. Accepted(req[w])'
    BY <1>4, <1>6 DEF Accepted
  <2>3. SessionFits(w)'
    BY <1>4, <2>1, <2>2 DEF SessionFits, RequestFits, HoldsLocks, InsertFits, RowsClaimed, CommitFits,
                            ReplyFits, Writing
  <2>4. \A v \in Workers \ {w} : Apart(v, w)'
    BY <2>1 DEF Apart, Writing, Creating
  <2>. QED  BY <1>1, <1>3, <2>1, <2>3, <2>4, SessionStep
<1>. QED  BY <1>5, <1>6 DEF Receive

LEMMA ReserveKeeps ==
    ASSUME SetupInvariant, NEW w \in Workers, Reserve(w)
    PROVE  SetupInvariant'
<1>. DEFINE k == RecordKey(req[w])
<1>1. /\ UNCHANGED tables /\ matchLock' = matchLock /\ req' = req /\ todo' = todo
      /\ draft' = draft /\ reply' = reply /\ pc[w] = "reserve" /\ owner[k] = None
  BY DEF Reserve
<1>2. LocksFit /\ SessionsFit /\ RequestFits(w) /\ TablesFit /\ RecordsFit
  BY DEF SetupInvariant, SessionsFit, SessionFits
<1>3. req[w] \in Requests /\ k \in RecordKeys /\ w # None
  BY <1>1, <1>2, RequestCases, SetupAssumption DEF RequestFits
<1>4. ASSUME pc' = [pc EXCEPT ![w] = pc'[w]], pc'[w] \in {"lock", "write", "replay"}
      PROVE  OnlySession(w) /\ \A v \in Workers \ {w} : Apart(v, w)'
  <2>1. OnlySession(w)
    BY <1>1, <1>2, <1>4 DEF OnlySession, SessionsFit
  <2>2. \A v \in Workers \ {w} : Apart(v, w)'
    BY <1>4 DEF Apart, Writing, Creating
  <2>. QED  BY <2>1, <2>2
<1>5. CASE Reservable(k) /\ owner' = [owner EXCEPT ![k] = w] /\ Goto(w, Reserved(w))
  <2>1. pc' = [pc EXCEPT ![w] = pc'[w]] /\ pc'[w] = Reserved(w) /\ pc'[w] \in {"lock", "write"}
    BY <1>2, <1>5 DEF Goto, Reserved, SessionsFit
  <2>2. OnlyLocks(w)
    BY <1>1, <1>2, <1>3, <1>5, <2>1 DEF OnlyLocks, LocksFit
  <2>3. Reservable(k)'
    BY <1>2, <1>1, <1>5, SameTables
  <2>4. HoldsLocks(w)'
    BY <1>1, <1>2, <1>3, <1>5, <2>1, <2>3 DEF HoldsLocks, Reserved, LocksFit
  <2>5. RequestFits(w)'
    BY <1>1, <1>2, <2>1 DEF RequestFits, Reserved, WellFormed
  <2>6. SessionFits(w)'
    BY <2>1, <2>4, <2>5 DEF SessionFits, InsertFits, RowsClaimed, CommitFits, ReplyFits, Writing
  <2>. QED  BY <1>1, <1>4, <2>1, <2>2, <2>6, SessionStep
<1>6. CASE ~Reservable(k) /\ owner' = owner /\ Goto(w, "replay")
  <2>1. pc' = [pc EXCEPT ![w] = pc'[w]] /\ pc'[w] = "replay"
    BY <1>2, <1>6 DEF Goto, SessionsFit
  <2>2. OnlyLocks(w)
    BY <1>1, <1>2, <1>6, LocksAreKept DEF locks
  <2>3. RecordFits(k)'
    BY <1>1, <1>2, <1>3, <1>6, SameTables DEF RecordsFit, Reservable
  <2>4. HoldsLocks(w)'
    BY <1>1, <2>1, <2>3 DEF HoldsLocks
  <2>5. SessionFits(w)'
    BY <1>1, <1>2, <2>1, <2>4 DEF SessionFits, RequestFits, InsertFits, RowsClaimed, CommitFits,
                                  ReplyFits, Writing
  <2>. QED  BY <1>1, <1>4, <2>1, <2>2, <2>5, SessionStep
<1>. QED  BY <1>5, <1>6 DEF Reserve

\* The record of a taken key fits the request it is given to.
LEMMA ReplayKeeps ==
    ASSUME SetupInvariant, NEW w \in Workers, Replay(w)
    PROVE  SetupInvariant'
<1>. DEFINE k == RecordKey(req[w])
<1>1. pc[w] = "replay" /\ UNCHANGED tables /\ Finish(w, StoredResult(req[w]))
  BY DEF Replay
<1>2. /\ OnlySession(w) /\ OnlyLocks(w) /\ todo'[w] \in Seq(Participants)
      /\ pc'[w] = "reply" /\ req'[w] = req[w] /\ reply'[w] = StoredResult(req[w])
  BY <1>1, FinishEndsSession
<1>3. /\ RequestFits(w) /\ HoldsLocks(w)
      /\ TablesFit /\ RecordsFit
  BY DEF SetupInvariant, SessionsFit, SessionFits
<1>4. req[w] \in Requests /\ RecordFits(k)
  BY <1>1, <1>3 DEF RequestFits, HoldsLocks
<1>5. status' = status /\ players' = players
  BY <1>1 DEF tables
<1>6. CASE records[k].hash # RequestHash(req[w])
  <2>1. reply'[w].outcome = "ErrIdempotencyConflict"
    BY <1>2, <1>6 DEF StoredResult, Failure
  <2>2. ReplyFits(w)'
    BY <2>1 DEF ReplyFits, Outcomes
  <2>. QED  BY <1>1, <1>2, <1>4, <2>2, SessionEnds
<1>7. CASE records[k].hash = RequestHash(req[w])
  <2>1. reply'[w] = records[k].result
    BY <1>2, <1>7 DEF StoredResult
  <2>2. records[k].result = Success(records[k].result.value)
    BY <1>4 DEF RecordFits
  <2>3. reply'[w].outcome = "ok" /\ reply'[w].value = records[k].result.value
    BY <2>1, <2>2 DEF Success
  <2>4. Tells(req[w], records[k].result.value) /\ HasDraft(req[w], records[k].result.value)
    BY <1>4, <1>7 DEF RecordFits
  <2>5. ReplyFits(w)'
    BY <1>2, <1>5, <2>3, <2>4 DEF ReplyFits, Outcomes, Tells, HasDraft
  <2>. QED  BY <1>1, <1>2, <1>4, <2>5, SessionEnds
<1>. QED  BY <1>6, <1>7

LEMMA LockMatchKeeps ==
    ASSUME SetupInvariant, NEW w \in Workers, LockMatch(w)
    PROVE  SetupInvariant'
<1>. DEFINE m == Match(w)
<1>1. pc[w] = "lock"
  BY DEF LockMatch
<1>2. /\ RequestFits(w) /\ HoldsLocks(w)
      /\ LocksFit /\ SessionsFit /\ TablesFit /\ RecordsFit
  BY DEF SetupInvariant, SessionsFit, SessionFits
<1>3. req[w] \in Requests /\ req[w].op # "create" /\ m = req[w].match /\ m \in Matches
  BY <1>1, <1>2, RequestCases DEF RequestFits, Match
<1>4. CASE Rollback(w, "ErrInvalidMatchInput")
  BY <1>1, <1>4, RollbackKeeps DEF Outcomes
<1>5. CASE Rollback(w, "ErrMatchNotFound")
  BY <1>1, <1>5, RollbackKeeps DEF Outcomes
<1>6. CASE /\ WellFormed(req[w]) /\ status[m] # "NONE" /\ matchLock[m] = None
           /\ matchLock' = [matchLock EXCEPT ![m] = w] /\ Goto(w, "write")
           /\ UNCHANGED <<tables, owner, req, todo, draft, reply>>
  <2>1. /\ UNCHANGED tables /\ owner' = owner /\ req' = req /\ todo' = todo /\ draft' = draft
        /\ reply' = reply /\ status' = status
    BY <1>6 DEF tables
  <2>2. OnlySession(w) /\ pc'[w] = "write"
    BY <1>2, <1>6, <2>1 DEF Goto, OnlySession, SessionsFit
  <2>3. w # None /\ matchLock'[m] = w
    BY <1>2, <1>3, <1>6, SetupAssumption DEF LocksFit
  <2>4. OnlyLocks(w)
    <3>1. DOMAIN owner' = RecordKeys /\ DOMAIN matchLock' = Matches
      BY <1>2, <1>6, <2>1 DEF LocksFit
    <3>2. \A n \in Matches \ {m} : matchLock'[n] = matchLock[n]
      BY <1>2, <1>6 DEF LocksFit
    <3>. QED  BY <1>2, <1>6, <2>1, <2>2, <2>3, <3>1, <3>2 DEF OnlyLocks, LocksFit
  <2>5. Reservable(RecordKey(req[w]))' = Reservable(RecordKey(req[w]))
    BY <2>1 DEF Reservable, tables
  <2>6. HoldsLocks(w)'
    BY <1>1, <1>2, <1>3, <1>6, <2>1, <2>2, <2>3, <2>5 DEF HoldsLocks
  <2>7. RequestFits(w)'
    BY <1>1, <1>2, <1>6, <2>1, <2>2 DEF RequestFits
  <2>8. SessionFits(w)'
    BY <2>2, <2>6, <2>7 DEF SessionFits, InsertFits, RowsClaimed, CommitFits, ReplyFits, Writing
  <2>9. \A v \in Workers \ {w} : Apart(v, w)'
    BY <2>2 DEF Apart, Writing, Creating
  <2>. QED  BY <2>1, <2>2, <2>4, <2>8, <2>9, SessionStep
<1>. QED  BY <1>4, <1>5, <1>6 DEF LockMatch

-----------------------------------------------------------------------------
(* Writing *)

LEMMA PrepareFacts ==
    ASSUME SetupInvariant, NEW w \in Workers, NEW next, NEW roster, NEW value,
           Prepare(w, next, roster, value)
    PROVE  /\ UNCHANGED <<tables, locks, req, reply>> /\ OnlySession(w)
           /\ UNCHANGED tables /\ req' = req /\ pc'[w] = "commit" /\ todo'[w] \in Seq(Participants)
           /\ draft'[w].status = next /\ draft'[w].roster = roster /\ draft'[w].value = value
           /\ InsertFits(w)' /\ status' = status /\ players' = players /\ rows' = rows
<1>1. SessionsFit /\ SessionFits(w)
  BY DEF SetupInvariant, SessionsFit
<1>2. /\ draft' = [draft EXCEPT ![w] = [status |-> next, roster |-> roster, value |-> value]]
      /\ pc' = [pc EXCEPT ![w] = "commit"]
      /\ UNCHANGED <<tables, locks, req, todo, reply>>
  BY DEF Prepare, Goto
<1>3. /\ UNCHANGED <<tables, locks, req, reply>> /\ UNCHANGED tables
      /\ req' = req /\ todo' = todo /\ reply' = reply
  BY <1>2
<1>4. status' = status /\ players' = players /\ rows' = rows
  BY <1>3 DEF tables
<1>5. pc'[w] = "commit" /\ draft'[w] = [status |-> next, roster |-> roster, value |-> value]
  BY <1>1, <1>2 DEF SessionsFit
<1>6. OnlySession(w)
  BY <1>1, <1>2, <1>3 DEF OnlySession, SessionsFit
<1>7. todo'[w] \in Seq(Participants)
  BY <1>1, <1>3 DEF SessionFits, RequestFits
<1>8. InsertFits(w)'
  BY <1>5 DEF InsertFits
<1>. QED  BY <1>3, <1>4, <1>5, <1>6, <1>7, <1>8

\* Operations that write a status only, and an event.
LEMMA PrepareWithoutRoster ==
    ASSUME SetupInvariant, NEW w \in Workers, NEW next, NEW value, Prepare(w, next, None, value),
           pc[w] = "write", req[w].op \in {"ready", "live-session", "event"}, CommitFits(w)'
    PROVE  SetupInvariant'
<1>1. /\ UNCHANGED <<tables, locks, req, reply>> /\ OnlySession(w)
      /\ UNCHANGED tables /\ req' = req /\ pc'[w] = "commit" /\ todo'[w] \in Seq(Participants)
      /\ InsertFits(w)'
  BY PrepareFacts
<1>2. RowsClaimed(w)' /\ \A v \in Workers \ {w} : Apart(v, w)'
  BY <1>1 DEF RowsClaimed, Apart, Writing, Creating
<1>. QED  BY <1>1, <1>2, WriteStep

LEMMA InsertDraftKeeps ==
    ASSUME SetupInvariant, NEW w \in Workers, InsertDraft(w)
    PROVE  SetupInvariant'
<1>1. pc[w] = "write" /\ req[w].op = "create"
  BY DEF InsertDraft
<1>2. CASE Rollback(w, "internal")
  BY <1>1, <1>2, RollbackKeeps DEF Outcomes
<1>3. ASSUME NEW m \in Matches, status[m] = "NONE",
             \A v \in Workers : pc[v] = "commit" => Match(v) # m, Prepare(w, "DRAFT", None, m)
      PROVE  SetupInvariant'
  <2>1. /\ UNCHANGED <<tables, locks, req, reply>> /\ OnlySession(w)
        /\ UNCHANGED tables /\ req' = req /\ pc'[w] = "commit" /\ todo'[w] \in Seq(Participants)
        /\ draft'[w].status = "DRAFT" /\ draft'[w].roster = None /\ draft'[w].value = m
        /\ InsertFits(w)' /\ status' = status
    BY <1>3, PrepareFacts
  <2>2. CommitFits(w)'
    BY <1>1, <1>3, <2>1 DEF CommitFits
  <2>3. RowsClaimed(w)'
    BY <1>1, <2>1 DEF RowsClaimed, Writing
  <2>4. ASSUME NEW v \in Workers \ {w} PROVE Apart(v, w)'
    <3>1. pc'[v] = pc[v] /\ req'[v] = req[v] /\ draft'[v] = draft[v]
      BY <2>1 DEF OnlySession
    <3>2. pc[v] = "commit" /\ req[v].op = "create" => draft[v].value # m
      BY <1>3 DEF Match
    <3>. QED  BY <1>1, <2>1, <3>1, <3>2 DEF Apart, Writing, Creating
  <2>. QED  BY <1>1, <2>1, <2>2, <2>3, <2>4, WriteStep
<1>. QED  BY <1>2, <1>3 DEF InsertDraft

LEMMA ReadyWriteKeeps ==
    ASSUME SetupInvariant, NEW w \in Workers, ReadyWrite(w)
    PROVE  SetupInvariant'
<1>. DEFINE m == req[w].match
<1>1. pc[w] = "write" /\ req[w].op = "ready" /\ Match(w) = m
  BY DEF ReadyWrite, Match
<1>2. CASE ReadyError(m) # "none" /\ Rollback(w, ReadyError(m))
  <2>1. ReadyError(m) \in Outcomes \ {"ok"}
    BY <1>2, ErrorTypes
  <2>. QED  BY <1>1, <1>2, <2>1, RollbackKeeps
<1>3. CASE ReadyError(m) = "none" /\ Prepare(w, "READY", None, <<>>)
  <2>1. status[m] = "DRAFT" /\ Complete(RosterOf(m), players[m])
    BY <1>3 DEF ReadyError, LineupIsComplete, Complete
  <2>2. /\ UNCHANGED tables /\ req' = req /\ draft'[w].status = "READY"
        /\ draft'[w].roster = None /\ status' = status /\ players' = players /\ rows' = rows
    BY <1>3, PrepareFacts
  <2>3. RosterOf(m)' = RosterOf(m)
    BY <2>2 DEF RosterOf
  <2>4. CommitFits(w)'
    BY <1>1, <2>1, <2>2, <2>3 DEF CommitFits
  <2>. QED  BY <1>1, <1>3, <2>4, PrepareWithoutRoster
<1>. QED  BY <1>1, <1>2, <1>3 DEF ReadyWrite

LEMMA LiveWriteKeeps ==
    ASSUME SetupInvariant, NEW w \in Workers, LiveWrite(w)
    PROVE  SetupInvariant'
<1>. DEFINE m == req[w].match
<1>1. pc[w] = "write" /\ req[w].op = "live-session" /\ Match(w) = m
  BY DEF LiveWrite, Match
<1>2. CASE LiveError(m) # "none" /\ Rollback(w, LiveError(m))
  <2>1. LiveError(m) \in Outcomes \ {"ok"}
    BY <1>2, ErrorTypes
  <2>. QED  BY <1>1, <1>2, <2>1, RollbackKeeps
<1>3. CASE LiveError(m) = "none" /\ Prepare(w, "LIVE", None, <<>>)
  <2>1. status[m] = "READY"
    BY <1>3 DEF LiveError
  <2>2. /\ UNCHANGED tables /\ req' = req /\ draft'[w].status = "LIVE"
        /\ draft'[w].roster = None /\ status' = status
    BY <1>3, PrepareFacts
  <2>3. CommitFits(w)'
    BY <1>1, <2>1, <2>2 DEF CommitFits
  <2>. QED  BY <1>1, <1>3, <2>3, PrepareWithoutRoster
<1>. QED  BY <1>1, <1>2, <1>3 DEF LiveWrite

\* The handler has looked at the roles, the transaction looks at the roster.
LEMMA EventWriteKeeps ==
    ASSUME SetupInvariant, NEW w \in Workers, EventWrite(w)
    PROVE  SetupInvariant'
<1>. DEFINE r == req[w]
            roster == RosterOf(r.match)
<1>1. pc[w] = "write" /\ r.op = "event"
  BY DEF EventWrite
<1>2. CASE EventError(r) # "none" /\ Rollback(w, EventError(r))
  <2>1. EventError(r) \in Outcomes \ {"ok"}
    BY <1>2, ErrorTypes
  <2>. QED  BY <1>1, <1>2, <2>1, RollbackKeeps
<1>3. CASE EventError(r) = "none" /\ Prepare(w, "LIVE", None, EventOf(r))
  <2>1. status[r.match] = "LIVE" /\ SubjectsFit(r, roster)
    BY <1>3 DEF EventError
  <2>2. /\ UNCHANGED tables /\ req' = req /\ draft'[w].status = "LIVE" /\ rows' = rows
        /\ draft'[w].roster = None /\ status' = status /\ draft'[w].value = EventOf(r)
    BY <1>3, PrepareFacts
  <2>3. RosterOf(r.match)' = roster
    BY <2>2 DEF RosterOf
  <2>4. Validate(r)
    BY <1>1 DEF SetupInvariant, SessionsFit, SessionFits, RequestFits, Accepted
  <2>5. /\ EventOf(r).action = r.action /\ EventOf(r).subjects = r.subjects
        /\ EventOf(r).side = r.side
    BY DEF EventOf
  <2>6. SubjectsFit(EventOf(r), roster)
    BY <2>1, <2>5 DEF SubjectsFit
  <2>7. EventFits(EventOf(r), roster)
    BY <2>4, <2>5, <2>6 DEF EventFits, Validate
  <2>8. EventFits(draft[w].value, RosterOf(req[w].match))'
    BY <2>2, <2>3, <2>7 DEF EventFits, SubjectsFit
  <2>9. CommitFits(w)'
    BY <1>1, <2>1, <2>2, <2>8 DEF CommitFits
  <2>. QED  BY <1>1, <1>3, <2>9, PrepareWithoutRoster
<1>. QED  BY <1>2, <1>3 DEF EventWrite

LEMMA ClearRosterKeeps ==
    ASSUME SetupInvariant, NEW w \in Workers, ClearRoster(w)
    PROVE  SetupInvariant'
<1>. DEFINE r == req[w]
<1>1. pc[w] = "write" /\ r.op = "roster"
  BY DEF ClearRoster
<1>2. CASE RosterError(r) # "none" /\ Rollback(w, RosterError(r))
  <2>1. RosterError(r) \in Outcomes \ {"ok"}
    BY <1>2, ErrorTypes
  <2>. QED  BY <1>1, <1>2, <2>1, RollbackKeeps
<1>3. CASE /\ RosterError(r) = "none"
           /\ todo' = [todo EXCEPT ![w] = r.home \o r.away]
           /\ draft' = [draft EXCEPT ![w] = [status |-> "DRAFT", roster |-> <<>>, value |-> <<>>]]
           /\ Goto(w, "insert") /\ UNCHANGED <<tables, locks, req, reply>>
  <2>1. SessionsFit /\ RequestFits(w)
    BY DEF SetupInvariant, SessionsFit, SessionFits
  <2>2. r \in Requests /\ r.home \in Seq(Participants) /\ r.away \in Seq(Participants)
    BY <1>1, <2>1, RequestCases DEF RequestFits
  <2>3. r.home \o r.away \in Seq(Participants)
    BY <2>2, ConcatProperties
  <2>4. /\ UNCHANGED <<tables, locks, req, reply>> /\ req' = req /\ reply' = reply
        /\ status' = status /\ players' = players
    BY <1>3 DEF tables
  <2>5. OnlySession(w) /\ pc'[w] = "insert"
    BY <1>3, <2>1, <2>4 DEF OnlySession, SessionsFit, Goto
  <2>6. /\ todo'[w] = r.home \o r.away
        /\ draft'[w] = [status |-> "DRAFT", roster |-> <<>>, value |-> <<>>]
    BY <1>3, <2>1 DEF SessionsFit
  <2>7. DOMAIN <<>> = {} /\ draft'[w].roster = <<>> /\ IsRoster(<<>>)
    BY <2>6 DEF IsRoster
  <2>8. status[r.match] = "DRAFT" /\ ValidRoster(r)
    BY <1>3 DEF RosterError
  <2>9. ToSet(todo'[w]) = ToSet(r.home) \union ToSet(r.away)
    BY <2>2, <2>6, SetOfConcat
  <2>10. InsertFits(w)'
    <3>1. ValidRoster(req[w])'
      BY <2>4, <2>8 DEF ValidRoster
    <3>2. (req[w].op = "roster" /\ status[req[w].match] = "DRAFT")'
      BY <1>1, <2>4, <2>8
    <3>3. (draft[w] = [status |-> "DRAFT", roster |-> draft[w].roster, value |-> <<>>])'
      BY <2>6, <2>7
    <3>4. IsRoster(draft[w].roster)'
      BY <2>7 DEF IsRoster
    <3>5. (DOMAIN draft[w].roster \union ToSet(todo[w])
              = ToSet(req[w].home) \union ToSet(req[w].away))'
      BY <2>4, <2>7, <2>9
    <3>. QED  BY <2>7, <3>1, <3>2, <3>3, <3>4, <3>5 DEF InsertFits
  <2>11. RowsClaimed(w)' /\ CommitFits(w)'
    BY <2>5, <2>7 DEF RowsClaimed, CommitFits
  <2>12. \A v \in Workers \ {w} : Apart(v, w)'
    BY <2>5, <2>7 DEF Apart, Creating
  <2>. QED  BY <1>1, <2>3, <2>4, <2>5, <2>6, <2>10, <2>11, <2>12, WriteStep
<1>. QED  BY <1>2, <1>3 DEF ClearRoster

LEMMA InsertParticipantKeeps ==
    ASSUME SetupInvariant, NEW w \in Workers, InsertParticipant(w)
    PROVE  SetupInvariant'
<1>. DEFINE r == req[w]
            p == Head(todo[w])
            roster == draft[w].roster
            side == IF p \in ToSet(r.home) THEN "HOME" ELSE "AWAY"
            entry == [side |-> side, state |-> "NOT_SELECTED"]
            longer == [q \in DOMAIN roster \union {p} |-> IF q = p THEN entry ELSE roster[q]]
<1>1. pc[w] = "insert" /\ todo[w] # <<>> /\ WaitsFor(w) = {}
  BY DEF InsertParticipant
<1>2. CASE Rollback(w, "internal")
  BY <1>1, <1>2, RollbackKeeps DEF Outcomes
<1>3. CASE /\ rows[p] # None => rows[p].match = Match(w)
           /\ todo' = [todo EXCEPT ![w] = Tail(@)]
           /\ draft' = [draft EXCEPT ![w].roster = longer]
           /\ UNCHANGED <<tables, locks, pc, req, reply>>
  <2>1. /\ SessionsFit /\ RequestFits(w) /\ InsertFits(w) /\ RowsClaimed(w)
        /\ \A v \in Workers \ {w} : Apart(v, w)
    BY DEF SetupInvariant, SessionsFit, SessionFits
  <2>2. todo[w] \in Seq(Participants) /\ r.op = "roster" /\ Match(w) = r.match
    BY <1>1, <2>1 DEF RequestFits, InsertFits, Match
  <2>3. /\ p \in Participants /\ Tail(todo[w]) \in Seq(Participants)
        /\ ToSet(todo[w]) = {p} \union ToSet(Tail(todo[w]))
    BY <1>1, <2>2, SetOfTail
  <2>4. /\ UNCHANGED <<tables, locks, req, reply>> /\ req' = req /\ reply' = reply /\ pc' = pc
        /\ status' = status /\ players' = players /\ rows' = rows
    BY <1>3 DEF tables
  <2>5. OnlySession(w) /\ pc'[w] = "insert"
    BY <1>1, <1>3, <2>1, <2>4 DEF OnlySession, SessionsFit
  <2>6. /\ draft[w] = [status |-> "DRAFT", roster |-> roster, value |-> <<>>]
        /\ IsRoster(roster)
    BY <1>1, <2>1 DEF InsertFits
  <2>7. todo'[w] = Tail(todo[w]) /\ draft'[w] = [draft[w] EXCEPT !.roster = longer]
    BY <1>3, <2>1 DEF SessionsFit
  <2>8. draft'[w] = [status |-> "DRAFT", roster |-> longer, value |-> <<>>]
    BY <2>6, <2>7
  <2>9. entry \in Places /\ entry.side = side /\ entry.state = "NOT_SELECTED"
    BY DEF Places
  <2>10. /\ longer = [q \in DOMAIN roster \union {p} |-> IF q = p THEN entry ELSE roster[q]]
         /\ draft'[w].roster = longer
    BY <2>8
  <2>11. IsRoster(longer) /\ DOMAIN longer = DOMAIN roster \union {p}
    <3>. HIDE DEF entry, p, roster, longer
    <3>. QED  BY <2>3, <2>6, <2>9, <2>10 DEF IsRoster
  <2>12. InsertFits(w)'
    <3>1. ValidRoster(req[w])'
      BY <1>1, <2>1, <2>4 DEF InsertFits, ValidRoster
    <3>2. (req[w].op = "roster" /\ status[req[w].match] = "DRAFT")'
      BY <1>1, <2>1, <2>4 DEF InsertFits
    <3>3. (draft[w] = [status |-> "DRAFT", roster |-> draft[w].roster, value |-> <<>>])'
      BY <2>8, <2>10
    <3>4. IsRoster(draft[w].roster)'
      BY <2>10, <2>11 DEF IsRoster
    <3>5. DOMAIN longer \union ToSet(Tail(todo[w])) = ToSet(r.home) \union ToSet(r.away)
      BY <1>1, <2>1, <2>3, <2>11 DEF InsertFits
    <3>6. (DOMAIN draft[w].roster \union ToSet(todo[w])
              = ToSet(req[w].home) \union ToSet(req[w].away))'
      BY <2>4, <2>7, <2>10, <3>5
    <3>7. ASSUME NEW q \in DOMAIN longer
          PROVE  /\ longer[q].side = IF q \in ToSet(r.home) THEN "HOME" ELSE "AWAY"
                 /\ longer[q].state = "NOT_SELECTED"
      <4>1. CASE q = p
        BY <2>9, <2>10, <2>11, <4>1
      <4>2. CASE q # p
        <5>1. q \in DOMAIN roster /\ longer[q] = roster[q]
          BY <2>10, <2>11, <4>2
        <5>. QED  BY <1>1, <2>1, <5>1 DEF InsertFits
      <4>. QED  BY <4>1, <4>2
    <3>8. (\A q \in DOMAIN draft[w].roster :
              /\ draft[w].roster[q].side = IF q \in ToSet(req[w].home) THEN "HOME" ELSE "AWAY"
              /\ draft[w].roster[q].state = "NOT_SELECTED")'
      BY <2>4, <2>10, <3>7
    <3>. QED  BY <3>1, <3>2, <3>3, <3>4, <3>6, <3>8 DEF InsertFits
  <2>13. RowsClaimed(w)'
    <3>1. \A q \in DOMAIN longer : rows[q] # None => rows[q].match = r.match
      BY <1>1, <1>3, <2>1, <2>2, <2>11 DEF RowsClaimed, Writing
    <3>. QED  BY <2>4, <2>10, <3>1 DEF RowsClaimed
  <2>14. CommitFits(w)'
    BY <2>5 DEF CommitFits
  <2>15. ASSUME NEW v \in Workers \ {w} PROVE Apart(v, w)'
    <3>1. pc'[v] = pc[v] /\ req'[v] = req[v] /\ draft'[v] = draft[v]
      BY <2>5 DEF OnlySession
    <3>2. p \notin Written(v)
      BY <1>1 DEF WaitsFor
    <3>3. Writing(v) => p \notin DOMAIN draft[v].roster
      BY <3>2 DEF Written, Writing, Inserted
    <3>4. Writing(v) => DOMAIN draft[v].roster \intersect DOMAIN roster = {}
      BY <1>1, <2>1, <2>2 DEF Apart, Writing
    <3>5. Writing(v)' <=> Writing(v)
      BY <3>1 DEF Writing
    <3>6. ~Creating(w)'
      BY <2>5 DEF Creating
    <3>7. Writing(v) => DOMAIN draft[v].roster \intersect DOMAIN longer = {}
      BY <2>11, <3>3, <3>4
    <3>. QED  BY <2>10, <3>1, <3>5, <3>6, <3>7 DEF Apart
  <2>. QED  BY <1>1, <2>3, <2>4, <2>5, <2>7, <2>12, <2>13, <2>14, <2>15, WriteStep
<1>. QED  BY <1>2, <1>3 DEF InsertParticipant

\* The roster that has been inserted is the one of the body.
LEMMA RosterWrittenKeeps ==
    ASSUME SetupInvariant, NEW w \in Workers, RosterWritten(w)
    PROVE  SetupInvariant'
<1>. DEFINE r == req[w]
            m == req[w].match
            roster == draft[w].roster
<1>1. pc[w] = "insert" /\ todo[w] = <<>> /\ Prepare(w, "DRAFT", roster, roster)
  BY DEF RosterWritten
<1>2. /\ RequestFits(w) /\ InsertFits(w) /\ RowsClaimed(w) /\ TablesFit
      /\ \A v \in Workers \ {w} : Apart(v, w)
  BY DEF SetupInvariant, SessionsFit, SessionFits
<1>3. /\ r.op = "roster" /\ status[m] = "DRAFT" /\ ValidRoster(r) /\ IsRoster(roster)
      /\ DOMAIN roster \union ToSet(todo[w]) = ToSet(r.home) \union ToSet(r.away)
      /\ \A p \in DOMAIN roster :
            /\ roster[p].side = IF p \in ToSet(r.home) THEN "HOME" ELSE "AWAY"
            /\ roster[p].state = "NOT_SELECTED"
  BY <1>1, <1>2 DEF InsertFits
<1>4. r \in Requests /\ m \in Matches /\ r.home \in Seq(Participants) /\ r.away \in Seq(Participants)
  BY <1>1, <1>2, <1>3, RequestCases DEF RequestFits
<1>5. DOMAIN roster = ToSet(r.home) \union ToSet(r.away)
  <2>1. ToSet(todo[w]) = {}
    BY <1>1 DEF ToSet
  <2>. QED  BY <1>3, <2>1
<1>6. /\ Cardinality(ToSet(r.home)) = Len(r.home) /\ Cardinality(ToSet(r.away)) = Len(r.away)
      /\ ToSet(r.home) \intersect ToSet(r.away) = {}
  BY <1>3, <1>4, NoParticipantTwice DEF ValidRoster
<1>7. OnSide(roster, "HOME") = ToSet(r.home) /\ OnSide(roster, "AWAY") = ToSet(r.away)
  <2>. HIDE DEF roster, r
  <2>. QED  BY <1>3, <1>5, <1>6 DEF OnSide
<1>8. Tells(r, roster)
  BY <1>3, <1>7 DEF Tells
<1>9. /\ UNCHANGED <<tables, locks, req, reply>> /\ OnlySession(w)
      /\ UNCHANGED tables /\ req' = req /\ pc'[w] = "commit" /\ todo'[w] \in Seq(Participants)
      /\ draft'[w].status = "DRAFT" /\ draft'[w].roster = roster /\ draft'[w].value = roster
      /\ InsertFits(w)' /\ status' = status /\ players' = players /\ rows' = rows
  BY <1>1, PrepareFacts
<1>10. CommitFits(w)'
  <2>1. /\ (req[w].op = "roster" /\ status[req[w].match] = "DRAFT")'
        /\ (draft[w].status = "DRAFT" /\ draft[w].value = draft[w].roster)'
    BY <1>3, <1>9
  <2>2. IsRoster(draft[w].roster)'
    BY <1>3, <1>9 DEF IsRoster
  <2>3. Tells(req[w], draft[w].roster)'
    BY <1>8, <1>9 DEF Tells, OnSide
  <2>. QED  BY <2>1, <2>2, <2>3 DEF CommitFits
<1>11. RowsClaimed(w)'
  BY <1>1, <1>2, <1>3, <1>9 DEF RowsClaimed, Writing
<1>12. ASSUME NEW v \in Workers \ {w} PROVE Apart(v, w)'
  <2>1. pc'[v] = pc[v] /\ req'[v] = req[v] /\ draft'[v] = draft[v]
    BY <1>9 DEF OnlySession
  <2>. QED  BY <1>1, <1>2, <1>3, <1>9, <2>1 DEF Apart, Writing, Creating
<1>. QED  BY <1>1, <1>9, <1>10, <1>11, <1>12, WriteStep

LEMMA LineupsWriteKeeps ==
    ASSUME SetupInvariant, NEW w \in Workers, LineupsWrite(w)
    PROVE  SetupInvariant'
<1>1. pc[w] = "write" /\ Rollback(w, LineupError(req[w]))
  BY DEF LineupsWrite
<1>2. LineupError(req[w]) \in Outcomes \ {"ok"}
  BY ErrorTypes
<1>. QED  BY <1>1, <1>2, RollbackKeeps

-----------------------------------------------------------------------------
(* The commit *)

\* What becomes of the participants when match m gets a roster of its own or of
\* unused participants.
LEMMA NewRowsOfMatch ==
    ASSUME rows \in [Participants -> Entries \union {None}],
           NEW m \in Matches, NEW roster, IsRoster(roster), rows' = NewRows(m, roster),
           \A p \in DOMAIN roster : rows[p] # None => rows[p].match = m
    PROVE  /\ rows' \in [Participants -> Entries \union {None}]
           /\ RosterOf(m)' = roster
           /\ \A n \in Matches \ {m} : RosterOf(n)' = RosterOf(n)
           /\ \A p \in Participants : rows'[p] # None => rows'[p].match = m \/ rows'[p] = rows[p]
           /\ \A p \in Participants \ DOMAIN roster : rows'[p] \in {None, rows[p]}
<1>1. \A p \in DOMAIN roster :
          p \in Participants /\ roster[p] = [side |-> roster[p].side, state |-> roster[p].state]
  BY DEF IsRoster, Places
<1>2. /\ DOMAIN rows' = Participants /\ rows' = [p \in Participants |-> rows'[p]]
      /\ \A p \in DOMAIN roster :
            rows'[p] = [match |-> m, side |-> roster[p].side, state |-> roster[p].state]
      /\ \A p \in Participants \ DOMAIN roster :
            rows'[p] = IF p \in DOMAIN RosterOf(m) THEN None ELSE rows[p]
  BY <1>1 DEF NewRows
<1>3. \A p \in DOMAIN roster : rows'[p] \in Entries /\ rows'[p] # None /\ rows'[p].match = m
  <2>1. ASSUME NEW p \in DOMAIN roster PROVE rows'[p] \in Entries /\ rows'[p].match = m
    <3>1. roster[p].side \in {"HOME", "AWAY"} /\ roster[p].state \in {"STARTER", "BENCH", "NOT_SELECTED", "LEFT_MATCH"}
      BY DEF IsRoster, Places
    <3>2. rows'[p] = [match |-> m, side |-> roster[p].side, state |-> roster[p].state]
      BY <1>2
    <3>. QED  BY <3>1, <3>2 DEF Entries
  <2>. QED  BY <2>1, RowsAssumption
<1>4. /\ DOMAIN RosterOf(m) \subseteq Participants
      /\ \A p \in DOMAIN RosterOf(m) : rows[p] # None /\ rows[p].match = m
      /\ \A p \in Participants : rows[p] # None /\ rows[p].match = m => p \in DOMAIN RosterOf(m)
  BY RosterType DEF IsRoster
<1>5. \A p \in Participants \ DOMAIN roster : rows'[p] # None => rows'[p] = rows[p] /\ rows[p].match # m
  BY <1>2, <1>4
<1>6. rows' \in [Participants -> Entries \union {None}]
  <2>1. \A p \in Participants : rows'[p] \in Entries \union {None}
    BY <1>2, <1>3
  <2>. QED  BY <1>2, <2>1
<1>7. RosterOf(m)' = roster
  <2>1. {p \in Participants : rows'[p] # None /\ rows'[p].match = m} = DOMAIN roster
    BY <1>1, <1>3, <1>5
  <2>2. RosterOf(m)' = [p \in DOMAIN roster |-> [side |-> rows'[p].side, state |-> rows'[p].state]]
    BY <2>1 DEF RosterOf
  <2>3. ASSUME NEW p \in DOMAIN roster
        PROVE  [side |-> rows'[p].side, state |-> rows'[p].state] = roster[p]
    <3>1. rows'[p] = [match |-> m, side |-> roster[p].side, state |-> roster[p].state]
      BY <1>2
    <3>2. rows'[p].side = roster[p].side /\ rows'[p].state = roster[p].state
      BY <3>1
    <3>. QED  BY <1>1, <3>2
  <2>4. roster = [p \in DOMAIN roster |-> roster[p]]
    BY DEF IsRoster
  <2>. QED  BY <2>2, <2>3, <2>4
<1>8. ASSUME NEW n \in Matches \ {m} PROVE RosterOf(n)' = RosterOf(n)
  <2>. DEFINE ids == {p \in Participants : rows[p] # None /\ rows[p].match = n}
  <2>1. \A p \in ids : p \notin DOMAIN roster /\ p \notin DOMAIN RosterOf(m)
    BY <1>4, <1>8
  <2>2. \A p \in ids : rows'[p] = rows[p]
    BY <1>2, <2>1
  <2>3. {p \in Participants : rows'[p] # None /\ rows'[p].match = n} = ids
    BY <1>3, <1>5, <1>8, <2>2
  <2>4. RosterOf(n)' = [p \in ids |-> [side |-> rows'[p].side, state |-> rows'[p].state]]
    BY <2>3 DEF RosterOf
  <2>5. RosterOf(n) = [p \in ids |-> [side |-> rows[p].side, state |-> rows[p].state]]
    BY DEF RosterOf
  <2>. HIDE DEF ids
  <2>. QED  BY <2>2, <2>4, <2>5
<1>9. \A p \in Participants : rows'[p] # None => rows'[p].match = m \/ rows'[p] = rows[p]
  BY <1>3, <1>5
<1>. QED  BY <1>2, <1>6, <1>7, <1>8, <1>9

\* What is known of a transaction that commits.
LEMMA CommitBegins ==
    ASSUME SetupInvariant, NEW w \in Workers, Commit(w)
    PROVE  /\ pc[w] = "commit" /\ req[w] \in Requests /\ Accepted(req[w]) /\ Match(w) \in Matches
           /\ RecordKey(req[w]) \in RecordKeys /\ owner[RecordKey(req[w])] = w
           /\ Reservable(RecordKey(req[w]))
           /\ req[w].op = "create" => status[Match(w)] = "NONE" /\ Match(w) = draft[w].value
           /\ req[w].op # "create" =>
                 /\ status[Match(w)] # "NONE" /\ matchLock[Match(w)] = w /\ Match(w) = req[w].match
           /\ CommitFits(w) /\ RowsClaimed(w)
<1>1. pc[w] = "commit" /\ RequestFits(w) /\ HoldsLocks(w) /\ CommitFits(w) /\ RowsClaimed(w)
  BY DEF SetupInvariant, SessionsFit, SessionFits, Commit
<1>2. req[w] \in Requests /\ Accepted(req[w])
  BY <1>1 DEF RequestFits
<1>3. /\ RecordKey(req[w]) \in RecordKeys
      /\ req[w].op # "create" => req[w].match \in Matches
  BY <1>2, RequestCases
<1>4. CASE req[w].op = "create"
  BY <1>1, <1>2, <1>3, <1>4 DEF HoldsLocks, CommitFits, Match
<1>5. CASE req[w].op # "create"
  BY <1>1, <1>2, <1>3, <1>5 DEF HoldsLocks, Match
<1>. QED  BY <1>4, <1>5

\* The tables after the commit of w: match m has changed and no other.
Committed(w, m) ==
    /\ \A n \in Matches \ {m} :
          /\ status'[n] = status[n] /\ players'[n] = players[n] /\ events'[n] = events[n]
          /\ RosterOf(n)' = RosterOf(n)
    /\ status' \in [Matches -> {"NONE", "DRAFT", "READY", "LIVE"}]
    /\ DOMAIN players' = Matches /\ DOMAIN events' = Matches
    /\ status'[m] = draft[w].status /\ status'[m] # "NONE"
    /\ req[w].op = "create" => players'[m] = req[w].players
    /\ req[w].op # "create" => players' = players
    /\ req[w].op # "event" => events' = events
    /\ req[w].op = "event" => events'[m] = Append(events[m], draft[w].value)
    /\ rows' \in [Participants -> Entries \union {None}]
    /\ req[w].op # "roster" => rows' = rows /\ RosterOf(m)' = RosterOf(m)
    /\ req[w].op = "roster" =>
          /\ RosterOf(m)' \in {RosterOf(m), draft[w].roster}
          /\ \A p \in Participants \ DOMAIN draft[w].roster : rows'[p] \in {None, rows[p]}
    /\ \A p \in Participants : rows'[p] # None => rows'[p].match = m \/ rows'[p] = rows[p]

LEMMA CommitChangesOneMatch ==
    ASSUME SetupInvariant, NEW w \in Workers, Commit(w), NEW m \in Matches, m = Match(w)
    PROVE  Committed(w, m)
<1>. DEFINE d == draft[w]
<1>1. /\ pc[w] = "commit" /\ req[w] \in Requests
      /\ req[w].op = "create" => status[m] = "NONE" /\ m = d.value
      /\ req[w].op # "create" => m = req[w].match
      /\ CommitFits(w) /\ RowsClaimed(w)
  BY CommitBegins
<1>2. /\ status \in [Matches -> {"NONE", "DRAFT", "READY", "LIVE"}]
      /\ DOMAIN players = Matches /\ DOMAIN events = Matches
      /\ rows \in [Participants -> Entries \union {None}]
  BY DEF SetupInvariant, TablesFit
<1>3. /\ status' = [status EXCEPT ![m] = d.status]
      /\ players' = IF req[w].op = "create" THEN [players EXCEPT ![m] = req[w].players] ELSE players
      /\ rows' = IF d.roster = None THEN rows ELSE NewRows(m, d.roster)
      /\ events' = IF req[w].op = "event" THEN [events EXCEPT ![m] = Append(@, d.value)] ELSE events
  BY DEF Commit
<1>4. req[w].op \in {"create", "roster", "lineups", "ready", "live-session", "event"}
  BY <1>1, RequestCases
<1>5. d.status \in {"DRAFT", "READY", "LIVE"}
  BY <1>1, <1>4 DEF CommitFits
<1>6. /\ status' \in [Matches -> {"NONE", "DRAFT", "READY", "LIVE"}]
      /\ status'[m] = d.status /\ status'[m] # "NONE"
      /\ \A n \in Matches \ {m} : status'[n] = status[n]
  BY <1>1, <1>2, <1>3, <1>5
<1>7. /\ DOMAIN players' = Matches /\ DOMAIN events' = Matches
      /\ req[w].op = "create" => players'[m] = req[w].players
      /\ req[w].op # "create" => players' = players
      /\ req[w].op # "event" => events' = events
      /\ req[w].op = "event" => events'[m] = Append(events[m], d.value)
      /\ \A n \in Matches \ {m} : players'[n] = players[n] /\ events'[n] = events[n]
  BY <1>1, <1>2, <1>3
<1>8. ASSUME rows' = rows
      PROVE  /\ RosterOf(m)' = RosterOf(m) /\ \A n \in Matches \ {m} : RosterOf(n)' = RosterOf(n)
             /\ rows' \in [Participants -> Entries \union {None}]
  BY <1>2, <1>8 DEF RosterOf
<1>9. CASE req[w].op # "roster"
  <2>1. d.roster = None
    BY <1>1, <1>4, <1>9 DEF CommitFits
  <2>2. rows' = rows
    BY <1>3, <2>1
  <2>. QED  BY <1>6, <1>7, <1>8, <1>9, <2>2 DEF Committed
<1>10. CASE req[w].op = "roster" /\ d.roster = None
  <2>1. rows' = rows
    BY <1>3, <1>10
  <2>. QED  BY <1>6, <1>7, <1>8, <1>10, <2>1 DEF Committed
<1>11. CASE req[w].op = "roster" /\ d.roster # None
  <2>1. rows' = NewRows(m, d.roster)
    BY <1>3, <1>11
  <2>2. IsRoster(d.roster) /\ \A p \in DOMAIN d.roster : rows[p] # None => rows[p].match = m
    BY <1>1, <1>11 DEF CommitFits, RowsClaimed, Writing
  <2>3. /\ rows' \in [Participants -> Entries \union {None}]
        /\ RosterOf(m)' = d.roster
        /\ \A n \in Matches \ {m} : RosterOf(n)' = RosterOf(n)
        /\ \A p \in Participants : rows'[p] # None => rows'[p].match = m \/ rows'[p] = rows[p]
        /\ \A p \in Participants \ DOMAIN d.roster : rows'[p] \in {None, rows[p]}
    BY <1>1, <1>2, <2>1, <2>2, NewRowsOfMatch
  <2>. QED  BY <1>6, <1>7, <1>11, <2>3 DEF Committed
<1>. QED  BY <1>9, <1>10, <1>11

\* A line-up is carried into the new state.
LEMMA CompleteAfter ==
    ASSUME NEW m, RosterOf(m)' = RosterOf(m), players'[m] = players[m]
    PROVE  Complete(RosterOf(m), players[m])' <=> Complete(RosterOf(m), players[m])
BY DEF Complete, Starters, OnSide

\* The events of a match keep their subjects as long as its roster is kept.
LEMMA EventsFitAfter ==
    ASSUME NEW m, RosterOf(m)' = RosterOf(m), events'[m] = events[m],
           \A i \in 1 .. Len(events[m]) : EventFits(events[m][i], RosterOf(m))
    PROVE  (\A i \in 1 .. Len(events[m]) : EventFits(events[m][i], RosterOf(m)))'
<1>1. Len(events[m])' = Len(events[m])
  OBVIOUS
<1>2. ASSUME NEW i \in 1 .. Len(events[m]) PROVE EventFits(events[m][i], RosterOf(m))'
  BY DEF EventFits, SubjectsFit
<1>. QED  BY <1>1, <1>2

\* The match that is committed to, by operation.
LEMMA CommittedMatchFits ==
    ASSUME SetupInvariant, NEW w \in Workers, Commit(w), NEW m \in Matches, m = Match(w)
    PROVE  MatchFits(m)'
<1>. DEFINE d == draft[w]
            r == req[w]
<1>1. /\ pc[w] = "commit" /\ r \in Requests /\ Accepted(r) /\ CommitFits(w)
      /\ r.op = "create" => status[m] = "NONE"
      /\ r.op # "create" => status[m] # "NONE" /\ m = r.match
  BY CommitBegins
<1>2. Committed(w, m)
  BY CommitChangesOneMatch
<1>3. TablesFit /\ MatchFits(m)
  BY DEF SetupInvariant, TablesFit
<1>4. r.op \in {"create", "roster", "lineups", "ready", "live-session", "event"}
  BY <1>1, RequestCases
<1>5. status'[m] = d.status /\ status'[m] # "NONE"
  BY <1>2 DEF Committed
<1>6. CASE r.op = "create"
  <2>1. players'[m] \in 2 .. 11 /\ status'[m] = "DRAFT" /\ events'[m] = <<>> /\ rows' = rows
    BY <1>1, <1>2, <1>3, <1>5, <1>6 DEF Committed, Accepted, ValidInput, CommitFits, MatchFits
  <2>2. events'[m] \in Seq(RecordedEvents) /\ Len(events'[m]) = 0
    BY <2>1
  <2>. QED  BY <2>1, <2>2 DEF MatchFits
<1>7. CASE r.op = "roster"
  <2>1. players' = players /\ events' = events
    BY <1>2, <1>7 DEF Committed
  <2>2. status[m] = "DRAFT" /\ status'[m] = "DRAFT"
    BY <1>1, <1>5, <1>7 DEF CommitFits
  <2>3. events'[m] = <<>> /\ <<>> \in Seq(RecordedEvents) /\ Len(events'[m]) = 0
    BY <1>3, <2>1, <2>2 DEF MatchFits
  <2>4. (status[m] = "NONE" <=> players[m] \notin 2 .. 11)'
    BY <1>3, <2>1, <2>2 DEF MatchFits
  <2>. QED  BY <2>2, <2>3, <2>4 DEF MatchFits
<1>8. CASE r.op \in {"ready", "live-session"}
  <2>1. players' = players /\ events' = events /\ RosterOf(m)' = RosterOf(m)
    BY <1>2, <1>8 DEF Committed
  <2>2. /\ status[m] \in {"DRAFT", "READY"} /\ status'[m] \in {"READY", "LIVE"}
        /\ Complete(RosterOf(m), players[m])
    BY <1>1, <1>3, <1>5, <1>8 DEF CommitFits, MatchFits
  <2>3. Complete(RosterOf(m), players[m])'
    BY <1>3, <2>1, <2>2, CompleteAfter DEF MatchFits
  <2>4. events'[m] = <<>> /\ <<>> \in Seq(RecordedEvents) /\ Len(events'[m]) = 0
    BY <1>3, <2>1, <2>2 DEF MatchFits
  <2>5. (status[m] = "NONE" <=> players[m] \notin 2 .. 11)'
    BY <1>3, <2>1, <2>2 DEF MatchFits
  <2>. QED  BY <2>3, <2>4, <2>5 DEF MatchFits
<1>9. CASE r.op = "event"
  <2>1. /\ players' = players /\ events'[m] = Append(events[m], d.value)
        /\ RosterOf(m)' = RosterOf(m)
    BY <1>2, <1>9 DEF Committed
  <2>2. /\ status[m] = "LIVE" /\ status'[m] = "LIVE"
        /\ d.value = EventOf(r) /\ EventFits(d.value, RosterOf(m))
    BY <1>1, <1>5, <1>9 DEF CommitFits
  <2>3. d.value \in RecordedEvents /\ events[m] \in Seq(RecordedEvents)
    BY <1>1, <1>3, <1>9, <2>2 DEF RecordedEvents, MatchFits
  <2>4. /\ events'[m] \in Seq(RecordedEvents) /\ Len(events'[m]) = Len(events[m]) + 1
        /\ \A i \in 1 .. Len(events[m]) : events'[m][i] = events[m][i]
        /\ events'[m][Len(events[m]) + 1] = d.value /\ Len(events[m]) \in Nat
    BY <2>1, <2>3, AppendProperties, LenProperties
  <2>5. Complete(RosterOf(m), players[m])'
    BY <1>3, <2>1, <2>2, CompleteAfter DEF MatchFits
  <2>6. ASSUME NEW i \in 1 .. Len(events'[m]) PROVE EventFits(events[m][i], RosterOf(m))'
    <3>1. CASE i \in 1 .. Len(events[m])
      <4>1. events'[m][i] = events[m][i] /\ EventFits(events[m][i], RosterOf(m))
        BY <1>3, <2>4, <3>1 DEF MatchFits
      <4>. QED  BY <2>1, <4>1 DEF EventFits, SubjectsFit
    <3>2. CASE i = Len(events[m]) + 1
      <4>1. events'[m][i] = d.value
        BY <2>4, <3>2
      <4>. QED  BY <2>1, <2>2, <4>1 DEF EventFits, SubjectsFit
    <3>. QED  BY <2>4, <3>1, <3>2
  <2>7. (status[m] = "NONE" <=> players[m] \notin 2 .. 11)'
    BY <1>3, <2>1, <2>2 DEF MatchFits
  <2>. QED  BY <2>2, <2>4, <2>5, <2>6, <2>7 DEF MatchFits
<1>10. r.op # "lineups"
  BY <1>1 DEF CommitFits
<1>. QED  BY <1>4, <1>6, <1>7, <1>8, <1>9, <1>10

LEMMA CommitKeepsTables ==
    ASSUME SetupInvariant, NEW w \in Workers, Commit(w), NEW m \in Matches, m = Match(w)
    PROVE  TablesFit'
<1>1. Committed(w, m)
  BY CommitChangesOneMatch
<1>2. TablesFit
  BY DEF SetupInvariant
<1>3. ASSUME NEW n \in Matches PROVE MatchFits(n)'
  <2>1. CASE n = m
    BY <2>1, CommittedMatchFits
  <2>2. CASE n # m
    <3>1. /\ status'[n] = status[n] /\ players'[n] = players[n] /\ events'[n] = events[n]
          /\ RosterOf(n)' = RosterOf(n)
      BY <1>1, <2>2 DEF Committed
    <3>2. MatchFits(n)
      BY <1>2 DEF TablesFit
    <3>3. (\A i \in 1 .. Len(events[n]) : EventFits(events[n][i], RosterOf(n)))'
      BY <3>1, <3>2, EventsFitAfter DEF MatchFits
    <3>4. (status[n] \in {"READY", "LIVE"} => Complete(RosterOf(n), players[n]))'
      BY <3>1, <3>2, CompleteAfter DEF MatchFits
    <3>. QED  BY <3>1, <3>2, <3>3, <3>4 DEF MatchFits
  <2>. QED  BY <2>1, <2>2
<1>4. ASSUME NEW p \in Participants, rows'[p] # None PROVE status'[rows'[p].match] # "NONE"
  <2>1. CASE rows'[p].match = m
    BY <1>1, <2>1 DEF Committed
  <2>2. CASE rows'[p].match # m
    <3>1. rows'[p] = rows[p]
      BY <1>1, <1>4, <2>2 DEF Committed
    <3>2. rows[p].match \in Matches /\ status[rows[p].match] # "NONE"
      BY <1>2, <1>4, <3>1 DEF TablesFit, Entries
    <3>. QED  BY <1>1, <2>2, <3>1, <3>2 DEF Committed
  <2>. QED  BY <2>1, <2>2
<1>. QED  BY <1>1, <1>3, <1>4 DEF Committed, TablesFit

\* A match that is there stays, with its number of players.
LEMMA DraftsStay ==
    ASSUME SetupInvariant, NEW w \in Workers, Commit(w), NEW m \in Matches, m = Match(w),
           NEW n \in Matches, status[n] # "NONE"
    PROVE  status'[n] # "NONE" /\ players'[n] = players[n]
<1>1. Committed(w, m)
  BY CommitChangesOneMatch
<1>2. req[w].op = "create" => status[m] = "NONE"
  BY CommitBegins
<1>. QED  BY <1>1, <1>2 DEF Committed

\* The record that is written answers every request with its key and its hash.
LEMMA NewRecordFits ==
    ASSUME SetupInvariant, NEW w \in Workers, Commit(w), NEW m \in Matches, m = Match(w),
           NEW k \in RecordKeys, k = RecordKey(req[w]), NEW value, value = draft[w].value
    PROVE  /\ RecordFits(k)' /\ records'[k].result.value = value
           /\ k.op = "create" => value = m /\ status[m] = "NONE"
           /\ \A j \in RecordKeys \ {k} : records'[j] = records[j]
<1>. DEFINE r == req[w]
            record == [hash |-> RequestHash(r), result |-> Success(value), expired |-> FALSE]
<1>1. /\ r \in Requests /\ CommitFits(w) /\ pc[w] = "commit"
      /\ r.op = "create" => status[m] = "NONE" /\ m = value
  BY CommitBegins
<1>2. Committed(w, m)
  BY CommitChangesOneMatch
<1>3. DOMAIN records = RecordKeys
  BY DEF SetupInvariant, RecordsFit
<1>4. records' = [records EXCEPT ![k] = record]
  BY DEF Commit
<1>5. k.op = r.op
  BY <1>1, RequestCases
<1>6. /\ record.hash = RequestHash(r) /\ record.result = Success(value) /\ record.expired = FALSE
      /\ record.result.value = value
      /\ record = [hash |-> record.hash, result |-> Success(record.result.value),
                   expired |-> record.expired]
  BY DEF Success
<1>. HIDE DEF record
<1>7. records'[k] = record /\ \A j \in RecordKeys \ {k} : records'[j] = records[j]
  BY <1>3, <1>4
<1>8. ASSUME NEW q \in Requests, RecordKey(q) = k, RequestHash(q) = RequestHash(r)
      PROVE  Tells(q, value) /\ HasDraft(q, value)'
  <2>1. /\ q.op = r.op /\ (r.op = "create" => q.players = r.players)
        /\ r.op = "roster" => q.home = r.home /\ q.away = r.away
        /\ r.op = "event" => EventOf(q) = EventOf(r)
    BY <1>1, <1>8, SameKeySameHash
  <2>2. CASE r.op = "create"
    <3>1. players'[m] = r.players /\ status'[m] # "NONE"
      BY <1>2, <2>2 DEF Committed
    <3>. QED  BY <1>1, <2>1, <2>2, <3>1 DEF Tells, HasDraft
  <2>3. CASE r.op \in {"roster", "event"}
    <3>1. Tells(r, value)
      BY <1>1, <2>3 DEF CommitFits, Tells
    <3>. QED  BY <2>1, <2>3, <3>1 DEF Tells, HasDraft
  <2>4. CASE r.op \notin {"create", "roster", "event"}
    BY <2>1, <2>4 DEF Tells, HasDraft
  <2>. QED  BY <2>2, <2>3, <2>4
<1>9. RecordFits(k)'
  <2>1. (records[k] = [hash |-> records[k].hash, result |-> Success(records[k].result.value),
                       expired |-> records[k].expired] /\ records[k].expired \in BOOLEAN)'
    BY <1>6, <1>7 DEF Success
  <2>2. ASSUME NEW q \in Requests, RecordKey(q) = k, RequestHash(q) = records'[k].hash
        PROVE  (Tells(q, records[k].result.value) /\ HasDraft(q, records[k].result.value))'
    BY <1>6, <1>7, <1>8, <2>2 DEF Tells, HasDraft
  <2>3. k.op = "create" => /\ records'[k].result.value \in Matches
                           /\ status'[records'[k].result.value] # "NONE"
    BY <1>1, <1>2, <1>5, <1>6, <1>7 DEF Committed
  <2>. QED  BY <2>1, <2>2, <2>3 DEF RecordFits
<1>. QED  BY <1>1, <1>5, <1>6, <1>7, <1>9

\* The other records go on to answer their requests.
LEMMA OldRecordFits ==
    ASSUME SetupInvariant, NEW w \in Workers, Commit(w), NEW m \in Matches, m = Match(w),
           NEW j \in RecordKeys, RecordFits(j), records'[j] = records[j]
    PROVE  RecordFits(j)'
<1>1. ASSUME NEW n \in Matches, status[n] # "NONE"
      PROVE  status'[n] # "NONE" /\ players'[n] = players[n]
  BY <1>1, DraftsStay
<1>2. ASSUME NEW q \in Requests, RecordKey(q) = j, RequestHash(q) = records'[j].hash
      PROVE  (Tells(q, records[j].result.value) /\ HasDraft(q, records[j].result.value))'
  <2>1. Tells(q, records[j].result.value) /\ HasDraft(q, records[j].result.value)
    BY <1>2 DEF RecordFits
  <2>. QED  BY <1>1, <2>1 DEF Tells, HasDraft
<1>3. (j.op = "create" => /\ records[j].result.value \in Matches
                          /\ status[records[j].result.value] # "NONE")'
  BY <1>1 DEF RecordFits
<1>4. (records[j] = [hash |-> records[j].hash, result |-> Success(records[j].result.value),
                     expired |-> records[j].expired] /\ records[j].expired \in BOOLEAN)'
  BY DEF RecordFits, Success
<1>. QED  BY <1>2, <1>3, <1>4 DEF RecordFits

LEMMA CommitKeepsRecords ==
    ASSUME SetupInvariant, NEW w \in Workers, Commit(w), NEW m \in Matches, m = Match(w)
    PROVE  RecordsFit' /\ \A j \in RecordKeys : RecordFits(j) => RecordFits(j)'
<1>1. RecordKey(req[w]) \in RecordKeys
  BY CommitBegins
<1>2. PICK k \in RecordKeys : k = RecordKey(req[w])
  BY <1>1
<1>3. PICK value : value = draft[w].value
  OBVIOUS
<1>4. /\ RecordFits(k)' /\ records'[k].result.value = value
      /\ k.op = "create" => value = m /\ status[m] = "NONE"
      /\ \A j \in RecordKeys \ {k} : records'[j] = records[j]
  BY <1>2, <1>3, NewRecordFits
<1>5. RecordsFit
  BY DEF SetupInvariant
<1>6. ASSUME NEW j \in RecordKeys, RecordFits(j) PROVE RecordFits(j)'
  <2>1. CASE j = k
    BY <1>4, <2>1
  <2>2. CASE j # k
    BY <1>4, <1>6, <2>2, OldRecordFits
  <2>. QED  BY <2>1, <2>2
<1>7. ASSUME NEW j \in RecordKeys, records'[j] # None PROVE RecordFits(j)'
  <2>1. CASE j = k
    BY <1>4, <2>1
  <2>2. CASE j # k
    BY <1>4, <1>5, <1>6, <1>7, <2>2 DEF RecordsFit
  <2>. QED  BY <2>1, <2>2
<1>8. ASSUME NEW i \in RecordKeys, NEW j \in RecordKeys,
             i.op = "create", j.op = "create", records'[i] # None, records'[j] # None,
             records'[i].result.value = records'[j].result.value
      PROVE  i = j
  <2>1. ASSUME NEW l \in RecordKeys \ {k}, l.op = "create", records'[l] # None
        PROVE  records'[l] = records[l] /\ status[records[l].result.value] # "NONE"
    BY <1>4, <1>5, <2>1 DEF RecordsFit, RecordFits
  <2>2. CASE i = k /\ j # k
    BY <1>4, <1>8, <2>1, <2>2
  <2>3. CASE i # k /\ j = k
    BY <1>4, <1>8, <2>1, <2>3
  <2>4. CASE i # k /\ j # k
    BY <1>5, <1>8, <2>1, <2>4 DEF RecordsFit
  <2>. QED  BY <2>2, <2>3, <2>4
<1>9. DOMAIN records' = RecordKeys
  BY <1>5 DEF RecordsFit, Commit
<1>. QED  BY <1>6, <1>7, <1>8, <1>9 DEF RecordsFit

\* Another transaction with locks is about another match.
LEMMA OthersHaveOtherMatches ==
    ASSUME SetupInvariant, NEW w \in Workers, Commit(w), NEW m \in Matches, m = Match(w),
           NEW v \in Workers \ {w}, pc[v] \in {"write", "insert", "commit"}, req[v].op # "create"
    PROVE  req[v].match \in Matches \ {m}
<1>1. RequestFits(v) /\ HoldsLocks(v)
  BY DEF SetupInvariant, SessionsFit, SessionFits
<1>2. req[v].match \in Matches
  BY <1>1, RequestCases DEF RequestFits
<1>3. matchLock[req[v].match] = v /\ status[req[v].match] # "NONE"
  BY <1>1 DEF HoldsLocks
<1>4. /\ req[w].op = "create" => status[m] = "NONE"
      /\ req[w].op # "create" => matchLock[m] = w
  BY CommitBegins
<1>. QED  BY <1>2, <1>3, <1>4

\* What v has found in the tables is still there after the commit of w.
LEMMA OthersOutliveCommit ==
    ASSUME SetupInvariant, NEW w \in Workers, Commit(w), NEW m \in Matches, m = Match(w),
           NEW v \in Workers \ {w}
    PROVE  SessionFits(v)'
<1>1. Committed(w, m)
  BY CommitChangesOneMatch
<1>2. Finish(w, Success(draft[w].value))
  BY DEF Commit
<1>3. OnlySession(w) /\ OnlyLocks(w)
  BY <1>2, FinishEndsSession
<1>4. /\ pc'[v] = pc[v] /\ req'[v] = req[v] /\ todo'[v] = todo[v]
      /\ draft'[v] = draft[v] /\ reply'[v] = reply[v]
  BY <1>3 DEF OnlySession
<1>5. /\ SessionFits(v) /\ LocksFit /\ TablesFit /\ RecordsFit
      /\ Apart(v, w)
  BY DEF SetupInvariant, SessionsFit
<1>6. RequestFits(v) /\ HoldsLocks(v) /\ InsertFits(v) /\ RowsClaimed(v) /\ CommitFits(v) /\ ReplyFits(v)
  BY <1>5 DEF SessionFits
<1>7. /\ pc[w] = "commit" /\ owner[RecordKey(req[w])] = w
      /\ req[w].op = "create" => status[m] = "NONE" /\ m = draft[w].value
      /\ req[w].op # "create" => status[m] # "NONE"
  BY CommitBegins
<1>8. ASSUME NEW n \in Matches \ {m}
      PROVE  status'[n] = status[n] /\ players'[n] = players[n] /\ RosterOf(n)' = RosterOf(n)
  BY <1>1 DEF Committed
<1>9. pc[v] \in {"write", "insert", "commit"} /\ req[v].op # "create" => req[v].match \in Matches \ {m}
  BY OthersHaveOtherMatches
<1>10. RequestFits(v)'
  BY <1>4, <1>6 DEF RequestFits
<1>11. HoldsLocks(v)'
  <2>1. /\ pc[v] \in {"lock", "write", "insert", "commit"} =>
              RecordKey(req[v]) \in RecordKeys /\ owner'[RecordKey(req[v])] = v
        /\ pc[v] \in {"write", "insert", "commit"} /\ req[v].op # "create" =>
              matchLock'[req[v].match] = v
    BY <1>3, <1>5, <1>6, LocksOfOthers
  <2>2. ASSUME pc[v] = "replay" PROVE RecordFits(RecordKey(req[v]))'
    <3>1. RecordKey(req[v]) \in RecordKeys
      BY <1>6, <2>2, RequestCases DEF RequestFits
    <3>2. RecordFits(RecordKey(req[v]))
      BY <1>6, <2>2 DEF HoldsLocks
    <3>3. PICK j \in RecordKeys : j = RecordKey(req[v])
      BY <3>1
    <3>4. RecordFits(j)'
      BY <3>2, <3>3, CommitKeepsRecords
    <3>5. j = RecordKey(req'[v])
      BY <1>4, <3>3
    <3>. QED  BY <3>4, <3>5
  <2>3. ASSUME pc[v] \in {"lock", "write", "insert", "commit"} PROVE Reservable(RecordKey(req[v]))'
    <3>1. owner[RecordKey(req[v])] = v /\ Reservable(RecordKey(req[v]))
      BY <1>6, <2>3 DEF HoldsLocks
    <3>2. records'[RecordKey(req[v])] = records[RecordKey(req[v])]
      <4>1. RecordKey(req[v]) # RecordKey(req[w])
        BY <1>7, <3>1
      <4>2. DOMAIN records = RecordKeys
        BY <1>5 DEF RecordsFit
      <4>. QED  BY <2>1, <2>3, <4>1, <4>2 DEF Commit
    <3>3. RecordKey(req'[v]) = RecordKey(req[v])
      BY <1>4
    <3>. QED  BY <3>1, <3>2, <3>3 DEF Reservable
  <2>4. pc[v] \in {"write", "insert", "commit"} /\ req[v].op # "create" => status'[req[v].match] # "NONE"
    BY <1>6, <1>8, <1>9 DEF HoldsLocks
  <2>. QED  BY <1>4, <2>1, <2>2, <2>3, <2>4 DEF HoldsLocks
<1>12. InsertFits(v)'
  <2>1. ASSUME pc[v] = "insert"
        PROVE  /\ status'[req[v].match] = status[req[v].match]
               /\ players'[req[v].match] = players[req[v].match]
    BY <1>6, <1>8, <1>9, <2>1 DEF InsertFits
  <2>2. pc[v] = "insert" /\ ValidRoster(req[v]) => ValidRoster(req[v])'
    BY <1>4, <2>1 DEF ValidRoster
  <2>. QED  BY <1>4, <1>6, <2>1, <2>2 DEF InsertFits
<1>13. RowsClaimed(v)'
  <2>1. ASSUME Writing(v), NEW p \in DOMAIN draft[v].roster, rows'[p] # None
        PROVE  rows'[p].match = req[v].match
    <3>1. rows[p] # None => rows[p].match = req[v].match
      BY <1>6, <2>1 DEF RowsClaimed
    <3>2. p \in Participants
      BY <1>6, <2>1 DEF Writing, InsertFits, CommitFits, IsRoster
    <3>3. CASE req[w].op = "roster"
      <4>1. p \notin DOMAIN draft[w].roster
        BY <1>5, <1>7, <2>1, <3>3 DEF Apart, Writing
      <4>2. rows'[p] \in {None, rows[p]}
        BY <1>1, <3>2, <3>3, <4>1 DEF Committed
      <4>. QED  BY <2>1, <3>1, <4>2
    <3>4. CASE req[w].op # "roster"
      <4>1. rows' = rows
        BY <1>1, <3>4 DEF Committed
      <4>. QED  BY <2>1, <3>1, <4>1
    <3>. QED  BY <3>3, <3>4
  <2>. QED  BY <1>4, <2>1 DEF RowsClaimed, Writing
<1>14. CommitFits(v)'
  <2>1. ASSUME pc[v] = "commit", req[v].op = "create" PROVE status'[draft[v].value] = "NONE"
    <3>1. draft[v].value \in Matches /\ status[draft[v].value] = "NONE"
      BY <1>6, <2>1 DEF CommitFits
    <3>2. draft[v].value # m
      BY <1>5, <1>7, <2>1, <3>1 DEF Apart, Creating
    <3>. QED  BY <1>8, <3>1, <3>2
  <2>2. ASSUME pc[v] = "commit", req[v].op # "create"
        PROVE  /\ status'[req[v].match] = status[req[v].match]
               /\ players'[req[v].match] = players[req[v].match]
               /\ RosterOf(req[v].match)' = RosterOf(req[v].match)
    <3>1. PICK n \in Matches \ {m} : n = req[v].match
      BY <1>9, <2>2
    <3>2. status'[n] = status[n] /\ players'[n] = players[n] /\ RosterOf(n)' = RosterOf(n)
      BY <1>8
    <3>3. n = req'[v].match
      BY <1>4, <3>1
    <3>. QED  BY <3>1, <3>2, <3>3
  <2>. QED  BY <1>4, <1>6, <2>1, <2>2 DEF CommitFits
<1>15. ReplyFits(v)'
  <2>1. ASSUME NEW n \in Matches, status[n] # "NONE"
        PROVE  status'[n] # "NONE" /\ players'[n] = players[n]
    BY <2>1, DraftsStay
  <2>2. HasDraft(req[v], reply[v].value) => HasDraft(req[v], reply[v].value)'
    BY <1>4, <2>1 DEF HasDraft
  <2>3. Tells(req[v], reply[v].value) => Tells(req[v], reply[v].value)'
    BY <1>4 DEF Tells, OnSide, EventOf
  <2>. QED  BY <1>4, <1>6, <2>2, <2>3 DEF ReplyFits
<1>. QED  BY <1>10, <1>11, <1>12, <1>13, <1>14, <1>15 DEF SessionFits

LEMMA CommitKeeps ==
    ASSUME SetupInvariant, NEW w \in Workers, Commit(w)
    PROVE  SetupInvariant'
<1>1. Match(w) \in Matches
  BY CommitBegins
<1>2. PICK m \in Matches : m = Match(w)
  BY <1>1
<1>3. TablesFit' /\ RecordsFit'
  BY <1>2, CommitKeepsTables, CommitKeepsRecords
<1>4. Finish(w, Success(draft[w].value))
  BY DEF Commit
<1>5. /\ OnlySession(w) /\ OnlyLocks(w) /\ todo'[w] \in Seq(Participants)
      /\ pc'[w] = "reply" /\ req'[w] = req[w] /\ reply'[w] = Success(draft[w].value)
  BY <1>4, FinishEndsSession
<1>6. LocksFit'
  BY <1>5, LocksStayWithOpenTransactions DEF SetupInvariant
<1>7. ReplyFits(w)'
  <2>1. /\ pc[w] = "commit" /\ req[w] \in Requests /\ CommitFits(w)
        /\ req[w].op = "create" => m = draft[w].value
    BY <1>2, CommitBegins
  <2>2. reply'[w].outcome = "ok" /\ reply'[w].value = draft[w].value
    BY <1>5 DEF Success
  <2>3. Tells(req[w], draft[w].value)
    BY <2>1 DEF CommitFits, Tells
  <2>4. ASSUME req[w].op = "create"
        PROVE  m = draft[w].value /\ status'[m] # "NONE" /\ players'[m] = req[w].players
    BY <1>2, <2>1, <2>4, CommitChangesOneMatch DEF Committed
  <2>. QED  BY <1>5, <2>2, <2>3, <2>4 DEF ReplyFits, Outcomes, Tells, HasDraft, OnSide, EventOf
<1>8. SessionFits(w)'
  <2>1. req[w] \in Requests
    BY CommitBegins
  <2>. QED  BY <1>5, <1>7, <2>1 DEF SessionFits, RequestFits, HoldsLocks, InsertFits, RowsClaimed,
                                    CommitFits, Writing
<1>9. \A v \in Workers : SessionFits(v)'
  BY <1>2, <1>8, OthersOutliveCommit
<1>10. ASSUME NEW u \in Workers, NEW v \in Workers, u # v PROVE Apart(u, v)'
  <2>1. CASE u = w \/ v = w
    BY <1>5, <2>1 DEF Apart, Writing, Creating
  <2>2. CASE u # w /\ v # w
    <3>1. Apart(u, v)
      BY <1>10 DEF SetupInvariant, SessionsFit
    <3>2. /\ pc'[u] = pc[u] /\ req'[u] = req[u] /\ draft'[u] = draft[u]
          /\ pc'[v] = pc[v] /\ req'[v] = req[v] /\ draft'[v] = draft[v]
      BY <1>5, <2>2 DEF OnlySession
    <3>. QED  BY <3>1, <3>2 DEF Apart, Writing, Creating
  <2>. QED  BY <2>1, <2>2
<1>11. SessionsFit'
  BY <1>5, <1>9, <1>10 DEF SessionsFit, OnlySession
<1>. QED  BY <1>3, <1>6, <1>11 DEF SetupInvariant

-----------------------------------------------------------------------------
(* Ends of sessions and of records *)

LEMMA EndSessionFacts ==
    ASSUME SetupInvariant, NEW w \in Workers, EndSession(w)
    PROVE  UNCHANGED tables /\ OnlySession(w) /\ pc'[w] = "idle" /\ todo'[w] \in Seq(Participants)
<1>1. SessionsFit
  BY DEF SetupInvariant
<1>2. <<>> \in Seq(Participants)
  OBVIOUS
<1>. QED  BY <1>1, <1>2 DEF EndSession, Goto, OnlySession, SessionsFit

LEMMA ReplyKeeps ==
    ASSUME SetupInvariant, NEW w \in Workers, Reply(w)
    PROVE  SetupInvariant'
<1>1. UNCHANGED tables /\ OnlySession(w) /\ pc'[w] = "idle" /\ todo'[w] \in Seq(Participants)
  BY EndSessionFacts DEF Reply
<1>2. OnlyLocks(w)
  BY LocksAreKept DEF Reply, SetupInvariant
<1>. QED  BY <1>1, <1>2, SessionEnds

LEMMA CrashKeeps ==
    ASSUME SetupInvariant, NEW w \in Workers, Crash(w)
    PROVE  SetupInvariant'
<1>1. UNCHANGED tables /\ OnlySession(w) /\ pc'[w] = "idle" /\ todo'[w] \in Seq(Participants)
  BY EndSessionFacts DEF Crash
<1>2. OnlyLocks(w)
  BY LocksAreReleased DEF Crash, SetupInvariant
<1>. QED  BY <1>1, <1>2, SessionEnds

\* Who waits is in a transaction.
LEMMA AbortDeadlockedKeeps ==
    ASSUME SetupInvariant, NEW w \in Workers, AbortDeadlocked(w)
    PROVE  SetupInvariant'
<1>1. WaitsFor(w) # {} /\ Rollback(w, "internal")
  BY DEF AbortDeadlocked, Deadlocked
<1>2. pc[w] # "idle"
  BY <1>1 DEF WaitsFor
<1>. QED  BY <1>1, <1>2, RollbackKeeps DEF Outcomes

\* A record with another mark keeps the rest.
LEMMA MarkedRecord ==
    ASSUME NEW mark, NEW record, NEW marked,
           record = [hash |-> record.hash, result |-> Success(record.result.value),
                     expired |-> record.expired],
           marked = [record EXCEPT !.expired = mark]
    PROVE  /\ marked = [hash |-> record.hash, result |-> record.result, expired |-> mark]
           /\ marked.hash = record.hash /\ marked.result = record.result
           /\ marked.expired = mark
OBVIOUS

LEMMA ExpireKeeps ==
    ASSUME SetupInvariant, NEW k \in RecordKeys, Expire(k)
    PROVE  SetupInvariant'
<1>1. /\ records[k] # None /\ records' = [records EXCEPT ![k].expired = TRUE]
      /\ status' = status /\ players' = players /\ rows' = rows /\ events' = events
      /\ owner' = owner /\ matchLock' = matchLock
      /\ pc' = pc /\ req' = req /\ todo' = todo /\ draft' = draft /\ reply' = reply
  BY DEF Expire, locks, session
<1>2. TablesFit /\ RecordsFit /\ LocksFit /\ SessionsFit
  BY DEF SetupInvariant
<1>3. /\ DOMAIN records' = RecordKeys
      /\ \A j \in RecordKeys \ {k} : records'[j] = records[j]
      /\ records'[k] = [records[k] EXCEPT !.expired = TRUE]
  BY <1>1, <1>2 DEF RecordsFit
<1>4. /\ records[k] = [hash |-> records[k].hash, result |-> Success(records[k].result.value),
                       expired |-> records[k].expired]
      /\ RecordFits(k)
  BY <1>1, <1>2 DEF RecordsFit, RecordFits
<1>5. /\ records'[k] = [hash |-> records'[k].hash, result |-> records'[k].result,
                        expired |-> records'[k].expired]
      /\ records'[k].hash = records[k].hash /\ records'[k].result = records[k].result
      /\ records'[k].expired = TRUE
  <2>1. PICK mark : mark = TRUE
    OBVIOUS
  <2>2. records'[k] = [records[k] EXCEPT !.expired = mark]
    BY <1>3, <2>1
  <2>3. /\ records'[k] = [hash |-> records[k].hash, result |-> records[k].result, expired |-> mark]
        /\ records'[k].hash = records[k].hash /\ records'[k].result = records[k].result
        /\ records'[k].expired = mark
    BY <1>4, <2>2, MarkedRecord
  <2>4. records'[k] = [hash |-> records'[k].hash, result |-> records'[k].result,
                       expired |-> records'[k].expired]
    BY <2>3
  <2>. QED  BY <2>1, <2>3, <2>4
<1>6. \A m : RosterOf(m)' = RosterOf(m)
  BY <1>1 DEF RosterOf
<1>7. TablesFit'
  BY <1>1, <1>2, <1>6 DEF TablesFit, MatchFits
<1>8. ASSUME NEW j \in RecordKeys, RecordFits(j) PROVE RecordFits(j)'
  <2>1. CASE j = k
    <3>1. records'[k] = [hash |-> records'[k].hash, result |-> Success(records'[k].result.value),
                         expired |-> records'[k].expired]
      BY <1>4, <1>5 DEF Success
    <3>. QED  BY <1>1, <1>4, <1>5, <2>1, <3>1 DEF RecordFits, HasDraft, Success
  <2>2. CASE j # k
    BY <1>1, <1>3, <1>8, <2>2 DEF RecordFits, HasDraft
  <2>. QED  BY <2>1, <2>2
<1>9. RecordsFit'
  <2>1. \A j \in RecordKeys : records'[j] # None => RecordFits(j)' /\ records[j] # None
    BY <1>1, <1>2, <1>3, <1>8 DEF RecordsFit
  <2>2. \A j \in RecordKeys : records'[j] # None => records'[j].result = records[j].result
    BY <1>3, <1>5
  <2>. QED  BY <1>2, <1>3, <2>1, <2>2 DEF RecordsFit
<1>10. LocksFit'
  BY <1>1, <1>2 DEF LocksFit
<1>11. \A j \in RecordKeys : Reservable(j) => Reservable(j)'
  BY <1>3, <1>5 DEF Reservable
<1>12. ASSUME NEW w \in Workers PROVE SessionFits(w)'
  <2>1. RequestFits(w) /\ HoldsLocks(w) /\ InsertFits(w) /\ RowsClaimed(w) /\ CommitFits(w) /\ ReplyFits(w)
    BY <1>2 DEF SessionsFit, SessionFits
  <2>2. HoldsLocks(w)'
    <3>1. CASE pc[w] = "replay"
      <4>1. RecordKey(req[w]) \in RecordKeys /\ RecordFits(RecordKey(req[w]))
        BY <2>1, <3>1, RequestCases DEF RequestFits, HoldsLocks
      <4>2. PICK j \in RecordKeys : j = RecordKey(req[w])
        BY <4>1
      <4>3. RecordFits(j)' /\ j = RecordKey(req'[w])
        BY <1>1, <1>8, <4>1, <4>2
      <4>4. RecordFits(RecordKey(req[w]))'
        BY <4>3
      <4>. QED  BY <1>1, <3>1, <4>4 DEF HoldsLocks
    <3>2. CASE pc[w] \in {"lock", "write", "insert", "commit"}
      <4>1. RecordKey(req[w]) \in RecordKeys /\ Reservable(RecordKey(req[w]))
        BY <2>1, <3>2, RequestCases DEF RequestFits, HoldsLocks
      <4>2. Reservable(RecordKey(req[w]))'
        BY <1>1, <1>11, <4>1 DEF Reservable
      <4>. QED  BY <1>1, <2>1, <3>2, <4>2 DEF HoldsLocks
    <3>3. CASE pc[w] \notin {"replay", "lock", "write", "insert", "commit"}
      BY <1>1, <3>3 DEF HoldsLocks
    <3>. QED  BY <3>1, <3>2, <3>3
  <2>3. RequestFits(w)' /\ RowsClaimed(w)'
    BY <1>1, <2>1 DEF RequestFits, RowsClaimed, Writing
  <2>4. InsertFits(w)'
    BY <1>1, <2>1 DEF InsertFits, ValidRoster
  <2>5. CommitFits(w)'
    BY <1>1, <1>6, <2>1 DEF CommitFits
  <2>6. ReplyFits(w)'
    BY <1>1, <2>1 DEF ReplyFits, HasDraft
  <2>. QED  BY <2>2, <2>3, <2>4, <2>5, <2>6 DEF SessionFits
<1>13. SessionsFit'
  <2>1. \A v, w \in Workers : v # w => Apart(v, w)'
    BY <1>1, <1>2 DEF SessionsFit, Apart, Writing, Creating
  <2>. QED  BY <1>1, <1>2, <1>12, <2>1 DEF SessionsFit
<1>. QED  BY <1>7, <1>9, <1>10, <1>13 DEF SetupInvariant

-----------------------------------------------------------------------------
(* Theorems *)

\* Nothing changes: what the invariant reads stays the same.
LEMMA StutterKeeps ==
    ASSUME SetupInvariant, UNCHANGED vars
    PROVE  SetupInvariant'
<1>1. UNCHANGED tables /\ owner' = owner /\ matchLock' = matchLock
      /\ pc' = pc /\ req' = req /\ todo' = todo /\ draft' = draft /\ reply' = reply
  BY DEF vars, tables
<1>2. TablesFit /\ RecordsFit /\ LocksFit /\ SessionsFit
  BY DEF SetupInvariant
<1>3. /\ TablesFit' /\ RecordsFit'
      /\ \A m : RosterOf(m)' = RosterOf(m)
      /\ \A k : Reservable(k)' = Reservable(k) /\ RecordFits(k)' = RecordFits(k)
      /\ status' = status /\ players' = players /\ rows' = rows
  BY <1>1, <1>2, SameTables DEF tables
<1>4. LocksFit'
  BY <1>1, <1>2 DEF LocksFit
<1>5. ASSUME NEW w \in Workers PROVE SessionFits(w)'
  <2>1. RequestFits(w) /\ HoldsLocks(w) /\ InsertFits(w) /\ RowsClaimed(w) /\ CommitFits(w) /\ ReplyFits(w)
    BY <1>2 DEF SessionsFit, SessionFits
  <2>2. RequestFits(w)' /\ RowsClaimed(w)' /\ HoldsLocks(w)'
    BY <1>1, <1>3, <2>1 DEF RequestFits, RowsClaimed, Writing, HoldsLocks
  <2>3. InsertFits(w)'
    BY <1>1, <1>3, <2>1 DEF InsertFits, ValidRoster
  <2>4. CommitFits(w)'
    BY <1>1, <1>3, <2>1 DEF CommitFits
  <2>5. ReplyFits(w)'
    BY <1>1, <1>3, <2>1 DEF ReplyFits, HasDraft
  <2>. QED  BY <2>1, <2>2, <2>3, <2>4, <2>5 DEF SessionFits
<1>6. \A v, w \in Workers : v # w => Apart(v, w)'
  BY <1>1, <1>2 DEF SessionsFit, Apart, Writing, Creating
<1>7. SessionsFit'
  BY <1>1, <1>2, <1>5, <1>6 DEF SessionsFit
<1>. QED  BY <1>3, <1>4, <1>7 DEF SetupInvariant

\* The tables, the records and the sessions of any number of workers fit together
\* in every state: what a transaction has checked still holds when it commits.
THEOREM SetupIsConsistent == Spec => []SetupInvariant
<1>1. Init => SetupInvariant
  BY InitFits
<1>2. SetupInvariant /\ [Next]_vars => SetupInvariant'
  <2>. SUFFICES ASSUME SetupInvariant, [Next]_vars PROVE SetupInvariant'
    OBVIOUS
  <2>1. ASSUME NEW w \in Workers, NEW r \in Requests, Receive(w, r) PROVE SetupInvariant'
    BY <2>1, ReceiveKeeps
  <2>2. ASSUME NEW w \in Workers, Serve(w) PROVE SetupInvariant'
    BY <2>2, ReserveKeeps, ReplayKeeps, LockMatchKeeps, InsertDraftKeeps, ClearRosterKeeps,
       InsertParticipantKeeps, RosterWrittenKeeps, LineupsWriteKeeps, ReadyWriteKeeps,
       LiveWriteKeeps, EventWriteKeeps, CommitKeeps, ReplyKeeps DEF Serve
  <2>3. ASSUME NEW w \in Workers, Crash(w) \/ AbortDeadlocked(w) PROVE SetupInvariant'
    BY <2>3, CrashKeeps, AbortDeadlockedKeeps
  <2>4. ASSUME NEW k \in RecordKeys, Expire(k) PROVE SetupInvariant'
    BY <2>4, ExpireKeeps
  <2>5. CASE UNCHANGED vars
    BY <2>5, StutterKeeps
  <2>. QED  BY <2>1, <2>2, <2>3, <2>4, <2>5 DEF Next
<1>. QED  BY <1>1, <1>2, PTL DEF Spec

\* The tables and sessions have their types, and whoever holds a lock is at a
\* place in the code that comes after taking it.
THEOREM SetupTypeCorrect == Spec => []TypeOK
<1>. SUFFICES ASSUME SetupInvariant PROVE TypeOK
  BY SetupIsConsistent, PTL
<1>1. TablesFit /\ RecordsFit /\ LocksFit /\ \A w \in Workers : RequestFits(w) /\ ReplyFits(w)
  BY DEF SetupInvariant, SessionsFit, SessionFits
<1>2. \A m \in Matches : status[m] = "NONE" <=> players[m] \notin 2 .. 11
  BY <1>1 DEF TablesFit, MatchFits
<1>3. ASSUME NEW k \in RecordKeys, records[k] # None PROVE records[k].result.outcome = "ok"
  <2>1. records[k] = [hash |-> records[k].hash, result |-> Success(records[k].result.value),
                      expired |-> records[k].expired]
    BY <1>1, <1>3 DEF RecordsFit, RecordFits
  <2>2. records[k].result = Success(records[k].result.value)
    BY <2>1
  <2>. QED  BY <2>2 DEF Success
<1>4. \A w \in Workers : todo[w] \in Seq(Participants) /\ (pc[w] = "reply" => reply[w].outcome \in Outcomes)
  BY <1>1 DEF RequestFits, ReplyFits
<1>. QED  BY <1>1, <1>2, <1>3, <1>4 DEF TypeOK, TablesFit, LocksFit

\* Whoever chose the starters, a match that is ready or live has all of them,
\* whatever rosters raced with MarkReady and StartLiveSession.
THEOREM LineupsAreAlwaysComplete == Spec => []LineupsAreComplete
<1>. SUFFICES ASSUME SetupInvariant PROVE LineupsAreComplete
  BY SetupIsConsistent, PTL
<1>1. \A m \in Matches : MatchFits(m)
  BY DEF SetupInvariant, TablesFit
<1>. QED  BY <1>1 DEF MatchFits, LineupsAreComplete, LineupIsComplete, Complete

\* Only a commit writes participants.
LEMMA OnlyCommitsWriteRows ==
    ASSUME [Next]_vars, rows' # rows
    PROVE  \E w \in Workers : Commit(w)
<1>1. ASSUME UNCHANGED tables PROVE FALSE
  BY <1>1 DEF tables
<1>2. ASSUME NEW w \in Workers, NEW r \in Requests, Receive(w, r) PROVE UNCHANGED tables
  BY <1>2 DEF Receive
<1>3. ASSUME NEW w \in Workers, Crash(w) \/ AbortDeadlocked(w) \/ Reply(w) \/ Replay(w) \/ Reserve(w)
      PROVE  UNCHANGED tables
  BY <1>3 DEF Crash, EndSession, AbortDeadlocked, Rollback, Reply, Replay, Reserve
<1>4. ASSUME NEW w \in Workers, LockMatch(w) \/ InsertDraft(w) \/ RosterWritten(w) \/ LineupsWrite(w)
                                \/ ReadyWrite(w) \/ LiveWrite(w) \/ EventWrite(w)
      PROVE  UNCHANGED tables
  BY <1>4 DEF LockMatch, InsertDraft, RosterWritten, LineupsWrite, ReadyWrite, LiveWrite, EventWrite,
              Prepare, Rollback
<1>5. ASSUME NEW w \in Workers, ClearRoster(w) \/ InsertParticipant(w) PROVE UNCHANGED tables
  BY <1>5 DEF ClearRoster, InsertParticipant, Rollback
<1>6. ASSUME NEW k \in RecordKeys, Expire(k) PROVE FALSE
  BY <1>6 DEF Expire
<1>7. CASE UNCHANGED vars
  BY <1>7 DEF vars
<1>. QED  BY <1>1, <1>2, <1>3, <1>4, <1>5, <1>6, <1>7 DEF Next, Serve

\* No request changes who plays in a match that has left the draft, neither one
\* to the match itself nor one to another match that names its participants.
THEOREM RostersStayFrozen == Spec => RosterIsFrozen
<1>1. ASSUME SetupInvariant, [Next]_vars,
             NEW m \in Matches, status[m] \in {"READY", "LIVE"}
      PROVE  RosterOf(m)' = RosterOf(m)
  <2>1. CASE rows' = rows
    BY <2>1 DEF RosterOf
  <2>2. ASSUME NEW w \in Workers, Commit(w) PROVE RosterOf(m)' = RosterOf(m)
    <3>1. /\ Match(w) \in Matches /\ pc[w] = "commit" /\ CommitFits(w)
          /\ req[w].op # "create" => Match(w) = req[w].match
      BY <1>1, <2>2, CommitBegins
    <3>2. PICK n \in Matches : n = Match(w)
      BY <3>1
    <3>3. Committed(w, n)
      BY <1>1, <2>2, <3>2, CommitChangesOneMatch
    <3>4. CASE n # m
      BY <3>3, <3>4 DEF Committed
    <3>5. CASE n = m
      <4>1. req[w].op # "roster"
        BY <1>1, <3>1, <3>2, <3>5 DEF CommitFits
      <4>. QED  BY <3>3, <3>5, <4>1 DEF Committed
    <3>. QED  BY <3>4, <3>5
  <2>. QED  BY <1>1, <2>1, <2>2, OnlyCommitsWriteRows
<1>2. SetupInvariant /\ [Next]_vars =>
          [\A m \in Matches : status[m] \in {"READY", "LIVE"} => RosterOf(m)' = RosterOf(m)]_vars
  BY <1>1
<1>. QED  BY <1>2, SetupIsConsistent, PTL DEF Spec, RosterIsFrozen

\* Only a request whose key was free is carried out, so a late retry of an old
\* roster cannot undo a newer one.
THEOREM RequestsAreAppliedOnce == Spec => AppliedOnce
<1>1. SetupInvariant =>
          \A w \in Workers : pc[w] = "commit" => Reservable(RecordKey(req[w]))
  BY DEF SetupInvariant, SessionsFit, SessionFits, HoldsLocks
<1>2. SetupInvariant /\ [Next]_vars =>
          [\A w \in Workers :
              pc[w] = "commit" /\ pc'[w] = "reply" => Reservable(RecordKey(req[w]))]_vars
  BY <1>1
<1>. QED  BY <1>2, SetupIsConsistent, PTL DEF Spec, AppliedOnce

\* A success, replayed or not, answers the request it is given for.
THEOREM AnswersFitTheirRequests == Spec => []AnswerFitsRequest
<1>. SUFFICES ASSUME SetupInvariant PROVE AnswerFitsRequest
  BY SetupIsConsistent, PTL
<1>1. \A w \in Workers : ReplyFits(w)
  BY DEF SetupInvariant, SessionsFit, SessionFits
<1>. QED  BY <1>1 DEF ReplyFits, Tells, AnswerFitsRequest

\* A key stands for one draft, and the draft is the one that was asked for.
THEOREM DraftsAlwaysAnswerTheirKeys == Spec => []DraftsAnswerTheirKeys
<1>. SUFFICES ASSUME SetupInvariant PROVE DraftsAnswerTheirKeys
  BY SetupIsConsistent, PTL
<1>1. \A w \in Workers : ReplyFits(w)
  BY DEF SetupInvariant, SessionsFit, SessionFits
<1>2. RecordsFit
  BY DEF SetupInvariant
<1>. QED  BY <1>1, <1>2 DEF ReplyFits, HasDraft, RecordsFit, DraftsAnswerTheirKeys

\* Recorded events keep the subjects their action needs, on the right side, whatever
\* rosters are sent.
THEOREM EventsAlwaysKeepTheirSubjects == Spec => []EventsKeepTheirSubjects
<1>. SUFFICES ASSUME SetupInvariant PROVE EventsKeepTheirSubjects
  BY SetupIsConsistent, PTL
<1>1. \A m \in Matches : MatchFits(m)
  BY DEF SetupInvariant, TablesFit
<1>2. ASSUME NEW m \in Matches, NEW i \in DOMAIN events[m]
      PROVE  EventFits(events[m][i], RosterOf(m))
  <2>1. events[m] \in Seq(RecordedEvents)
    BY <1>1 DEF MatchFits
  <2>2. i \in 1 .. Len(events[m])
    BY <1>2, <2>1, LenProperties
  <2>. QED  BY <1>1, <2>2 DEF MatchFits
<1>. QED  BY <1>2 DEF EventFits, EventsKeepTheirSubjects

=============================================================================
