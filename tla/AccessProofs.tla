---------------------------- MODULE AccessProofs ----------------------------
(***************************************************************************)
(* Proofs about Access for any number of handlers, keys and users, and for *)
(* every lifetime of the cache and timeout of a fetch.                     *)
(***************************************************************************)
EXTENDS Access, TLAPS

\* What a set of keys is worth that was the issuer's document a time of lag ago or
\* later: its keys were published then, and those published for longer are in it.
CoversAt(st, ag, set, lag) ==
    /\ \A k \in set : st[k] # "new" /\ (st[k] = "withdrawn" => ag[k] <= lag)
    /\ \A k \in Keys \ set : st[k] = "published" => ag[k] <= lag

Covers(set, lag) == CoversAt(stage, age, set, lag)

\* The documents on their way are as old as their fetch, the cached set is no
\* older than a fetch and its use, and a look-up that follows a fetch finds a cache
\* in use.
KeyTimes ==
    /\ left > 0 => Covers(keys, Horizon - left)
    /\ \A h \in Handlers :
          /\ session[h].phase = "store" =>
                Covers(session[h].document, Timeout - session[h].left)
          /\ session[h].phase = "find" => left > 0

AccessInvariant == TypeOK /\ KeyTimes

-----------------------------------------------------------------------------
(* Types *)

LEMMA TimeFacts ==
    /\ TTL \in Nat /\ TTL > 0 /\ Timeout \in Nat /\ Timeout > 0
    /\ Horizon \in Nat /\ Horizon = Timeout + TTL
    /\ Timeout \in 0 .. Timeout /\ 0 \in 0 .. Timeout
  BY TimeAssumption DEF Horizon

LEMMA IdleType == Idle \in Sessions
  BY TimeFacts DEF Idle, Sessions, Phases

\* What queries and properties count is a set of organizations.
LEMMA OrganizationsFound ==
    ASSUME NEW r, NEW table
    PROVE  Memberships(r) \subseteq Organizations /\ Standing(r, table) \subseteq Organizations
  BY DEF Memberships, Standing

LEMMA VerifiedType ==
    ASSUME NEW s \in Sessions, s.request \in Requests
    PROVE  /\ Verified(s) \in Sessions
           /\ Verified(s).request = s.request
           /\ Verified(s).phase \in {"authorize", "upsert"}
<1>. DEFINE next == IF s.request.op = "me" THEN "upsert" ELSE "authorize"
            now  == {Standing(s.request, members)}
<1>1. now \in SUBSET SUBSET Organizations
  BY OrganizationsFound
<1>2. next \in {"authorize", "upsert"}
  OBVIOUS
<1>3. Verified(s) = [s EXCEPT !.phase = next, !.seen = now]
  BY DEF Verified
<1>. HIDE DEF now, next
<1>. QED  BY <1>1, <1>2, <1>3 DEF Sessions, Phases

\* A session that may take the place of the one of a handler.
Sound(s) == s \in Sessions /\ (s.request = None <=> s.phase = "idle")

SessionsSound == session \in [Handlers -> Sessions] /\ \A h \in Handlers : Sound(session[h])

LEMMA ReplaceSession ==
    ASSUME SessionsSound, NEW h \in Handlers, NEW s, Sound(s),
           session' = [session EXCEPT ![h] = s]
    PROVE  SessionsSound'
  BY DEF SessionsSound, Sound

\* Only the handler that acts has another session afterwards, and it is sound.
LEMMA HandlerTypes ==
    ASSUME SessionsSound, NEW h \in Handlers,
           \/ \E r \in Requests : Receive(h, r)
           \/ Fetch(h) \/ FetchFails(h) \/ DatabaseFails(h) \/ Work(h)
    PROVE  SessionsSound' /\ \A g \in Handlers \ {h} : session'[g] = session[g]
<1>. DEFINE s == session[h]
<1>1. s \in Sessions /\ (s.request = None <=> s.phase = "idle") /\ session \in [Handlers -> Sessions]
  BY DEF SessionsSound, Sound
<1>2. None \notin Requests
  BY RequestsAssumption
<1>3. SUFFICES \E t : Sound(t) /\ session' = [session EXCEPT ![h] = t]
  BY <1>1, ReplaceSession DEF Sessions
<1>4. ASSUME NEW r \in Requests, Receive(h, r)
      PROVE  \E t : Sound(t) /\ session' = [session EXCEPT ![h] = t]
  <2>. DEFINE i == [Idle EXCEPT !.request = r]
  <2>1. i \in Sessions /\ i.request = r
    BY IdleType DEF Idle, Sessions
  <2>2. Sound([i EXCEPT !.phase = "answered", !.answer = "401"])
    BY <1>2, <2>1 DEF Sound, Sessions, Phases, Answers
  <2>3. Sound([i EXCEPT !.phase = "answered", !.answer = "none"])
    BY <1>2, <2>1 DEF Sound, Sessions, Phases, Answers
  <2>4. Sound([i EXCEPT !.phase = "fetch", !.left = Timeout])
    <3>1. Timeout \in 0 .. Timeout
      BY TimeFacts
    <3>. HIDE DEF i
    <3>. QED  BY <1>2, <2>1, <3>1 DEF Sound, Sessions, Phases, Answers
  <2>5. Sound(Verified(i))
    BY <1>2, <2>1, VerifiedType DEF Sound
  <2>. QED  BY <1>4, <2>2, <2>3, <2>4, <2>5 DEF Receive
<1>5. CASE Fetch(h)
  <2>1. Sound([s EXCEPT !.phase = "store", !.document = Published])
    BY <1>1, <1>5 DEF Fetch, Sound, Sessions, Phases, Answers, Published
  <2>. QED  BY <1>1, <1>5, <2>1 DEF Fetch
<1>6. ASSUME NEW label \in {"answered", "find"}, NEW status \in {"401", None},
             Fetched(h, label, status), s.phase # "idle"
      PROVE  \E t : Sound(t) /\ session' = [session EXCEPT ![h] = t]
  <2>1. Sound([s EXCEPT !.phase = label, !.answer = status, !.left = 0, !.document = {}])
    BY <1>1, <1>6, TimeFacts DEF Sound, Sessions, Phases, Answers
  <2>. QED  BY <1>1, <1>6, <2>1 DEF Fetched
<1>7. CASE FetchFails(h) \/ TimeOut(h) \/ Store(h)
  BY <1>6, <1>7 DEF FetchFails, TimeOut, Store
<1>8. ASSUME NEW status \in {"401", "500"}, Answer(h, status), s.phase # "idle"
      PROVE  \E t : Sound(t) /\ session' = [session EXCEPT ![h] = t]
  <2>1. Sound([s EXCEPT !.phase = "answered", !.answer = status])
    BY <1>1, <1>8 DEF Sound, Sessions, Phases, Answers
  <2>. QED  BY <1>1, <1>8, <2>1 DEF Answer
<1>9. CASE DatabaseFails(h)
  BY <1>8, <1>9 DEF DatabaseFails
<1>10. CASE Find(h)
  <2>1. s.phase = "find" /\ s.request \in Requests
    BY <1>1, <1>10 DEF Find, Sessions
  <2>2. Sound(Verified(s))
    BY <1>1, <1>2, <2>1, VerifiedType DEF Sound
  <2>. QED  BY <1>8, <1>10, <2>1, <2>2 DEF Find
<1>11. CASE Authorize(h)
  <2>. DEFINE status == IF Memberships(s.request) = {} THEN "403" ELSE "2xx"
  <2>1. Sound([s EXCEPT !.phase = "answered", !.answer = status])
    BY <1>1, <1>11 DEF Authorize, Sound, Sessions, Phases, Answers
  <2>. QED  BY <1>1, <1>11, <2>1 DEF Authorize
<1>12. CASE UpsertMe(h)
  <2>1. Sound([s EXCEPT !.phase = "list"])
    BY <1>1, <1>12 DEF UpsertMe, Sound, Sessions, Phases, Answers
  <2>. QED  BY <1>1, <1>12, <2>1 DEF UpsertMe, Goto
<1>13. CASE ListMemberships(h)
  <2>1. Sound([s EXCEPT !.phase = "answered", !.answer = "2xx", !.rows = Memberships(s.request)])
    BY <1>1, <1>13, OrganizationsFound DEF ListMemberships, Sound, Sessions, Phases, Answers
  <2>. QED  BY <1>1, <1>13, <2>1 DEF ListMemberships
<1>14. CASE EndSession(h)
  <2>1. Sound(Idle)
    BY IdleType DEF Sound, Idle
  <2>. QED  BY <1>14, <2>1 DEF EndSession
<1>. QED  BY <1>4, <1>5, <1>7, <1>9, <1>10, <1>11, <1>12, <1>13, <1>14 DEF Work

\* The time that is left of a fetch that is going on is positive when time goes by.
LEMMA TickTypes ==
    ASSUME SessionsSound, Tick
    PROVE  SessionsSound'
<1>. DEFINE next(h) == IF session[h].phase \in {"fetch", "store"}
                       THEN [session[h] EXCEPT !.left = @ - 1] ELSE session[h]
<1>1. session' = [h \in Handlers |-> next(h)]
  BY DEF Tick
<1>2. ASSUME NEW h \in Handlers
      PROVE  Sound(next(h))
  <2>1. Sound(session[h]) /\ session[h].left \in 0 .. Timeout
    BY DEF SessionsSound, Sound, Sessions
  <2>2. CASE session[h].phase \in {"fetch", "store"}
    <3>1. session[h].left - 1 \in 0 .. Timeout
      BY <2>1, <2>2, TimeFacts DEF Tick
    <3>. QED  BY <2>1, <2>2, <3>1 DEF Sound, Sessions
  <2>. QED  BY <2>1, <2>2
<1>. HIDE DEF next
<1>. QED  BY <1>1, <1>2 DEF SessionsSound, Sound

LEMMA MembershipTypes ==
    ASSUME SessionsSound, NEW u, NEW o, NEW membership, ChangeMembership(u, o, membership)
    PROVE  SessionsSound' /\ \A h \in Handlers :
               /\ session'[h].phase = session[h].phase
               /\ session'[h].left = session[h].left
               /\ session'[h].document = session[h].document
<1>. DEFINE more(h) == session[h].seen \union {Standing(session[h].request, members')}
            next(h) == IF session[h].seen = {} THEN session[h]
                       ELSE [session[h] EXCEPT !.seen = more(h)]
<1>1. session' = [h \in Handlers |-> next(h)]
  BY DEF ChangeMembership
<1>2. ASSUME NEW h \in Handlers
      PROVE  /\ Sound(next(h))
             /\ next(h).phase = session[h].phase
             /\ next(h).left = session[h].left
             /\ next(h).document = session[h].document
  <2>1. Sound(session[h])
    BY DEF SessionsSound
  <2>2. more(h) \in SUBSET SUBSET Organizations
    <3>1. session[h].seen \in SUBSET SUBSET Organizations
      BY <2>1 DEF Sound, Sessions
    <3>2. Standing(session[h].request, members') \subseteq Organizations
      BY DEF Standing
    <3>. QED  BY <3>1, <3>2
  <2>. HIDE DEF more
  <2>. QED  BY <2>1, <2>2 DEF Sound, Sessions
<1>. HIDE DEF next
<1>. QED  BY <1>1, <1>2 DEF SessionsSound, Sound

LEMMA TypeNext == TypeOK /\ [Next]_vars => TypeOK'
<1>. SUFFICES ASSUME TypeOK, [Next]_vars PROVE TypeOK'
  OBVIOUS
<1>. DEFINE CacheTyped   == keys \subseteq Keys /\ left \in 0 .. TTL /\ (left > 0 => keys # {})
            IssuerTyped  == /\ stage \in [Keys -> {"new", "published", "withdrawn"}]
                            /\ age \in [Keys -> 0 .. Horizon]
            TablesTyped  == /\ users \subseteq Users
                            /\ members \in [Users \X Organizations -> Changes \union {None}]
<1>1. SessionsSound /\ CacheTyped /\ IssuerTyped /\ TablesTyped
  BY DEF TypeOK, SessionsSound, Sound
<1>2. SUFFICES SessionsSound' /\ CacheTyped' /\ IssuerTyped' /\ TablesTyped'
  BY DEF TypeOK, SessionsSound, Sound
<1>3. ASSUME NEW h \in Handlers,
             \/ \E r \in Requests : Receive(h, r)
             \/ Fetch(h) \/ FetchFails(h) \/ DatabaseFails(h) \/ Work(h)
      PROVE  SessionsSound' /\ CacheTyped' /\ IssuerTyped' /\ TablesTyped'
  <2>1. SessionsSound'
    BY <1>1, <1>3, HandlerTypes
  <2>2. session[h].document \subseteq Keys /\ (session[h].request # None => session[h].request.user \in Users)
    BY <1>1, RequestsAssumption DEF SessionsSound, Sound, Sessions
  <2>3. CacheTyped'
    <3>1. CASE Store(h)
      BY <1>1, <2>2, <3>1, TimeFacts DEF Store, cache
    <3>2. CASE UNCHANGED cache
      BY <1>1, <3>2 DEF cache
    <3>. QED  BY <1>3, <3>1, <3>2 DEF Receive, Fetch, FetchFails, DatabaseFails, Work, TimeOut,
                Find, Authorize, UpsertMe, ListMemberships, EndSession
  <2>4. IssuerTyped'
    <3>1. UNCHANGED issuer
      BY <1>3 DEF Receive, Fetch, FetchFails, DatabaseFails, Work, TimeOut, Store,
                Find, Authorize, UpsertMe, ListMemberships, EndSession
    <3>. QED  BY <1>1, <3>1 DEF issuer
  <2>5. TablesTyped'
    <3>1. CASE ListMemberships(h)
      <4>1. session[h].request # None
        BY <1>1, <3>1 DEF SessionsSound, Sound, ListMemberships
      <4>. QED  BY <1>1, <2>2, <3>1, <4>1 DEF ListMemberships
    <3>2. CASE UNCHANGED tables
      BY <1>1, <3>2 DEF tables
    <3>. QED  BY <1>3, <3>1, <3>2 DEF Receive, Fetch, FetchFails, DatabaseFails, Work, TimeOut,
                Store, Find, Authorize, UpsertMe, EndSession
  <2>. QED  BY <2>1, <2>3, <2>4, <2>5
<1>4. ASSUME NEW u \in Users, NEW o \in Organizations, NEW membership \in Changes,
             ChangeMembership(u, o, membership)
      PROVE  SessionsSound' /\ CacheTyped' /\ IssuerTyped' /\ TablesTyped'
  BY <1>1, <1>4, MembershipTypes DEF ChangeMembership, cache, issuer
<1>5. ASSUME NEW k \in Keys, Publish(k) \/ Withdraw(k)
      PROVE  SessionsSound' /\ CacheTyped' /\ IssuerTyped' /\ TablesTyped'
  BY <1>1, <1>5, TimeFacts DEF Publish, Withdraw, cache, tables, SessionsSound, Sound
<1>6. CASE Restart
  <2>1. SessionsSound'
    BY <1>6, IdleType DEF Restart, SessionsSound, Sound, Idle
  <2>. QED  BY <1>1, <1>6, <2>1, TimeFacts DEF Restart, issuer, tables
<1>7. CASE Tick
  <2>1. SessionsSound'
    BY <1>1, <1>7, TickTypes
  <2>2. IssuerTyped' /\ CacheTyped'
    BY <1>1, <1>7, TimeFacts DEF Tick
  <2>. QED  BY <1>1, <1>7, <2>1, <2>2 DEF Tick, tables
<1>8. CASE UNCHANGED vars
  BY <1>1, <1>8 DEF vars, cache, issuer, tables, SessionsSound, Sound
<1>. QED  BY <1>3, <1>4, <1>5, <1>6, <1>7, <1>8 DEF Next

LEMMA TypeInit == Init => TypeOK
  BY TimeFacts, IdleType DEF Init, TypeOK, Idle

\* Sessions, cache and tables keep their types; a cache in use is never empty.
THEOREM TypeCorrect == Spec => []TypeOK
  BY TypeInit, TypeNext, PTL DEF Spec

-----------------------------------------------------------------------------
(* The age of keys *)

\* The ages of an invariant state are numbers within their bounds.
LEMMA Numbers ==
    ASSUME TypeOK
    PROVE  /\ left \in Nat /\ left <= TTL
           /\ \A k \in Keys : age[k] \in Nat /\ age[k] <= Horizon
           /\ \A h \in Handlers : session[h].left \in Nat /\ session[h].left <= Timeout
           /\ \A h \in Handlers : session[h].document \subseteq Keys
  BY TimeFacts DEF TypeOK, Sessions

\* A handler other than Store's leaves issuer and cache alone; the documents it
\* fetches are the published keys, and it looks up again only what it has stored.
LEMMA HandlerTimes ==
    ASSUME TypeOK, KeyTimes, NEW h \in Handlers,
           \/ \E r \in Requests : Receive(h, r)
           \/ Fetch(h) \/ FetchFails(h) \/ DatabaseFails(h) \/ Work(h)
    PROVE  KeyTimes'
<1>1. SessionsSound
  BY DEF TypeOK, SessionsSound, Sound
<1>2. /\ session \in [Handlers -> Sessions] /\ session' \in [Handlers -> Sessions]
      /\ \A g \in Handlers \ {h} : session'[g] = session[g]
  BY <1>1, HandlerTypes DEF SessionsSound
<1>3. UNCHANGED <<stage, age>>
  BY DEF issuer, Receive, Fetch, FetchFails, DatabaseFails, Work, TimeOut, Store, Find,
         Authorize, UpsertMe, ListMemberships, EndSession
<1>4. ASSUME UNCHANGED <<keys, left>>,
             session'[h].phase = "store" => Covers(session'[h].document, Timeout - session'[h].left),
             session'[h].phase = "find" => left > 0
      PROVE  KeyTimes'
  BY <1>2, <1>3, <1>4 DEF KeyTimes, Covers
<1>5. CASE Fetch(h)
  <2>1. session'[h].phase = "store" /\ session'[h].document = Published
        /\ session'[h].left = session[h].left /\ UNCHANGED <<keys, left>>
    BY <1>2, <1>5 DEF Fetch, cache, Sessions
  <2>2. Covers(Published, Timeout - session[h].left)
    BY DEF Covers, CoversAt, Published
  <2>. QED  BY <1>4, <2>1, <2>2
<1>6. CASE Store(h) /\ session[h].document # {}
  <2>1. /\ keys' = session[h].document /\ left' = TTL
        /\ session'[h].phase = "find"
    BY <1>2, <1>6 DEF Store, Fetched, Sessions
  <2>2. Covers(session[h].document, Timeout - session[h].left)
    BY <1>6 DEF KeyTimes, Store
  <2>3. /\ session[h].document \subseteq Keys
        /\ session[h].left \in Nat /\ Timeout - session[h].left <= Horizon - TTL
    BY Numbers, TimeFacts
  <2>4. ASSUME NEW k \in Keys
        PROVE  age[k] <= Timeout - session[h].left => age[k] <= Horizon - TTL
    BY <2>3, Numbers, TimeFacts
  <2>5. Covers(session[h].document, Horizon - TTL)
    BY <2>2, <2>3, <2>4 DEF Covers, CoversAt
  <2>. QED  BY <1>2, <1>3, <2>1, <2>5, TimeFacts DEF KeyTimes, Covers
<1>7. ASSUME UNCHANGED <<keys, left>>, session'[h].phase \notin {"store", "find"}
      PROVE  KeyTimes'
  BY <1>4, <1>7
<1>8. ASSUME NEW r \in Requests, Receive(h, r)
      PROVE  KeyTimes'
  <2>. DEFINE i == [Idle EXCEPT !.request = r]
  <2>1. \/ session'[h] = Verified(i)
        \/ session'[h].phase \in {"answered", "fetch"}
    BY <1>2, <1>8 DEF Receive, Idle
  <2>2. Verified(i).phase \in {"authorize", "upsert"}
    BY DEF Verified, Idle
  <2>3. session'[h].phase \in {"answered", "authorize", "upsert", "fetch"}
    BY <2>1, <2>2
  <2>. QED  BY <1>7, <1>8, <2>3 DEF Receive, cache
<1>9. CASE FetchFails(h) \/ TimeOut(h) \/ (Store(h) /\ session[h].document = {})
  <2>1. session'[h].phase = "answered" /\ UNCHANGED <<keys, left>>
    BY <1>2, <1>9 DEF FetchFails, TimeOut, Store, Fetched, Sessions, cache
  <2>. QED  BY <1>7, <2>1
<1>10. CASE Find(h) \/ DatabaseFails(h) \/ Authorize(h)
  <2>1. Verified(session[h]).phase \in {"authorize", "upsert"}
    BY <1>2 DEF Verified, Sessions
  <2>2. session'[h] = Verified(session[h]) \/ session'[h].phase = "answered"
    BY <1>2, <1>10 DEF Find, DatabaseFails, Authorize, Answer, Sessions
  <2>3. UNCHANGED <<keys, left>>
    BY <1>10 DEF Find, DatabaseFails, Authorize, cache
  <2>4. session'[h].phase \notin {"store", "find"}
    BY <2>1, <2>2
  <2>. QED  BY <1>7, <2>3, <2>4
<1>11. CASE UpsertMe(h) \/ ListMemberships(h) \/ EndSession(h)
  <2>1. session'[h].phase \in {"list", "answered", "idle"} /\ UNCHANGED <<keys, left>>
    BY <1>2, <1>11 DEF UpsertMe, Goto, ListMemberships, EndSession, Idle, Sessions, cache
  <2>. QED  BY <1>7, <2>1
<1>. QED  BY <1>5, <1>6, <1>8, <1>9, <1>10, <1>11 DEF Work

\* Time takes from what is left what it adds to the ages.
LEMMA TickTimes ==
    ASSUME TypeOK, KeyTimes, Tick
    PROVE  KeyTimes'
<1>1. /\ stage' = stage
      /\ \A k \in Keys : stage[k] # "new" /\ age[k] < Horizon => age'[k] = age[k] + 1
      /\ \A k \in Keys : age'[k] \in Nat /\ age'[k] <= age[k] + 1
  BY Numbers, TimeFacts DEF Tick
<1>2. keys' = keys /\ (left' > 0 => left > 0 /\ left' = left - 1)
  BY Numbers DEF Tick
<1>3. keys \subseteq Keys
  BY DEF TypeOK
<1>4. ASSUME NEW set \in SUBSET Keys, NEW lag \in Nat, NEW later \in Nat, later = lag + 1,
             lag < Horizon, Covers(set, lag)
      PROVE  CoversAt(stage', age', set, later)
  <2>1. ASSUME NEW k \in Keys, age[k] <= lag
        PROVE  age'[k] <= later
    BY <1>1, <1>4, <2>1, Numbers
  <2>. QED  BY <1>1, <1>4, <2>1 DEF Covers, CoversAt
<1>5. ASSUME left' > 0 PROVE CoversAt(stage', age', keys', Horizon - left')
  <2>1. left > 0 /\ left' = left - 1 /\ left' \in Nat
    BY <1>2, <1>5, Numbers
  <2>2. /\ Horizon - left \in Nat /\ Horizon - left' \in Nat
        /\ Horizon - left' = (Horizon - left) + 1 /\ Horizon - left < Horizon
    BY <2>1, Numbers, TimeFacts
  <2>3. Covers(keys, Horizon - left)
    BY <2>1 DEF KeyTimes
  <2>. QED  BY <1>2, <1>3, <1>4, <2>2, <2>3
<1>6. ASSUME NEW h \in Handlers, session'[h].phase = "store"
      PROVE  CoversAt(stage', age', session'[h].document, Timeout - session'[h].left)
  <2>1. /\ session[h] \in Sessions
        /\ session'[h] = IF session[h].phase \in {"fetch", "store"}
                          THEN [session[h] EXCEPT !.left = @ - 1] ELSE session[h]
    BY DEF Tick, TypeOK
  <2>2. /\ session[h].phase = "store" /\ session[h].left > 0
        /\ session'[h].left = session[h].left - 1
        /\ session'[h].document = session[h].document
    BY <1>6, <2>1 DEF Tick, Sessions
  <2>3. /\ Timeout - session[h].left \in Nat /\ Timeout - session'[h].left \in Nat
        /\ Timeout - session'[h].left = (Timeout - session[h].left) + 1
        /\ Timeout - session[h].left < Horizon
    BY <2>2, Numbers, TimeFacts
  <2>4. Covers(session[h].document, Timeout - session[h].left)
    BY <2>2 DEF KeyTimes
  <2>. QED  BY <1>4, <2>2, <2>3, <2>4, Numbers
<1>7. ASSUME NEW h \in Handlers
      PROVE  session'[h].phase # "find"
  BY DEF Tick, TypeOK, Sessions
<1>. QED  BY <1>5, <1>6, <1>7 DEF KeyTimes, Covers

LEMMA InvariantNext == AccessInvariant /\ [Next]_vars => AccessInvariant'
<1>. SUFFICES ASSUME TypeOK, KeyTimes, [Next]_vars PROVE KeyTimes'
  BY TypeNext DEF AccessInvariant
<1>1. SessionsSound
  BY DEF TypeOK, SessionsSound, Sound
<1>2. ASSUME NEW u \in Users, NEW o \in Organizations, NEW membership \in Changes,
             ChangeMembership(u, o, membership)
      PROVE  KeyTimes'
  <2>1. UNCHANGED <<stage, age, keys, left>>
    BY <1>2 DEF ChangeMembership, issuer, cache
  <2>2. \A h \in Handlers : /\ session'[h].phase = session[h].phase
                            /\ session'[h].left = session[h].left
                            /\ session'[h].document = session[h].document
    BY <1>1, <1>2, MembershipTypes
  <2>. QED  BY <2>1, <2>2 DEF KeyTimes, Covers
\* A key that is new or withdrawn now has had that stage for no time at all.
<1>3. ASSUME NEW k \in Keys, Publish(k) \/ Withdraw(k)
      PROVE  KeyTimes'
  <2>1. UNCHANGED <<keys, left, session>>
    BY <1>3 DEF Publish, Withdraw, cache
  <2>2. /\ stage \in [Keys -> {"new", "published", "withdrawn"}]
        /\ age \in [Keys -> 0 .. Horizon]
        /\ age'[k] = 0
        /\ \/ stage[k] = "new" /\ stage'[k] = "published"
           \/ stage[k] = "published" /\ stage'[k] = "withdrawn"
        /\ \A j \in Keys \ {k} : stage'[j] = stage[j] /\ age'[j] = age[j]
    BY <1>3 DEF TypeOK, Publish, Withdraw
  <2>3. ASSUME NEW set \in SUBSET Keys, NEW lag \in Nat, Covers(set, lag)
        PROVE  CoversAt(stage', age', set, lag)
    BY <2>2, <2>3 DEF Covers, CoversAt
  <2>4. keys \subseteq Keys /\ (left > 0 => Horizon - left \in Nat)
    BY Numbers, TimeFacts DEF TypeOK
  <2>5. ASSUME NEW h \in Handlers
        PROVE  session[h].document \subseteq Keys /\ Timeout - session[h].left \in Nat
    BY Numbers, TimeFacts
  <2>. QED  BY <2>1, <2>3, <2>4, <2>5 DEF KeyTimes, Covers
<1>4. CASE Restart
  <2>1. left' = 0 /\ \A h \in Handlers : session'[h].phase = "idle"
    BY <1>4 DEF Restart, Idle
  <2>. QED  BY <2>1 DEF KeyTimes
<1>5. CASE UNCHANGED vars
  BY <1>5 DEF vars, issuer, cache, KeyTimes, Covers
<1>. QED  BY <1>2, <1>3, <1>4, <1>5, HandlerTimes, TickTimes DEF Next

LEMMA InvariantInit == Init => AccessInvariant
  BY TypeInit DEF AccessInvariant, Init, KeyTimes, Idle

THEOREM AccessInvariantHolds == Spec => []AccessInvariant
  BY InvariantInit, InvariantNext, PTL DEF Spec

\* A look-up is a step of Receive or Find, in a cache that is in use, and it tells
\* the keys in it from the others.
LEMMA LookUps ==
    ASSUME AccessInvariant, [Next]_vars, NEW h \in Handlers, NEW label, LooksUp(h, label)
    PROVE  LET k == session'[h].request.key IN
           /\ label \in {"authorize", "upsert"} => left > 0 /\ k \in keys
           /\ label = "answered" => left > 0 /\ k \in Keys \ keys
<1>. DEFINE k == session'[h].request.key
<1>1. TypeOK /\ KeyTimes
  BY DEF AccessInvariant
<1>2. SessionsSound
  BY <1>1 DEF TypeOK, SessionsSound, Sound
<1>3. session[h].phase \in {"idle", "find"} /\ session'[h].phase = label
      /\ session'[h].request.token = "valid"
  BY DEF LooksUp
<1>4. SUFFICES ASSUME label \in {"authorize", "upsert", "answered"}
      PROVE  /\ left > 0
             /\ label \in {"authorize", "upsert"} => k \in keys
             /\ label = "answered" => k \in Keys \ keys
  OBVIOUS
<1>5. ASSUME NEW r \in Requests, Receive(h, r)
      PROVE  /\ left > 0
             /\ label \in {"authorize", "upsert"} => k \in keys
             /\ label = "answered" => k \in Keys \ keys
  <2>. DEFINE i == [Idle EXCEPT !.request = r]
  <2>1. r.key \in Keys
    BY RequestsAssumption
  <2>2. /\ Verified(i).request = r /\ Verified(i).phase \in {"authorize", "upsert"}
        /\ i.request = r
    BY DEF Verified, Idle
  <2>3. \/ r.token # "valid" /\ session'[h].request = r
        \/ Fresh /\ r.key \in keys /\ session'[h] = Verified(i)
        \/ Fresh /\ r.key \notin keys /\ session'[h].request = r /\ session'[h].phase = "answered"
        \/ session'[h].phase = "fetch"
    BY <1>1, <1>5 DEF Receive, Idle, TypeOK
  <2>. QED  BY <1>3, <1>4, <2>1, <2>2, <2>3 DEF Fresh
<1>6. CASE Find(h)
  <2>1. session[h].phase = "find" /\ session[h].request \in Requests /\ session[h] \in Sessions
    BY <1>2, <1>6 DEF Find, SessionsSound, Sound, Sessions
  <2>2. left > 0 /\ session[h].request.key \in Keys
    BY <1>1, <2>1, RequestsAssumption DEF KeyTimes
  <2>3. Verified(session[h]).request = session[h].request
        /\ Verified(session[h]).phase \in {"authorize", "upsert"}
    BY <2>1, VerifiedType
  <2>4. \/ session[h].request.key \in keys /\ session'[h] = Verified(session[h])
        \/ /\ session[h].request.key \notin keys \/ session[h].request.token # "valid"
           /\ session'[h].phase = "answered" /\ session'[h].request = session[h].request
    BY <1>2, <1>6, <2>1 DEF Find, Answer, SessionsSound, Sessions
  <2>. QED  BY <1>4, <1>3, <2>2, <2>3, <2>4
\* No other step takes h from where it is to label.
<1>7. CASE session'[h].phase = session[h].phase \/ session'[h].phase = "idle"
  BY <1>3, <1>4, <1>7
<1>8. ASSUME Fetch(h) \/ FetchFails(h) \/ DatabaseFails(h) \/ TimeOut(h) \/ Store(h)
             \/ Authorize(h) \/ UpsertMe(h) \/ ListMemberships(h) \/ EndSession(h)
      PROVE  FALSE
  BY <1>3, <1>8 DEF Fetch, FetchFails, DatabaseFails, TimeOut, Store, Authorize, UpsertMe,
                    ListMemberships, EndSession
<1>9. ASSUME NEW g \in Handlers \ {h},
             \/ \E r \in Requests : Receive(g, r)
             \/ Fetch(g) \/ FetchFails(g) \/ DatabaseFails(g) \/ Work(g)
      PROVE  session'[h] = session[h]
  BY <1>2, <1>9, HandlerTypes
<1>10. ASSUME NEW u \in Users, NEW o \in Organizations, NEW membership \in Changes,
              ChangeMembership(u, o, membership)
       PROVE  session'[h].phase = session[h].phase
  BY <1>2, <1>10, MembershipTypes
<1>11. ASSUME \/ \E j \in Keys : Publish(j) \/ Withdraw(j)
              \/ Restart \/ UNCHANGED vars
       PROVE  session'[h].phase = session[h].phase \/ session'[h].phase = "idle"
  BY <1>11 DEF Publish, Withdraw, Restart, vars, Idle
<1>12. ASSUME Tick
       PROVE  session'[h].phase = session[h].phase
  BY <1>1, <1>12 DEF Tick, TypeOK, Sessions
<1>. QED  BY <1>5, <1>6, <1>7, <1>8, <1>9, <1>10, <1>11, <1>12 DEF Next, Work

\* What the invariant says of a look-up that finds a key, and of one that does not.
LEMMA LookUpTimes ==
    ASSUME AccessInvariant, left > 0, NEW k \in Keys
    PROVE  /\ k \in keys => stage[k] = "published" \/ (stage[k] = "withdrawn" /\ age[k] < Horizon)
           /\ k \notin keys => stage[k] # "published" \/ age[k] < Horizon
<1>1. Covers(keys, Horizon - left) /\ TypeOK
  BY DEF AccessInvariant, KeyTimes
<1>2. stage[k] \in {"new", "published", "withdrawn"}
  BY <1>1 DEF TypeOK
<1>3. age[k] <= Horizon - left => age[k] < Horizon
  BY <1>1, Numbers, TimeFacts
<1>. QED  BY <1>1, <1>2, <1>3 DEF Covers, CoversAt

\* A withdrawn key verifies tokens for no longer than a fetch and the use of its
\* result may take, with any number of handlers that fetch at a time.
THEOREM WithdrawnKeysAlwaysFade == Spec => WithdrawnKeysFade
<1>1. AccessInvariant /\ [Next]_vars =>
        [\A h \in Handlers :
            LooksUp(h, "authorize") \/ LooksUp(h, "upsert") =>
                LET k == session'[h].request.key IN
                \/ stage[k] = "published"
                \/ stage[k] = "withdrawn" /\ age[k] < Horizon]_vars
  <2>1. AccessInvariant => keys \subseteq Keys
    BY DEF AccessInvariant, TypeOK
  <2>. QED  BY <2>1, LookUps, LookUpTimes
<1>. QED  BY <1>1, AccessInvariantHolds, PTL DEF Spec, WithdrawnKeysFade

\* A key that has been published for that long is known to every look-up.
THEOREM PublishedKeysAlwaysCount == Spec => PublishedKeysCount
<1>1. AccessInvariant /\ [Next]_vars =>
        [\A h \in Handlers :
            LooksUp(h, "answered") =>
                LET k == session'[h].request.key IN
                stage[k] # "published" \/ age[k] < Horizon]_vars
  BY LookUps, LookUpTimes
<1>. QED  BY <1>1, AccessInvariantHolds, PTL DEF Spec, PublishedKeysCount

-----------------------------------------------------------------------------
(* Memberships *)

\* With the given memberships: what a request may see now is among what it has
\* seen since its token was verified, only the current user is not authorized, and
\* an answer is justified by something that was seen.
Justified(s, table) ==
    /\ s.phase \in {"authorize", "upsert", "list"} => Standing(s.request, table) \in s.seen
    /\ s.phase = "authorize" => s.request.op # "me"
    /\ s.phase \in {"upsert", "list"} => s.request.op = "me"
    /\ s.phase # "answered" => s.answer = None
    /\ (s.answer = "2xx" /\ s.request.op # "me") => \E standing \in s.seen : standing # {}
    /\ (s.answer = "2xx" /\ s.request.op = "me") => s.rows \in s.seen
    /\ s.answer = "403" => {} \in s.seen

MembersAreUsers ==
    \A u \in Users, o \in Organizations : members[<<u, o>>] # None => u \in users

MembershipInvariant ==
    /\ TypeOK
    /\ MembersAreUsers
    /\ \A h \in Handlers : Justified(session[h], members)

\* The queries find what the request's user is an active member of.
LEMMA QueriesFindStanding ==
    ASSUME TypeOK, MembersAreUsers, NEW r \in Requests
    PROVE  Memberships(r) = Standing(r, members)
<1>1. r.user \in Users
  BY RequestsAssumption
<1>2. ASSUME NEW o \in Organizations
      PROVE  (members[<<r.user, o>>] # None /\ members[<<r.user, o>>].status = "ACTIVE")
               <=> members[<<r.user, o>>] \in [role : Roles, status : {"ACTIVE"}]
  <2>. DEFINE m == members[<<r.user, o>>]
  <2>1. m \in Changes \union {None}
    BY <1>1, <1>2 DEF TypeOK
  <2>2. m = None => m \notin [role : Roles, status : {"ACTIVE"}]
    BY RequestsAssumption DEF Statuses
  <2>3. m \in Changes => (m.status = "ACTIVE" <=> m \in [role : Roles, status : {"ACTIVE"}])
    BY RequestsAssumption DEF Statuses
  <2>4. m \in Changes => m # None
    BY RequestsAssumption
  <2>. QED  BY <2>1, <2>2, <2>3, <2>4
<1>3. ASSUME NEW o \in Organizations
      PROVE  members[<<r.user, o>>] # None => r.user \in users
  BY <1>1, <1>3 DEF MembersAreUsers
<1>. QED  BY <1>2, <1>3 DEF Memberships, Standing

LEMMA VerifiedIsJustified ==
    ASSUME NEW s \in Sessions, s.request \in Requests, s.answer = None
    PROVE  Justified(Verified(s), members)
<1>. DEFINE next == IF s.request.op = "me" THEN "upsert" ELSE "authorize"
            now  == {Standing(s.request, members)}
            v    == [s EXCEPT !.phase = next, !.seen = now]
<1>1. /\ v.phase = next /\ v.seen = now /\ v.request = s.request /\ v.answer = None
  BY DEF Sessions
<1>2. Verified(s) = v
  BY DEF Verified
<1>3. None \notin {"2xx", "403"}
  BY RequestsAssumption DEF Answers
<1>4. Justified(v, members)
  BY <1>1, <1>3 DEF Justified
<1>. QED  BY <1>2, <1>4

\* The handler that acts is justified afterwards, the others are what they were.
LEMMA HandlerJustified ==
    ASSUME MembershipInvariant, NEW h \in Handlers,
           \/ \E r \in Requests : Receive(h, r)
           \/ Fetch(h) \/ FetchFails(h) \/ DatabaseFails(h) \/ Work(h)
    PROVE  MembersAreUsers' /\ \A g \in Handlers : Justified(session'[g], members')
<1>. DEFINE s == session[h]
<1>1. TypeOK /\ MembersAreUsers /\ SessionsSound /\ Justified(s, members)
  BY DEF MembershipInvariant, TypeOK, SessionsSound, Sound
<1>2. /\ s \in Sessions /\ session \in [Handlers -> Sessions]
      /\ s.request = None <=> s.phase = "idle"
  BY <1>1 DEF SessionsSound, Sound
<1>3. None \notin Requests /\ None \notin Answers
  BY RequestsAssumption
<1>4. members' = members /\ users \subseteq users'
  BY DEF tables, Receive, Fetch, FetchFails, DatabaseFails, Work, TimeOut, Store, Find,
         Authorize, UpsertMe, ListMemberships, EndSession
<1>5. MembersAreUsers'
  BY <1>1, <1>4 DEF MembersAreUsers
<1>6. SUFFICES Justified(session'[h], members)
  BY <1>1, <1>4, <1>5, HandlerTypes DEF MembershipInvariant
<1>7. ASSUME NEW t, t.phase \notin {"authorize", "upsert", "list"},
             t.answer \notin {"2xx", "403"}, t.phase # "answered" => t.answer = None
      PROVE  Justified(t, members)
  BY <1>7 DEF Justified
<1>8. ASSUME NEW r \in Requests, Receive(h, r)
      PROVE  Justified(session'[h], members)
  <2>. DEFINE i == [Idle EXCEPT !.request = r]
  <2>1. i \in Sessions /\ i.request = r /\ i.answer = None
    BY IdleType DEF Idle, Sessions
  <2>2. Justified(Verified(i), members)
    BY <2>1, VerifiedIsJustified
  <2>3. \/ session'[h] = Verified(i)
        \/ session'[h].phase = "answered" /\ session'[h].answer \in {"401", "none"}
        \/ session'[h].phase = "fetch" /\ session'[h].answer = None
    BY <1>2, <1>8 DEF Receive, Idle
  <2>. QED  BY <1>3, <1>7, <2>2, <2>3 DEF Answers
<1>9. CASE Fetch(h)
  <2>1. s.phase = "fetch" /\ session'[h].phase = "store" /\ session'[h].answer = s.answer
    BY <1>2, <1>9 DEF Fetch, Sessions
  <2>2. s.answer = None
    BY <1>1, <2>1 DEF Justified
  <2>. QED  BY <1>3, <1>7, <2>1, <2>2 DEF Answers
<1>10. CASE FetchFails(h) \/ TimeOut(h) \/ Store(h)
  <2>1. \/ session'[h].phase = "answered" /\ session'[h].answer = "401"
        \/ session'[h].phase = "find" /\ session'[h].answer = None
    BY <1>2, <1>10 DEF FetchFails, TimeOut, Store, Fetched, Sessions
  <2>. QED  BY <1>3, <1>7, <2>1 DEF Answers
<1>11. CASE Find(h)
  <2>1. s.phase = "find" /\ s.request \in Requests /\ s.answer = None
    BY <1>1, <1>2, <1>11 DEF Find, Sessions, Justified
  <2>2. Justified(Verified(s), members)
    BY <1>2, <2>1, VerifiedIsJustified
  <2>3. \/ session'[h] = Verified(s)
        \/ session'[h].phase = "answered" /\ session'[h].answer = "401"
    BY <1>2, <1>11 DEF Find, Answer, Sessions
  <2>. QED  BY <1>7, <2>2, <2>3
<1>12. CASE Authorize(h)
  <2>1. s.phase = "authorize" /\ s.request \in Requests
    BY <1>2, <1>12 DEF Authorize, Sessions
  <2>2. s.request.op # "me" /\ Standing(s.request, members) \in s.seen
    BY <1>1, <2>1 DEF Justified
  <2>3. Memberships(s.request) = Standing(s.request, members)
    BY <1>1, <2>1, QueriesFindStanding
  <2>4. /\ session'[h].phase = "answered" /\ session'[h].seen = s.seen
        /\ session'[h].request = s.request
        /\ session'[h].answer = IF Memberships(s.request) = {} THEN "403" ELSE "2xx"
    BY <1>2, <1>12 DEF Authorize, Sessions
  <2>. QED  BY <2>2, <2>3, <2>4 DEF Justified
<1>13. CASE DatabaseFails(h)
  <2>1. session'[h].phase = "answered" /\ session'[h].answer = "500"
    BY <1>2, <1>13 DEF DatabaseFails, Answer, Sessions
  <2>. QED  BY <1>7, <2>1
<1>14. CASE UpsertMe(h)
  <2>1. /\ s.phase = "upsert" /\ session'[h].phase = "list" /\ session'[h].seen = s.seen
        /\ session'[h].request = s.request /\ session'[h].answer = s.answer
    BY <1>2, <1>14 DEF UpsertMe, Goto, Sessions
  <2>. QED  BY <1>1, <1>3, <2>1 DEF Justified, Answers
<1>15. CASE ListMemberships(h)
  <2>1. s.phase = "list" /\ s.request \in Requests
    BY <1>2, <1>15 DEF ListMemberships, Sessions
  <2>2. s.request.op = "me" /\ Memberships(s.request) \in s.seen
    BY <1>1, <2>1, QueriesFindStanding DEF Justified
  <2>3. /\ session'[h].phase = "answered" /\ session'[h].answer = "2xx"
        /\ session'[h].rows = Memberships(s.request)
        /\ session'[h].seen = s.seen /\ session'[h].request = s.request
    BY <1>2, <1>15 DEF ListMemberships, Sessions
  <2>. QED  BY <2>2, <2>3 DEF Justified
<1>16. CASE EndSession(h)
  <2>1. session'[h].phase = "idle" /\ session'[h].answer = None
    BY <1>2, <1>16 DEF EndSession, Idle
  <2>. QED  BY <1>3, <1>7, <2>1 DEF Answers
<1>. QED  BY <1>8, <1>9, <1>10, <1>11, <1>12, <1>13, <1>14, <1>15, <1>16 DEF Work

\* A change of the memberships is seen by every request whose token was verified.
LEMMA ChangeJustified ==
    ASSUME MembershipInvariant, NEW u \in Users, NEW o \in Organizations,
           NEW membership \in Changes, ChangeMembership(u, o, membership)
    PROVE  MembersAreUsers' /\ \A h \in Handlers : Justified(session'[h], members')
<1>1. TypeOK /\ MembersAreUsers
  BY DEF MembershipInvariant
<1>2. u \in users /\ users' = users /\ members' = [members EXCEPT ![<<u, o>>] = membership]
  BY DEF ChangeMembership
<1>3. MembersAreUsers'
  <2>1. ASSUME NEW v \in Users, NEW p \in Organizations, members'[<<v, p>>] # None
        PROVE  v \in users
    <3>1. CASE <<v, p>> = <<u, o>>
      BY <1>2, <3>1
    <3>2. CASE <<v, p>> # <<u, o>>
      <4>1. members'[<<v, p>>] = members[<<v, p>>]
        BY <1>1, <1>2, <3>2 DEF TypeOK
      <4>. QED  BY <1>1, <2>1, <4>1 DEF MembersAreUsers
    <3>. QED  BY <3>1, <3>2
  <2>. QED  BY <1>2, <2>1 DEF MembersAreUsers
<1>4. ASSUME NEW h \in Handlers
      PROVE  Justified(session'[h], members')
  <2>. DEFINE s   == session[h]
              now == Standing(s.request, members')
              t   == [s EXCEPT !.seen = @ \union {now}]
  <2>1. s \in Sessions /\ Justified(s, members)
    BY <1>1 DEF MembershipInvariant, TypeOK
  <2>2. session'[h] = IF s.seen = {} THEN s ELSE t
    BY DEF ChangeMembership
  <2>3. CASE s.seen = {}
    <3>1. s.phase \notin {"authorize", "upsert", "list"}
      BY <2>1, <2>3 DEF Justified
    <3>. QED  BY <2>1, <2>2, <2>3, <3>1 DEF Justified
  <2>4. CASE s.seen # {}
    <3>1. /\ t.phase = s.phase /\ t.request = s.request /\ t.answer = s.answer
          /\ t.rows = s.rows /\ t.seen = s.seen \union {now}
      BY <2>1 DEF Sessions
    <3>2. session'[h] = t
      BY <2>2, <2>4
    <3>. HIDE DEF now, t
    <3>3. now = Standing(t.request, members')
      BY <3>1 DEF now
    <3>. QED  BY <2>1, <3>1, <3>2, <3>3 DEF Justified
  <2>. QED  BY <2>3, <2>4
<1>. QED  BY <1>3, <1>4

LEMMA MembershipNext == MembershipInvariant /\ [Next]_vars => MembershipInvariant'
<1>. SUFFICES ASSUME MembershipInvariant, [Next]_vars
     PROVE  MembersAreUsers' /\ \A h \in Handlers : Justified(session[h], members)'
  BY TypeNext DEF MembershipInvariant
<1>1. TypeOK /\ MembersAreUsers
  BY DEF MembershipInvariant
<1>2. None \notin {"2xx", "403"}
  BY RequestsAssumption DEF Answers
<1>3. ASSUME NEW h \in Handlers,
             \/ \E r \in Requests : Receive(h, r)
             \/ Fetch(h) \/ FetchFails(h) \/ DatabaseFails(h) \/ Work(h)
      PROVE  MembersAreUsers' /\ \A g \in Handlers : Justified(session'[g], members')
  BY <1>3, HandlerJustified
<1>4. ASSUME NEW k \in Keys, Publish(k) \/ Withdraw(k)
      PROVE  MembersAreUsers' /\ \A g \in Handlers : Justified(session'[g], members')
  BY <1>1, <1>4 DEF Publish, Withdraw, tables, MembersAreUsers, MembershipInvariant
<1>5. CASE Restart
  <2>1. UNCHANGED <<users, members>> /\ \A g \in Handlers : session'[g] = Idle
    BY <1>5 DEF Restart, tables
  <2>2. Justified(Idle, members)
    BY <1>2 DEF Justified, Idle
  <2>. QED  BY <1>1, <2>1, <2>2 DEF MembersAreUsers
<1>6. CASE Tick
  <2>1. UNCHANGED <<users, members>>
    BY <1>6 DEF Tick, tables
  <2>2. ASSUME NEW g \in Handlers
        PROVE  Justified(session'[g], members)
    <3>1. session[g] \in Sessions /\ Justified(session[g], members)
      BY <1>1 DEF TypeOK, MembershipInvariant
    <3>2. session'[g] \in {session[g], [session[g] EXCEPT !.left = @ - 1]}
      BY <1>6 DEF Tick
    <3>3. /\ session'[g].phase = session[g].phase /\ session'[g].request = session[g].request
          /\ session'[g].answer = session[g].answer /\ session'[g].rows = session[g].rows
          /\ session'[g].seen = session[g].seen
      BY <3>1, <3>2 DEF Sessions
    <3>. QED  BY <3>1, <3>3 DEF Justified
  <2>. QED  BY <1>1, <2>1, <2>2 DEF MembersAreUsers
<1>7. CASE UNCHANGED vars
  BY <1>1, <1>7 DEF vars, tables, MembersAreUsers, MembershipInvariant
<1>. QED  BY <1>3, <1>4, <1>5, <1>6, <1>7, ChangeJustified DEF Next

LEMMA MembershipInit == Init => MembershipInvariant
<1>. SUFFICES ASSUME Init PROVE MembershipInvariant
  OBVIOUS
<1>1. None \notin {"2xx", "403"}
  BY RequestsAssumption DEF Answers
<1>2. MembersAreUsers
  BY DEF Init, MembersAreUsers
<1>3. \A h \in Handlers : Justified(session[h], members)
  BY <1>1 DEF Init, Justified, Idle
<1>. QED  BY <1>2, <1>3, TypeInit DEF MembershipInvariant

\* However the memberships change while requests are served, each answer is one that
\* they justified at some moment after the token was verified.
THEOREM AnswersAlwaysFollowMemberships == Spec => []AnswersFollowMemberships
<1>1. MembershipInvariant => AnswersFollowMemberships
  BY DEF MembershipInvariant, Justified, AnswersFollowMemberships
<1>. QED  BY <1>1, MembershipInit, MembershipNext, PTL DEF Spec

=============================================================================
