------------------------------- MODULE Access -------------------------------
(***************************************************************************)
(* Who is let in: the middleware that verifies tokens with the issuer's    *)
(* keys, which it caches (platform/auth/auth.go), the authorizer that asks *)
(* the memberships (authorization.go), and the current user whom           *)
(* identity-api provisions (identity/postgres_repository.go).              *)
(*                                                                         *)
(* Handlers are the goroutines of one process, which share the cache.  The *)
(* read-write lock of the cache is held for one assignment or one lookup   *)
(* at a time, so each of these is a step, and it is free while keys are    *)
(* fetched.  The issuer publishes and withdraws keys, and organizations    *)
(* change memberships, at any time.                                        *)
(*                                                                         *)
(* Time is what is left of the cache and of a fetch, and how long a key    *)
(* has been published or withdrawn; it goes by for all of them at once.    *)
(* What a handler does without waiting for issuer or database takes none.  *)
(***************************************************************************)
EXTENDS Naturals, FiniteSets

CONSTANTS
    Handlers,
    Keys,           \* key ids the issuer uses over time
    FirstKeys,      \* those it has published when the process starts
    Users,          \* Cognito subjects
    Organizations,
    Matches,
    Organizer,      \* the organization of each match
    Operations,     \* what is routed: "me", "create" and the match routes
    Permits,        \* the roles each operation is open to
    Changes,        \* the memberships that are given to users while the model runs
    Requests,
    TTL,            \* how long a cached set is used
    Timeout,        \* of the client that fetches it
    None

Roles == {"OWNER", "ADMIN", "ORGANIZER", "TEAM_MANAGER", "SCORER", "REFEREE", "PLAYER", "FAN"}

Statuses == {"INVITED", "ACTIVE", "SUSPENDED", "REMOVED"}

\* An absent token is one that is refused before a key is looked up for it: no
\* header, another signing method, no key ID.  A bad one has a wrong signature,
\* issuer, audience or subject, or has expired.
Tokens == {"absent", "bad", "valid"}

\* Classes of HTTP status; "none" is a connection that is closed.
Answers == {"2xx", "401", "403", "500", "none"}

ASSUME TimeAssumption ==
    TTL \in Nat \ {0} /\ Timeout \in Nat \ {0}

ASSUME RequestsAssumption ==
    /\ FirstKeys \subseteq Keys
    /\ Requests \subseteq [user : Users, token : Tokens, key : Keys, op : Operations,
                           target : Organizations \union Matches]
    /\ None \notin Requests /\ None \notin Answers
    /\ Changes \subseteq [role : Roles, status : Statuses]
    /\ None \notin [role : Roles, status : Statuses]
    /\ Permits \in [Operations -> SUBSET Roles]
    /\ Organizer \in [Matches -> Organizations]

VARIABLES
    stage,          \* of each key: "new", "published" or "withdrawn"
    age,            \* for how long, up to Horizon
    keys, left,     \* the cache of the verifier, and the time left of it
    users,          \* identity.users
    members,        \* identity.organization_memberships
    session         \* what each handler is doing

cache  == <<keys, left>>
tables == <<users, members>>
issuer == <<stage, age>>
vars   == <<issuer, cache, tables, session>>

\* Bound of the ages: what a fetch may take and a cached set is used.
Horizon == Timeout + TTL

Published == {k \in Keys : stage[k] = "published"}

Idle == [phase |-> "idle", request |-> None, left |-> 0, document |-> {},
         rows |-> {}, answer |-> None, seen |-> {}]

Init ==
    /\ stage = [k \in Keys |-> IF k \in FirstKeys THEN "published" ELSE "new"]
    /\ age = [k \in Keys |-> IF k \in FirstKeys THEN Horizon ELSE 0]
    /\ keys = {} /\ left = 0
    /\ users = {}
    /\ members = [p \in Users \X Organizations |-> None]
    /\ session = [h \in Handlers |-> Idle]

-----------------------------------------------------------------------------
(* Memberships *)

OrganizationOf(target) == IF target \in Matches THEN Organizer[target] ELSE target

\* Mutant of Memberships: whatever their status.
MembershipsAnyStatus(r) ==
    {o \in Organizations :
        /\ r.user \in users
        /\ members[<<r.user, o>>] # None
        /\ r.op # "me" => /\ o = OrganizationOf(r.target)
                          /\ members[<<r.user, o>>].role \in Permits[r.op]}

\* The rows a query finds: all ACTIVE ones of a user, or those that permit an
\* operation in the organization it is for.
Memberships(r) ==
    {o \in Organizations :
        /\ r.user \in users
        /\ members[<<r.user, o>>] # None
        /\ members[<<r.user, o>>].status = "ACTIVE"
        /\ r.op # "me" => /\ o = OrganizationOf(r.target)
                          /\ members[<<r.user, o>>].role \in Permits[r.op]}

\* Where r stands, for the properties: the organizations in which its user is an
\* active member, as far as they matter to r, with the given memberships.
Standing(r, table) ==
    {o \in Organizations :
        /\ table[<<r.user, o>>] \in [role : Roles, status : {"ACTIVE"}]
        /\ r.op = "me" \/ (o = OrganizationOf(r.target) /\ table[<<r.user, o>>].role \in Permits[r.op])}

\* An organization invites, admits, suspends or removes a user; nothing in the
\* repository does.  A membership refers to a user that exists.
ChangeMembership(u, o, membership) ==
    /\ u \in users
    /\ members' = [members EXCEPT ![<<u, o>>] = membership]
    /\ session' = [h \in Handlers |->
          IF session[h].seen = {} THEN session[h]
          ELSE [session[h] EXCEPT !.seen = @ \union {Standing(session[h].request, members')}]]
    /\ UNCHANGED <<issuer, cache, users>>

-----------------------------------------------------------------------------
(* The handlers *)

Goto(h, label) == session' = [session EXCEPT ![h].phase = label]

Answer(h, status) ==
    session' = [session EXCEPT ![h].phase = "answered", ![h].answer = status]

\* What s becomes when the signature is good, and the claims as well.
Verified(s) ==
    [s EXCEPT !.phase = IF s.request.op = "me" THEN "upsert" ELSE "authorize",
              !.seen = {Standing(s.request, members)}]

\* refresh is over.
Fetched(h, label, status) ==
    session' = [session EXCEPT ![h].phase = label, ![h].answer = status,
                               ![h].left = 0, ![h].document = {}]

\* Mutant of Fresh: keys once fetched are used for good.
FreshForEver == keys # {}

Fresh == left > 0

\* Middleware: a request comes in, with or without a token, whose key is looked
\* up under the read lock and decides on the token.  With a fresh cache an unknown key comes back as nil and
\* without an error; the verification dereferences it, and the server drops the
\* request without an answer.
Receive(h, r) ==
    LET s == [Idle EXCEPT !.request = r]
        Begin(next) == session' = [session EXCEPT ![h] = next]
    IN  /\ session[h].phase = "idle"
        /\ \/ /\ r.token = "absent"
              /\ Begin([s EXCEPT !.phase = "answered", !.answer = "401"])
           \/ /\ r.token = "bad" /\ Fresh /\ r.key \in keys
              /\ Begin([s EXCEPT !.phase = "answered", !.answer = "401"])
           \/ /\ r.token = "valid" /\ Fresh /\ r.key \in keys
              /\ Begin(Verified(s))
           \/ /\ r.token # "absent" /\ Fresh /\ r.key \notin keys
              /\ Begin([s EXCEPT !.phase = "answered", !.answer = "none"])
           \/ /\ r.token # "absent" /\ ~Fresh
              /\ Begin([s EXCEPT !.phase = "fetch", !.left = Timeout])
        /\ UNCHANGED <<issuer, cache, tables>>

\* The issuer sends its document.
Fetch(h) ==
    /\ session[h].phase = "fetch"
    /\ session' = [session EXCEPT ![h].phase = "store", ![h].document = Published]
    /\ UNCHANGED <<issuer, cache, tables>>

\* refresh fails: no answer, no 200, no document, none before the timeout.
FetchFails(h) ==
    /\ session[h].phase \in {"fetch", "store"}
    /\ Fetched(h, "answered", "401")
    /\ UNCHANGED <<issuer, cache, tables>>

\* Mutant of TimeOut: a client without a timeout.
TimeOutNever(h) == FALSE /\ FetchFails(h)

TimeOut(h) == session[h].left = 0 /\ FetchFails(h)

\* Mutant of Store: the keys of the document are added to the old ones.
StoreAdding(h) ==
    /\ session[h].phase = "store"
    /\ keys' = keys \union session[h].document
    /\ left' = TTL
    /\ Fetched(h, "find", None)
    /\ UNCHANGED <<issuer, tables>>

\* Mutant of Store: an empty set is kept like any other.
StoreEvenEmpty(h) ==
    /\ session[h].phase = "store"
    /\ keys' = session[h].document
    /\ left' = TTL
    /\ Fetched(h, "find", None)
    /\ UNCHANGED <<issuer, tables>>

\* The document has arrived; a set without keys is not kept.  Whoever stores last
\* wins, whatever the order of the documents.
Store(h) ==
    /\ session[h].phase = "store"
    /\ \/ /\ session[h].document = {}
          /\ Fetched(h, "answered", "401")
          /\ UNCHANGED cache
       \/ /\ session[h].document # {}
          /\ keys' = session[h].document
          /\ left' = TTL
          /\ Fetched(h, "find", None)
    /\ UNCHANGED <<issuer, tables>>

\* publicKey looks the key up again, in what the cache holds by now.
Find(h) ==
    LET r == session[h].request IN
    /\ session[h].phase = "find"
    /\ \/ r.key \in keys /\ r.token = "valid" /\ session' = [session EXCEPT ![h] = Verified(@)]
       \/ (r.key \notin keys \/ r.token = "bad") /\ Answer(h, "401")
    /\ UNCHANGED <<issuer, cache, tables>>

\* AuthorizeMatch or AuthorizeOrganization: one query.  The operation that follows
\* is described by other modules.
Authorize(h) ==
    LET found == Memberships(session[h].request) IN
    /\ session[h].phase = "authorize"
    /\ session' = [session EXCEPT
          ![h].phase  = "answered",
          ![h].answer = IF found = {} THEN "403" ELSE "2xx"]
    /\ UNCHANGED <<issuer, cache, tables>>

\* The users whose row an open transaction has written.
Upserting == {session[h].request.user :
                  h \in {g \in Handlers : session[g].phase = "list"}}

\* GetOrCreateMe: the upsert waits for an open one of the same subject.
UpsertMe(h) ==
    /\ session[h].phase = "upsert"
    /\ session[h].request.user \notin Upserting
    /\ Goto(h, "list")
    /\ UNCHANGED <<issuer, cache, tables>>

\* The memberships are read and the transaction ends; a user that is new has none.
ListMemberships(h) ==
    /\ session[h].phase = "list"
    /\ users' = users \union {session[h].request.user}
    /\ session' = [session EXCEPT ![h].phase = "answered", ![h].answer = "2xx",
                                  ![h].rows = Memberships(session[h].request)]
    /\ UNCHANGED <<issuer, cache, members>>

\* A query fails, and the transaction with it.
DatabaseFails(h) ==
    /\ session[h].phase \in {"authorize", "upsert", "list"}
    /\ Answer(h, "500")
    /\ UNCHANGED <<issuer, cache, tables>>

EndSession(h) ==
    /\ session[h].phase = "answered"
    /\ session' = [session EXCEPT ![h] = Idle]
    /\ UNCHANGED <<issuer, cache, tables>>

-----------------------------------------------------------------------------
(* The surroundings *)

\* The process starts anew: requests and cache are gone.
Restart ==
    /\ session' = [h \in Handlers |-> Idle]
    /\ keys' = {} /\ left' = 0
    /\ UNCHANGED <<issuer, tables>>

Publish(k) ==
    /\ stage[k] = "new"
    /\ stage' = [stage EXCEPT ![k] = "published"]
    /\ age' = [age EXCEPT ![k] = 0]
    /\ UNCHANGED <<cache, tables, session>>

Withdraw(k) ==
    /\ stage[k] = "published"
    /\ stage' = [stage EXCEPT ![k] = "withdrawn"]
    /\ age' = [age EXCEPT ![k] = 0]
    /\ UNCHANGED <<cache, tables, session>>

\* Time goes by: a fetch takes no more than the client's timeout.
Tick ==
    /\ \A h \in Handlers :
          /\ session[h].phase # "find"
          /\ session[h].phase \in {"fetch", "store"} => session[h].left > 0
    /\ age' = [k \in Keys |->
          IF stage[k] # "new" /\ age[k] < Horizon THEN age[k] + 1 ELSE age[k]]
    /\ left' = IF left > 0 THEN left - 1 ELSE left
    /\ session' = [h \in Handlers |->
          IF session[h].phase \in {"fetch", "store"}
          THEN [session[h] EXCEPT !.left = @ - 1] ELSE session[h]]
    /\ UNCHANGED <<stage, keys, tables>>

Work(h) ==
    \/ TimeOut(h) \/ Store(h) \/ Find(h)
    \/ Authorize(h) \/ UpsertMe(h) \/ ListMemberships(h)
    \/ EndSession(h)

Next ==
    \/ \E h \in Handlers :
          \/ \E r \in Requests : Receive(h, r)
          \/ Fetch(h) \/ FetchFails(h) \/ DatabaseFails(h)
          \/ Work(h)
    \/ \E u \in Users, o \in Organizations :
          \E membership \in Changes : ChangeMembership(u, o, membership)
    \/ \E k \in Keys : Publish(k) \/ Withdraw(k)
    \/ Restart
    \/ Tick

Spec == Init /\ [][Next]_vars

\* A handler goes on with what waits for nobody, queries return, and time goes by.
\* Those that wait for the row of a user queue for it, so that each has its turn.
\* Nothing makes the issuer answer.
Fairness ==
    /\ WF_vars(Tick)
    /\ \A h \in Handlers : SF_vars(Work(h))

FairSpec == Spec /\ Fairness

-----------------------------------------------------------------------------
(* Properties *)

Phases == {"idle", "fetch", "store", "find", "authorize", "upsert", "list", "answered"}

Sessions == [phase : Phases, request : Requests \union {None}, left : 0 .. Timeout,
             document : SUBSET Keys, rows : SUBSET Organizations,
             answer : Answers \union {None},
             seen : SUBSET SUBSET Organizations]

\* Types; a cache in use holds keys, and who is doing something has a request.
TypeOK ==
    /\ stage \in [Keys -> {"new", "published", "withdrawn"}]
    /\ age \in [Keys -> 0 .. Horizon]
    /\ keys \subseteq Keys /\ left \in 0 .. TTL
    /\ left > 0 => keys # {}
    /\ users \subseteq Users
    /\ members \in [Users \X Organizations -> Changes \union {None}]
    /\ session \in [Handlers -> Sessions]
    /\ \A h \in Handlers : session[h].request = None <=> session[h].phase = "idle"

\* A look-up for a good token takes h to label.
LooksUp(h, label) ==
    /\ session[h].phase \in {"idle", "find"}
    /\ session'[h].phase = label
    /\ session'[h].request.token = "valid"

\* A key that the issuer has withdrawn verifies tokens for the time a fetch may
\* take and the time the cache is kept, and no longer: also when an older document
\* is stored over a newer one, and when the look-up after a fetch finds what
\* another handler has stored.
WithdrawnKeysFade ==
    [][\A h \in Handlers :
          LooksUp(h, "authorize") \/ LooksUp(h, "upsert") =>
              LET k == session'[h].request.key IN
              \/ stage[k] = "published"
              \/ stage[k] = "withdrawn" /\ age[k] < Horizon]_vars

\* Nor does a new key wait longer than that: once it has been published for so
\* long, no good token is refused by a look-up, or dropped without an answer.
PublishedKeysCount ==
    [][\A h \in Handlers :
          LooksUp(h, "answered") =>
              LET k == session'[h].request.key IN
              stage[k] # "published" \/ age[k] < Horizon]_vars

\* After its token was verified there is a moment at which the memberships justify
\* what a request is answered: that it is served, that it is forbidden,
\* the list of the current user.
AnswersFollowMemberships ==
    \A h \in Handlers :
        LET s == session[h] IN
        /\ (s.answer = "2xx" /\ s.request.op # "me") => \E standing \in s.seen : standing # {}
        /\ (s.answer = "2xx" /\ s.request.op = "me") => s.rows \in s.seen
        /\ s.answer = "403" => {} \in s.seen

\* Every request ends, though the issuer may never answer.
EveryRequestEnds ==
    \A h \in Handlers : []<>(session[h].phase = "idle")

=============================================================================
