------------------------------ MODULE MCAccess ------------------------------
(* Values for the model checking of Access. *)
EXTENDS Access

CONSTANTS h1, h2, k1, k2, u1, o1, m1

Managers == {"OWNER", "ADMIN", "ORGANIZER", "TEAM_MANAGER"}

TwoHandlers      == {h1, h2}
TwoKeys          == {k1, k2}
OldKey           == {k1}
OneUser          == {u1}
OneOrganization  == {o1}
OneMatch         == {m1}
OrganizerOfMatch == [m \in Matches |-> o1]

\* The roles of cmd/match-api/main.go: managers set a match up, scorers and
\* referees may run it as well.
RoutedOperations == {"me", "create", "setup", "live"}
RoutedPermits == [me |-> {}, create |-> Managers, setup |-> Managers,
                  live |-> Managers \union {"SCORER", "REFEREE"}]

\* A scorer, and one who may be suspended.
ScorerChanges == [role : {"SCORER"}, status : {"ACTIVE", "SUSPENDED"}]

Request(token, key, op, target) ==
    [user |-> u1, token |-> token, key |-> key, op |-> op, target |-> target]

AccessRequests ==
    {Request("valid", k1, "live", m1), Request("valid", k2, "me", o1),
     Request("absent", k1, "create", o1), Request("bad", k1, "create", o1)}
=============================================================================
