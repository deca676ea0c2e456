------------------------------ MODULE IamAccounts ------------------------------
(***************************************************************************)
(* IAM: platform accounts and their role grants.  Logins call              *)
(* AuthenticateHandler; administrators load an account or its grants,      *)
(* change it through the aggregate and write it back, one write a run.     *)
(* IAM has one unit of work, the in-memory one: each port call runs        *)
(* without interruption and everything interleaves wherever a body awaits. *)
(* No body here can throw after its write, so rollback changes nothing;    *)
(* InMemoryUnitOfWork models the bodies that can.                          *)
(***************************************************************************)
EXTENDS Naturals, FiniteSets

CONSTANTS
    Logins,      \* calls of execute; each mints its own id, so also the user ids
    Admins,
    Subjects,    \* provider subs
    Emails,
    Blank,       \* a claim that is blank after trimming
    Roles,       \* the role grants there are: a role with its scope
    Absent,
    MaxVersion   \* bound: version of an account and of a grants root

ASSUME BlankAssumption == Blank \notin Subjects \cup Emails
ASSUME VersionAssumption == MaxVersion \in Nat

VARIABLES
    users,    \* the Map of accounts
    grants,   \* the Map of grants roots; version 0 where there is none
    recorded, \* recordedEvents; version is history
    login,    \* where each login is, its claims, the account it read, its answer
    admin     \* where each administrator is and what it has loaded

vars == <<users, grants, recorded, login, admin>>

Claims  == [sub : Subjects \cup {Blank}, email : Emails \cup {Blank}]
Account == [sub : Subjects, email : Emails, status : {"Active", "Suspended"},
            version : Nat \ {0}]
ASSUME AbsentAssumption == Absent \notin Account /\ Absent \notin Logins

Root    == [roles : SUBSET Roles, version : Nat]
NoClaims == [sub |-> Blank, email |-> Blank]
Empty    == [roles |-> {}, version |-> 0]

LoginStates == [pc : {"start", "find", "continue", "logIn", "done"}, claims : Claims,
                id : Logins \cup {Absent}, read : Account \cup {Absent},
                answer : {"none", "ok", "suspended", "invalidClaims", "conflict", "duplicate",
                          "fault"}]
AdminStates == [pc : {"idle", "user", "grants", "resolve"}, id : Logins \cup {Absent},
                read : Account \cup {Absent}, root : Root, fact : SUBSET [user : Logins,
                role : Roles, kind : {"RoleGranted", "RoleRevoked"}, version : Nat]]
NewLogin  == [pc |-> "start", claims |-> NoClaims, id |-> Absent, read |-> Absent, answer |-> "none"]
IdleAdmin == [pc |-> "idle", id |-> Absent, read |-> Absent, root |-> Empty, fact |-> {}]

TypeOK ==
    /\ users \in [Logins -> Account \cup {Absent}]
    /\ grants \in [Logins -> Root]
    /\ recorded \subseteq [user : Logins, role : Roles, kind : {"RoleGranted", "RoleRevoked"},
                           version : Nat]
    /\ login \in [Logins -> LoginStates]
    /\ admin \in [Admins -> AdminStates]

Init ==
    /\ users    = [u \in Logins |-> Absent]
    /\ grants   = [u \in Logins |-> Empty]
    /\ recorded = {}
    /\ login    = [l \in Logins |-> NewLogin]
    /\ admin    = [a \in Admins |-> IdleAdmin]

-----------------------------------------------------------------------------
(* Definitions marked Broken are variants with a bug that belongs to the   *)
(* code at hand; a check replaces a definition by one to see that a        *)
(* property notices.                                                       *)

Holders(sub) == {u \in Logins : users[u] # Absent /\ users[u].sub = sub}

\* Broken: the write does not look at the stored version.
StoredAtAnyVersion(u, account) == users[u] # Absent

\* assertVersionMatches
StoredAtVersion(u, account) == users[u] # Absent /\ users[u].version = account.version

Saved(u, account) == [users EXCEPT ![u] = [account EXCEPT !.version = @ + 1]]

Answers(l, answer) == login' = [login EXCEPT ![l].pc = "done", ![l].answer = answer]

\* The provider resolves the token to claims, or throws.
ResolveToken(l) ==
    /\ login[l].pc = "start"
    /\ \/ \E claims \in Claims :
             login' = [login EXCEPT ![l].pc = "find", ![l].claims = claims]
       \/ Answers(l, "fault")
    /\ UNCHANGED <<users, grants, recorded, admin>>

\* The login has an account in hand and goes on to log in on it.
HasRead(l, u) ==
    login' = [login EXCEPT ![l].pc = "logIn", ![l].id = u, ![l].read = users[u]]

\* findByExternalSubject, up to the await.
Find(l) ==
    /\ login[l].pc = "find"
    /\ \/ /\ Holders(login[l].claims.sub) = {}
          /\ login' = [login EXCEPT ![l].pc = "continue"]
       \/ \E u \in Holders(login[l].claims.sub) : HasRead(l, u)
    /\ UNCHANGED <<users, grants, recorded, admin>>

\* Broken: add does not look for the subject.
RegisterBlindly(l) ==
    LET claims == login[l].claims IN
    /\ login[l].pc = "continue"
    /\ claims.sub # Blank /\ claims.email # Blank
    /\ users' = [users EXCEPT ![l] = [sub |-> claims.sub, email |-> claims.email,
                                      status |-> "Active", version |-> 1]]
    /\ login' = [login EXCEPT ![l].pc = "done", ![l].id = l, ![l].answer = "ok"]
    /\ UNCHANGED <<grants, recorded, admin>>

\* Broken: the loser of the race is given the account it did not register.
RegisterAsLoser(l) ==
    LET claims == login[l].claims IN
    /\ login[l].pc = "continue"
    /\ claims.sub # Blank /\ claims.email # Blank
    /\ IF Holders(claims.sub) # {} THEN UNCHANGED users
       ELSE users' = [users EXCEPT ![l] = [sub |-> claims.sub, email |-> claims.email,
                                           status |-> "Active", version |-> 1]]
    /\ login' = [login EXCEPT ![l].pc = "done", ![l].id = l, ![l].answer = "ok"]
    /\ UNCHANGED <<grants, recorded, admin>>

\* Broken: the loser gets DuplicateExternalSubjectError.
RegisterWithoutRecovery(l) ==
    LET claims == login[l].claims IN
    /\ login[l].pc = "continue"
    /\ claims.sub # Blank /\ claims.email # Blank
    /\ IF Holders(claims.sub) # {} THEN Answers(l, "duplicate") /\ UNCHANGED users
       ELSE /\ users' = [users EXCEPT ![l] = [sub |-> claims.sub, email |-> claims.email,
                                              status |-> "Active", version |-> 1]]
            /\ login' = [login EXCEPT ![l].pc = "done", ![l].id = l, ![l].answer = "ok"]
    /\ UNCHANGED <<grants, recorded, admin>>

\* First login: register checks the claims, add the subject.  When another
\* login has won, its account is read again in the same breath: add throws
\* before anything is awaited, so there is a winner.
Register(l) ==
    LET claims == login[l].claims IN
    /\ login[l].pc = "continue"
    /\ \/ /\ claims.sub = Blank \/ claims.email = Blank
          /\ Answers(l, "invalidClaims")
          /\ UNCHANGED users
       \/ /\ claims.sub # Blank /\ claims.email # Blank
          /\ Holders(claims.sub) = {}
          /\ users' = [users EXCEPT ![l] = [sub |-> claims.sub, email |-> claims.email,
                                            status |-> "Active", version |-> 1]]
          /\ login' = [login EXCEPT ![l].pc = "done", ![l].id = l, ![l].answer = "ok"]
       \/ /\ claims.sub # Blank /\ claims.email # Blank
          /\ \E u \in Holders(claims.sub) : HasRead(l, u)
          /\ UNCHANGED users
    /\ UNCHANGED <<grants, recorded, admin>>

\* The profile refresh of logIn, with its keep-existing guard.
Refreshed(account, claims) ==
    IF claims.email = Blank THEN account ELSE [account EXCEPT !.email = claims.email]

\* Returning login: the suspension guard on the account as it was read, then
\* the version check on the account as it is.
LogIn(l) ==
    LET account == login[l].read IN
    /\ login[l].pc = "logIn"
    /\ IF account.status = "Suspended" THEN Answers(l, "suspended") /\ UNCHANGED users
       ELSE IF ~StoredAtVersion(login[l].id, account) THEN Answers(l, "conflict") /\ UNCHANGED users
       ELSE /\ account.version < MaxVersion
            /\ users' = Saved(login[l].id, Refreshed(account, login[l].claims))
            /\ Answers(l, "ok")
    /\ UNCHANGED <<grants, recorded, admin>>

-----------------------------------------------------------------------------
\* An administrator's body reads the account, or the grants, of a user.
LoadUser(a, u) ==
    /\ admin[a].pc = "idle" /\ users[u] # Absent
    /\ admin' = [admin EXCEPT ![a].pc = "user", ![a].id = u, ![a].read = users[u]]
    /\ UNCHANGED <<users, grants, recorded, login>>

LoadGrants(a, u) ==
    /\ admin[a].pc = "idle" /\ users[u] # Absent
    /\ admin' = [admin EXCEPT ![a].pc = "grants", ![a].id = u, ![a].root = grants[u]]
    /\ UNCHANGED <<users, grants, recorded, login>>

\* The body throws before it has written, or resolves and has recorded.
Leave(a) == admin' = [admin EXCEPT ![a] = IdleAdmin]

SetStatus(a, from, to) ==
    /\ admin[a].pc = "user"
    /\ IF admin[a].read.status = from /\ StoredAtVersion(admin[a].id, admin[a].read)
       THEN /\ admin[a].read.version < MaxVersion
            /\ users' = Saved(admin[a].id, [admin[a].read EXCEPT !.status = to])
       ELSE UNCHANGED users
    /\ Leave(a)
    /\ UNCHANGED <<grants, recorded, login>>

Suspend(a)    == SetStatus(a, "Active", "Suspended")
Reactivate(a) == SetStatus(a, "Suspended", "Active")

\* Broken: last writer wins.
GrantsAtAnyVersion(u, root) == TRUE

\* add wants no root to be there, update the version it was loaded at.
GrantsAtVersion(u, root) == grants[u].version = root.version

\* One change of the grants, in memory and into the Map; the fact waits for
\* the body to resolve.  No fact when revoke found nothing to remove.
ChangeRoles(a, roles, facts) ==
    LET u == admin[a].id  root == admin[a].root IN
    IF GrantsAtVersion(u, root)
    THEN /\ root.version < MaxVersion
         /\ grants' = [grants EXCEPT ![u] = [roles |-> roles, version |-> root.version + 1]]
         /\ admin' = [admin EXCEPT ![a].pc = "resolve", ![a].fact = facts]
    ELSE Leave(a) /\ UNCHANGED grants

Grant(a, role) ==
    LET root == admin[a].root IN
    /\ admin[a].pc = "grants"
    /\ IF role \in root.roles THEN Leave(a) /\ UNCHANGED grants
       ELSE ChangeRoles(a, root.roles \cup {role},
                {[user |-> admin[a].id, role |-> role, kind |-> "RoleGranted",
                  version |-> root.version + 1]})
    /\ UNCHANGED <<users, recorded, login>>

Revoke(a, role) ==
    LET root == admin[a].root IN
    /\ admin[a].pc = "grants"
    /\ ChangeRoles(a, root.roles \ {role},
           IF role \notin root.roles THEN {}
           ELSE {[user |-> admin[a].id, role |-> role, kind |-> "RoleRevoked",
                  version |-> root.version + 1]})
    /\ UNCHANGED <<users, recorded, login>>

\* The body resolves: its fact is stamped and recorded.
Resolve(a) ==
    /\ admin[a].pc = "resolve"
    /\ recorded' = recorded \cup admin[a].fact
    /\ Leave(a)
    /\ UNCHANGED <<users, grants, login>>

LoginStep(l) == ResolveToken(l) \/ Find(l) \/ Register(l) \/ LogIn(l)

AdminStep(a) ==
    \/ \E u \in Logins : LoadUser(a, u) \/ LoadGrants(a, u)
    \/ Suspend(a) \/ Reactivate(a)
    \/ \E role \in Roles : Grant(a, role) \/ Revoke(a, role)
    \/ Resolve(a)

Next == (\E l \in Logins : LoginStep(l)) \/ (\E a \in Admins : AdminStep(a))

Spec == Init /\ [][Next]_vars

-----------------------------------------------------------------------------
\* "Two simultaneous first logins for one sub cannot mint two platform
\* accounts" (authenticate.ts :49-51), nor can any number of them.
OneAccountPerSubject ==
    \A u, v \in Logins : users[u] # Absent /\ users[v] # Absent /\ users[u].sub = users[v].sub
        => u = v

\* An ok answer names the account of the caller's own sub, whichever way the
\* race for it went (registerOrLogIn, :109-131).
LoginAnswersItsAccount ==
    \A l \in Logins : login[l].answer = "ok"
        => /\ users[login[l].id] # Absent
           /\ users[login[l].id].sub = login[l].claims.sub

IsSuspended(u) == users[u] # Absent /\ users[u].status = "Suspended"

\* Only reactivate ends a suspension; a login that read the account before it
\* was suspended does not write over it (user-repository.ts :14-18).
SuspensionSticks ==
    [][\A u \in Logins : IsSuspended(u) /\ ~IsSuspended(u)' => \E a \in Admins : Reactivate(a)]_vars

Facts(u, role, kind) == {f \in recorded : f.user = u /\ f.role = role /\ f.kind = kind}

\* "The second write loses rather than silently dropping the first writer's
\* grant/revoke" (user-role-grants-repository.ts :15-18): when no body is under
\* way, the recorded grants less the revocations are the roles a user has.
EventsBalanceGrants ==
    (\A a \in Admins : admin[a].pc # "resolve") =>
        \A u \in Logins, role \in Roles :
            Cardinality(Facts(u, role, "RoleGranted"))
              = Cardinality(Facts(u, role, "RoleRevoked"))
                + (IF role \in grants[u].roles THEN 1 ELSE 0)

\* "The loser still gets a properly logged-in response rather than an error"
\* (authenticate.ts :51-52).  With two logins only an administrator who writes
\* the account in between, beyond the logins it has had, costs the loser a
\* conflict; a third login can, too.
LoserIsLoggedIn ==
    \A l \in Logins :
        /\ login[l].answer # "duplicate"
        /\ login[l].answer = "conflict" =>
             Cardinality({k \in Logins : login[k].answer = "ok" /\ login[k].id = login[l].id})
               < users[login[l].id].version
=============================================================================
