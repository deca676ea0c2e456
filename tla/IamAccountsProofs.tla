--------------------------- MODULE IamAccountsProofs ---------------------------
(***************************************************************************)
(* For any number of logins, administrators and subjects: one account per  *)
(* subject, answers that name it, suspensions that only reactivate ends,   *)
(* losers that have a winner, grants that balance with their events and,   *)
(* of the identity query, answers that are the roles of one moment.  The   *)
(* invariant behind them says what a version check is worth: an account    *)
(* read earlier has the subject of the stored one and, where the versions  *)
(* agree, is the stored one.                                               *)
(***************************************************************************)
EXTENDS IdentityQuery, FiniteSetTheorems, TLAPS

\* account is stored, or was at an earlier moment.
PastOf(account, stored) ==
    /\ account \in Account
    /\ account.sub = stored.sub
    /\ account.version <= stored.version
    /\ account.version = stored.version => account = stored

ReadFrom(account, u) == u \in Logins /\ users[u] # Absent /\ PastOf(account, users[u])

\* An id is used by the login that minted it and not before it registers; what
\* a login has read is of its own subject; an ok answer names its account.
LoginOK(l) ==
    /\ login[l].pc \in {"start", "find", "continue"} => users[l] = Absent
    /\ login[l].pc = "logIn" => /\ ReadFrom(login[l].read, login[l].id)
                                /\ login[l].read.sub = login[l].claims.sub
    /\ login[l].answer = "ok" => /\ login[l].pc = "done"
                                 /\ login[l].id \in Logins
                                 /\ users[login[l].id] # Absent
                                 /\ users[login[l].id].sub = login[l].claims.sub

AdminOK(a) ==
    /\ admin[a].pc = "user" => ReadFrom(admin[a].read, admin[a].id)
    /\ admin[a].pc \in {"user", "grants"} => admin[a].id \in Logins

Inv ==
    /\ TypeOK
    /\ \A l \in Logins : LoginOK(l)
    /\ \A a \in Admins : AdminOK(a)
    /\ OneAccountPerSubject

\* Accounts stay, keep their subject, and change only with their version.
Grows ==
    \A u \in Logins : users[u] # Absent
        => /\ users'[u] # Absent
           /\ users'[u].sub = users[u].sub
           /\ users'[u] = users[u] \/ users'[u].version > users[u].version

\* What a step may do to the accounts: nothing, one registration of a subject
\* nobody holds, or one save of the stored version.
Registers(l, new) ==
    /\ l \in Logins /\ new \in Account
    /\ users[l] = Absent
    /\ Holders(new.sub) = {}
    /\ users' = [users EXCEPT ![l] = new]

Saves(u, new) ==
    /\ u \in Logins /\ new \in Account
    /\ users[u] # Absent
    /\ new.sub = users[u].sub
    /\ new.version = users[u].version + 1
    /\ users' = [users EXCEPT ![u] = new]

ChangesOnly(u) ==
    /\ u \in Logins /\ users[u] # Absent
    /\ \A v \in Logins \ {u} : users'[v] = users[v]

UsersStep ==
    \/ UNCHANGED users
    \/ \E l \in Logins, new \in Account : Registers(l, new)
    \/ \E u \in Logins, new \in Account : Saves(u, new)

\* The initial state satisfies the invariant: there are no accounts.
LEMMA InitInv == Init => Inv
BY AbsentAssumption
   DEF Init, Inv, TypeOK, LoginOK, AdminOK, OneAccountPerSubject, LoginStates, AdminStates, NewLogin, IdleAdmin,
       Claims, NoClaims, Root, Empty

-----------------------------------------------------------------------------
\* A save whose version check passed is one of the stored account: the reader
\* had the stored account in hand (updateUser, fake-iam-unit-of-work.ts :135).
LEMMA CheckedSave ==
    ASSUME TypeOK, NEW u, NEW account, ReadFrom(account, u), StoredAtVersion(u, account),
           NEW changed \in Account, changed.sub = account.sub, changed.version = account.version,
           users' = Saved(u, changed)
    PROVE  /\ account = users[u]
           /\ Saves(u, [changed EXCEPT !.version = @ + 1])
<1>1. account = users[u] /\ u \in Logins /\ users[u] # Absent
  BY DEF ReadFrom, PastOf, StoredAtVersion
<1>2. [changed EXCEPT !.version = @ + 1] \in Account
  BY DEF Account
<1>3. /\ [changed EXCEPT !.version = @ + 1].sub = users[u].sub
      /\ [changed EXCEPT !.version = @ + 1].version = users[u].version + 1
  BY <1>1 DEF Account
<1> QED
  BY <1>1, <1>2, <1>3 DEF Saves, Saved

\* Register adds at most one account, of a subject that has none.
LEMMA RegisterStep ==
    ASSUME Inv, NEW l \in Logins, Register(l)
    PROVE  /\ UsersStep
           /\ \A u \in Logins \ {l} : users'[u] = users[u]
<1> DEFINE claims == login[l].claims
           new == [sub |-> claims.sub, email |-> claims.email, status |-> "Active", version |-> 1]
<1>1. CASE UNCHANGED users
  BY <1>1 DEF UsersStep
<1>2. CASE /\ claims.sub # Blank /\ claims.email # Blank
           /\ Holders(claims.sub) = {}
           /\ users' = [users EXCEPT ![l] = new]
  <2>1. claims \in Claims
    BY DEF Inv, TypeOK, LoginStates
  <2>2. new \in Account
    BY <1>2, <2>1 DEF Claims, Account
  <2>3. users[l] = Absent
    BY DEF Inv, LoginOK, Register
  <2>4. Registers(l, new)
    BY <1>2, <2>2, <2>3 DEF Registers
  <2>5. \A u \in Logins \ {l} : users'[u] = users[u]
    BY <1>2 DEF Inv, TypeOK
  <2> QED
    BY <2>2, <2>4, <2>5 DEF UsersStep
<1> QED
  BY <1>1, <1>2 DEF Register

\* A login saves only an account that was Active when it is saved.
LEMMA LogInStep ==
    ASSUME Inv, NEW l \in Logins, LogIn(l)
    PROVE  /\ UsersStep
           /\ users' # users => ChangesOnly(login[l].id) /\ ~IsSuspended(login[l].id)
<1> DEFINE account == login[l].read
           u       == login[l].id
           fresh   == Refreshed(account, login[l].claims)
<1>1. CASE UNCHANGED users
  BY <1>1 DEF UsersStep
<1>2. CASE /\ account.status # "Suspended"
           /\ StoredAtVersion(u, account)
           /\ users' = Saved(u, fresh)
  <2>1. ReadFrom(account, u)
    BY DEF Inv, LoginOK, LogIn
  <2>2. login[l].claims \in Claims /\ account \in Account
    BY <2>1 DEF Inv, TypeOK, LoginStates, ReadFrom, PastOf
  <2>3. fresh \in Account /\ fresh.sub = account.sub /\ fresh.version = account.version
    BY <2>2 DEF Refreshed, Claims, Account
  <2>4. /\ account = users[u]
        /\ Saves(u, [fresh EXCEPT !.version = @ + 1])
    BY <1>2, <2>1, <2>3, CheckedSave DEF Inv
  <2>5. ~IsSuspended(u)
    BY <1>2, <2>4 DEF IsSuspended
  <2>6. [fresh EXCEPT !.version = @ + 1] \in Account /\ u \in Logins
    BY <2>4 DEF Saves
  <2>7. ChangesOnly(u)
    BY <2>4, <2>6 DEF Saves, ChangesOnly, Inv, TypeOK
  <2> QED
    BY <2>4, <2>5, <2>6, <2>7 DEF UsersStep
<1> QED
  BY <1>1, <1>2 DEF LogIn

\* An administrator saves the account it read, with the new status.
LEMMA SetStatusStep ==
    ASSUME Inv, NEW a \in Admins, NEW from, NEW to \in {"Active", "Suspended"},
           SetStatus(a, from, to)
    PROVE  /\ UsersStep
           /\ users' # users => ChangesOnly(admin[a].id) /\ users'[admin[a].id].status = to
<1> DEFINE account == admin[a].read
           u       == admin[a].id
           changed == [account EXCEPT !.status = to]
<1>1. CASE UNCHANGED users
  BY <1>1 DEF UsersStep
<1>2. CASE StoredAtVersion(u, account) /\ users' = Saved(u, changed)
  <2>1. ReadFrom(account, u)
    BY DEF Inv, AdminOK, SetStatus
  <2>2. /\ changed \in Account /\ changed.sub = account.sub /\ changed.version = account.version
        /\ changed.status = to
    BY <2>1 DEF ReadFrom, PastOf, Account
  <2>3. Saves(u, [changed EXCEPT !.version = @ + 1])
    BY <1>2, <2>1, <2>2, CheckedSave DEF Inv
  <2>4. [changed EXCEPT !.version = @ + 1] \in Account /\ u \in Logins
    BY <2>3 DEF Saves
  <2>5. ChangesOnly(u) /\ users'[u].status = to
    BY <2>2, <2>3, <2>4 DEF Saves, ChangesOnly, Inv, TypeOK, Account
  <2> QED
    BY <2>3, <2>4, <2>5 DEF UsersStep
<1> QED
  BY <1>1, <1>2 DEF SetStatus

-----------------------------------------------------------------------------
\* Whatever a step does to the accounts, Grows and OneAccountPerSubject survive
\* it, and what was read stays a past of what is stored.
LEMMA UsersStepGrows ==
    ASSUME TypeOK, UsersStep
    PROVE  Grows /\ users' \in [Logins -> Account \cup {Absent}]
<1>1. CASE UNCHANGED users
  BY <1>1 DEF TypeOK, Grows
<1>2. ASSUME NEW l \in Logins, NEW new \in Account, Registers(l, new)
      PROVE  Grows /\ users' \in [Logins -> Account \cup {Absent}]
  BY <1>2 DEF Registers, TypeOK, Grows
<1>3. ASSUME NEW u \in Logins, NEW new \in Account, Saves(u, new)
      PROVE  Grows /\ users' \in [Logins -> Account \cup {Absent}]
  <2>1. users[u] \in Account /\ users[u].version \in Nat
    BY <1>3 DEF Saves, TypeOK, Account
  <2>2. new # Absent /\ new.version > users[u].version
    BY <1>3, <2>1, AbsentAssumption DEF Saves
  <2>3. Grows
    BY <1>3, <2>2 DEF Saves, TypeOK, Grows
  <2> QED
    BY <1>3, <2>3 DEF Saves, TypeOK
<1> QED
  BY <1>1, <1>2, <1>3 DEF UsersStep

LEMMA UsersStepKeepsSubjectsApart ==
    ASSUME TypeOK, OneAccountPerSubject, UsersStep
    PROVE  OneAccountPerSubject'
<1>1. CASE UNCHANGED users
  BY <1>1 DEF OneAccountPerSubject
<1>2. ASSUME NEW l \in Logins, NEW new \in Account, Registers(l, new)
      PROVE  OneAccountPerSubject'
  <2> SUFFICES ASSUME NEW u \in Logins, NEW v \in Logins, users'[u] # Absent,
                      users'[v] # Absent, users'[u].sub = users'[v].sub
               PROVE  u = v
    BY DEF OneAccountPerSubject
  <2>1. users'[l] = new /\ \A w \in Logins \ {l} : users'[w] = users[w]
    BY <1>2 DEF Registers, TypeOK
  <2>2. \A w \in Logins : users[w] # Absent => users[w].sub # new.sub
    BY <1>2 DEF Registers, Holders
  <2> QED
    BY <2>1, <2>2 DEF OneAccountPerSubject
<1>3. ASSUME NEW w \in Logins, NEW new \in Account, Saves(w, new)
      PROVE  OneAccountPerSubject'
  BY <1>3 DEF Saves, TypeOK, OneAccountPerSubject
<1> QED
  BY <1>1, <1>2, <1>3 DEF UsersStep

LEMMA PastStaysPast ==
    ASSUME NEW account, NEW stored \in Account, NEW new \in Account, PastOf(account, stored),
           new = stored \/ (new.sub = stored.sub /\ new.version > stored.version)
    PROVE  PastOf(account, new)
<1>1. account.version \in Nat /\ stored.version \in Nat /\ new.version \in Nat
  BY DEF PastOf, Account
<1> QED
  BY <1>1 DEF PastOf

-----------------------------------------------------------------------------
LEMMA HasReadTypes ==
    ASSUME TypeOK, NEW l \in Logins, NEW sub, NEW u \in Holders(sub), HasRead(l, u)
    PROVE  /\ login' \in [Logins -> LoginStates]
           /\ \A k \in Logins \ {l} : login'[k] = login[k]
<1> DEFINE new == [login[l] EXCEPT !.pc = "logIn", !.id = u, !.read = users[u]]
<1>1. u \in Logins /\ users[u] \in Account /\ login \in [Logins -> LoginStates]
  BY DEF Holders, TypeOK
<1>2. new \in LoginStates
  BY <1>1 DEF LoginStates
<1>3. login' = [login EXCEPT ![l] = new]
  BY DEF HasRead
<1> HIDE DEF new
<1> QED
  BY <1>1, <1>2, <1>3

LEMMA AnswersTypes ==
    ASSUME TypeOK, NEW l \in Logins,
           NEW answer \in {"ok", "suspended", "invalidClaims", "conflict", "fault"},
           Answers(l, answer)
    PROVE  /\ login' \in [Logins -> LoginStates]
           /\ \A k \in Logins \ {l} : login'[k] = login[k]
<1> DEFINE new == [login[l] EXCEPT !.pc = "done", !.answer = answer]
<1>1. login \in [Logins -> LoginStates]
  BY DEF TypeOK
<1>2. new \in LoginStates
  BY <1>1 DEF LoginStates
<1>3. login' = [login EXCEPT ![l] = new]
  BY DEF Answers
<1> HIDE DEF new
<1> QED
  BY <1>1, <1>2, <1>3

\* The effect of a step of one login on the states of the logins.
LEMMA LoginStepTypes ==
    ASSUME Inv, NEW l \in Logins, LoginStep(l)
    PROVE  /\ login' \in [Logins -> LoginStates]
           /\ \A k \in Logins \ {l} : login'[k] = login[k]
<1> login \in [Logins -> LoginStates] /\ users \in [Logins -> Account \cup {Absent}]
  BY DEF Inv, TypeOK
<1> TypeOK
  BY DEF Inv
<1>1. CASE ResolveToken(l)
  <2>1. ASSUME NEW claims \in Claims,
               login' = [login EXCEPT ![l].pc = "find", ![l].claims = claims]
        PROVE  /\ login' \in [Logins -> LoginStates]
               /\ \A k \in Logins \ {l} : login'[k] = login[k]
    <3> DEFINE new == [login[l] EXCEPT !.pc = "find", !.claims = claims]
    <3>1. new \in LoginStates
      BY DEF LoginStates
    <3>2. login' = [login EXCEPT ![l] = new]
      BY <2>1
    <3> HIDE DEF new
    <3> QED
      BY <3>1, <3>2
  <2> QED
    BY <1>1, <2>1, AnswersTypes DEF ResolveToken
<1>2. CASE Find(l)
  <2>1. CASE login' = [login EXCEPT ![l].pc = "continue"]
    <3> DEFINE new == [login[l] EXCEPT !.pc = "continue"]
    <3>1. new \in LoginStates
      BY DEF LoginStates
    <3>2. login' = [login EXCEPT ![l] = new]
      BY <2>1
    <3> HIDE DEF new
    <3> QED
      BY <3>1, <3>2
  <2> QED
    BY <1>2, <2>1, HasReadTypes DEF Find
<1>3. CASE Register(l)
  <2>1. CASE login' = [login EXCEPT ![l].pc = "done", ![l].id = l, ![l].answer = "ok"]
    <3> DEFINE new == [login[l] EXCEPT !.pc = "done", !.id = l, !.answer = "ok"]
    <3>1. new \in LoginStates
      BY DEF LoginStates
    <3>2. login' = [login EXCEPT ![l] = new]
      BY <2>1
    <3> HIDE DEF new
    <3> QED
      BY <3>1, <3>2
  <2>2. CASE Answers(l, "invalidClaims")
    BY <2>2, AnswersTypes
  <2>3. CASE \E u \in Holders(login[l].claims.sub) : HasRead(l, u)
    BY <2>3, HasReadTypes
  <2> QED
    BY <1>3, <2>1, <2>2, <2>3 DEF Register
<1>4. CASE LogIn(l)
  <2>1. Answers(l, "suspended") \/ Answers(l, "conflict") \/ Answers(l, "ok")
    BY <1>4 DEF LogIn
  <2> QED
    BY <2>1, AnswersTypes
<1> QED
  BY <1>1, <1>2, <1>3, <1>4 DEF LoginStep

LEMMA AdminStepTypes ==
    ASSUME Inv, NEW a \in Admins, AdminStep(a)
    PROVE  /\ admin' \in [Admins -> AdminStates]
           /\ \A b \in Admins \ {a} : admin'[b] = admin[b]
           /\ grants' \in [Logins -> Root]
           /\ recorded' \subseteq [user : Logins, role : Roles,
                                  kind : {"RoleGranted", "RoleRevoked"}, version : Nat]
<1> admin \in [Admins -> AdminStates] /\ users \in [Logins -> Account \cup {Absent}]
    /\ grants \in [Logins -> Root]
    /\ recorded \subseteq [user : Logins, role : Roles,
                           kind : {"RoleGranted", "RoleRevoked"}, version : Nat]
  BY DEF Inv, TypeOK
<1>0. IdleAdmin \in AdminStates
  BY DEF IdleAdmin, AdminStates, Root, Empty
<1>1. ASSUME NEW u \in Logins, LoadUser(a, u) \/ LoadGrants(a, u)
      PROVE  /\ admin' \in [Admins -> AdminStates]
             /\ \A b \in Admins \ {a} : admin'[b] = admin[b]
             /\ UNCHANGED <<grants, recorded>>
  BY <1>1 DEF LoadUser, LoadGrants, AdminStates
<1>2. CASE Suspend(a) \/ Reactivate(a)
  BY <1>0, <1>2 DEF Suspend, Reactivate, SetStatus, Leave
<1>3. ASSUME NEW role \in Roles, Grant(a, role) \/ Revoke(a, role)
      PROVE  /\ admin' \in [Admins -> AdminStates]
             /\ \A b \in Admins \ {a} : admin'[b] = admin[b]
             /\ grants' \in [Logins -> Root]
             /\ UNCHANGED recorded
  <2> DEFINE root == admin[a].root
  <2>1. /\ admin[a].id \in Logins
        /\ root \in Root /\ root.version \in Nat /\ root.roles \subseteq Roles
    BY <1>3 DEF Inv, AdminOK, Grant, Revoke, AdminStates, Root
  <2>2. ASSUME NEW roles \in SUBSET Roles,
               NEW facts \in SUBSET [user : Logins, role : Roles,
                                     kind : {"RoleGranted", "RoleRevoked"}, version : Nat],
               ChangeRoles(a, roles, facts) \/ (Leave(a) /\ UNCHANGED grants)
        PROVE  /\ admin' \in [Admins -> AdminStates]
               /\ \A b \in Admins \ {a} : admin'[b] = admin[b]
               /\ grants' \in [Logins -> Root]
    <3> DEFINE new == [admin[a] EXCEPT !.pc = "resolve", !.fact = facts]
    <3>1. CASE Leave(a) /\ UNCHANGED grants
      BY <1>0, <3>1 DEF Leave
    <3>2. CASE ChangeRoles(a, roles, facts) /\ ~(Leave(a) /\ UNCHANGED grants)
      <4>1. /\ grants' = [grants EXCEPT ![admin[a].id] = [roles |-> roles, version |-> root.version + 1]]
            /\ admin' = [admin EXCEPT ![a] = new]
        BY <3>2 DEF ChangeRoles
      <4>2. new \in AdminStates
        BY DEF AdminStates
      <4>3. [roles |-> roles, version |-> root.version + 1] \in Root
        BY <2>1 DEF Root
      <4> HIDE DEF new
      <4> QED
        BY <2>1, <4>1, <4>2, <4>3
    <3> QED
      BY <2>2, <3>1, <3>2
  <2> DEFINE fact(kind) == [user |-> admin[a].id, role |-> role, kind |-> kind,
                            version |-> root.version + 1]
  <2>3. /\ root.roles \cup {role} \in SUBSET Roles
        /\ root.roles \ {role} \in SUBSET Roles
        /\ {fact("RoleGranted")} \in SUBSET [user : Logins, role : Roles,
                                             kind : {"RoleGranted", "RoleRevoked"}, version : Nat]
        /\ (IF role \notin root.roles THEN {} ELSE {fact("RoleRevoked")})
              \in SUBSET [user : Logins, role : Roles,
                          kind : {"RoleGranted", "RoleRevoked"}, version : Nat]
    BY <2>1
  <2>4. CASE Grant(a, role)
    <3>1. \/ Leave(a) /\ UNCHANGED grants
          \/ ChangeRoles(a, root.roles \cup {role}, {fact("RoleGranted")})
      BY <2>4 DEF Grant
    <3> QED
      BY <2>2, <2>3, <2>4, <3>1, Zenon DEF Grant
  <2>5. CASE Revoke(a, role)
    <3>1. ChangeRoles(a, root.roles \ {role},
                      IF role \notin root.roles THEN {} ELSE {fact("RoleRevoked")})
      BY <2>5 DEF Revoke
    <3> QED
      BY <2>2, <2>3, <2>5, <3>1, Zenon DEF Revoke
  <2> QED
    BY <1>3, <2>4, <2>5
<1>4. CASE Resolve(a)
  <2>1. admin[a].fact \subseteq [user : Logins, role : Roles,
                                kind : {"RoleGranted", "RoleRevoked"}, version : Nat]
    BY DEF AdminStates
  <2> QED
    BY <1>0, <1>4, <2>1 DEF Resolve, Leave
<1> QED
  BY <1>1, <1>2, <1>3, <1>4 DEF AdminStep

-----------------------------------------------------------------------------
\* Every step changes the accounts in one of the ways of UsersStep; one that
\* adds an account is the registration of a login, under its own id.
LEMMA NextUsers ==
    ASSUME Inv, Next
    PROVE  UsersStep
<1>1. ASSUME NEW l \in Logins, LoginStep(l) PROVE UsersStep
  <2>1. CASE ResolveToken(l) \/ Find(l)
    BY <2>1 DEF ResolveToken, Find, UsersStep
  <2> QED
    BY <1>1, <2>1, RegisterStep, LogInStep DEF LoginStep
<1>2. ASSUME NEW a \in Admins, AdminStep(a) PROVE UsersStep
  <2>1. CASE Suspend(a) \/ Reactivate(a)
    BY <2>1, SetStatusStep DEF Suspend, Reactivate
  <2>2. CASE UNCHANGED users
    BY <2>2 DEF UsersStep
  <2> QED
    BY <1>2, <2>1, <2>2 DEF AdminStep, LoadUser, LoadGrants, Grant, Revoke, Resolve
<1> QED
  BY <1>1, <1>2 DEF Next

\* What a process has read is still a past of what is stored after the step.
LEMMA PastAfterStep ==
    ASSUME TypeOK, Grows, users' \in [Logins -> Account \cup {Absent}]
    PROVE  \A u \in Logins, account \in Account :
              users[u] # Absent /\ PastOf(account, users[u])
                  => users'[u] # Absent /\ PastOf(account, users'[u])
<1> SUFFICES ASSUME NEW u \in Logins, NEW account \in Account, users[u] # Absent,
                    PastOf(account, users[u])
             PROVE  users'[u] # Absent /\ PastOf(account, users'[u])
  OBVIOUS
<1>1. users[u] \in Account /\ users'[u] \in Account /\ users'[u] # Absent
  BY DEF TypeOK, Grows
<1> QED
  BY <1>1, PastStaysPast DEF Grows

\* The invariant is kept by the steps of a login ...
LEMMA LoginStepInv ==
    ASSUME Inv, NEW l \in Logins, LoginStep(l)
    PROVE  Inv'
<1> TypeOK /\ UsersStep
  BY NextUsers DEF Inv, Next
<1>1. Grows /\ users' \in [Logins -> Account \cup {Absent}]
  BY UsersStepGrows
<1>2. UNCHANGED <<grants, recorded, admin>>
  BY DEF LoginStep, ResolveToken, Find, Register, LogIn
<1>3. /\ login' \in [Logins -> LoginStates]
      /\ \A k \in Logins \ {l} : login'[k] = login[k]
  BY LoginStepTypes
<1>4. TypeOK'
  BY <1>1, <1>2, <1>3 DEF TypeOK
<1>5. OneAccountPerSubject'
  BY UsersStepKeepsSubjectsApart DEF Inv
<1>6. ASSUME NEW a \in Admins PROVE AdminOK(a)'
  <2>1. AdminOK(a) /\ admin'[a] = admin[a]
    BY <1>2 DEF Inv
  <2>2. admin[a].pc = "user" => admin[a].read \in Account
    BY <2>1 DEF AdminOK, ReadFrom, PastOf
  <2> QED
    BY <1>1, <2>1, <2>2, PastAfterStep DEF AdminOK, ReadFrom
<1>7. ASSUME NEW k \in Logins \ {l} PROVE LoginOK(k)'
  <2>1. LoginOK(k) /\ login'[k] = login[k]
    BY <1>3 DEF Inv
  <2>2. users[k] = Absent => users'[k] = Absent
    <3>1. CASE Register(l)
      BY <3>1, RegisterStep
    <3>2. CASE LogIn(l)
      BY <3>2, LogInStep DEF ChangesOnly
    <3> QED
      BY <3>1, <3>2 DEF LoginStep, ResolveToken, Find
  <2>3. login[k].pc = "logIn" => login[k].read \in Account
    BY <2>1 DEF LoginOK, ReadFrom, PastOf
  <2>4. /\ login[k].pc = "logIn" => /\ users'[login[k].id] # Absent
                                    /\ PastOf(login[k].read, users'[login[k].id])
        /\ login[k].answer = "ok" => /\ users'[login[k].id] # Absent
                                     /\ users'[login[k].id].sub = login[k].claims.sub
    BY <1>1, <2>1, <2>3, PastAfterStep DEF LoginOK, ReadFrom, Grows
  <2> QED
    BY <2>1, <2>2, <2>4 DEF LoginOK, ReadFrom
<1>8. LoginOK(l)'
  <2>1. LoginOK(l) /\ login \in [Logins -> LoginStates]
    BY DEF Inv, TypeOK
  <2>2. CASE ResolveToken(l)
    <3>1. users' = users /\ login[l].pc = "start"
      BY <2>2 DEF ResolveToken
    <3>2. CASE Answers(l, "fault")
      BY <2>1, <3>1, <3>2 DEF Answers, LoginOK
    <3>3. CASE \E claims \in Claims :
                  login' = [login EXCEPT ![l].pc = "find", ![l].claims = claims]
      BY <2>1, <3>1, <3>3 DEF LoginOK
    <3> QED
      BY <2>2, <3>2, <3>3 DEF ResolveToken
  <2>3. ASSUME NEW u \in Holders(login[l].claims.sub), HasRead(l, u), users' = users,
               login[l].pc # "done"
        PROVE  LoginOK(l)'
    <3>1. u \in Logins /\ users[u] \in Account /\ users[u] # Absent
             /\ users[u].sub = login[l].claims.sub
      BY DEF Holders, Inv, TypeOK
    <3>2. PastOf(users[u], users[u])
      BY <3>1 DEF PastOf, Account
    <3>3. /\ login'[l].pc = "logIn" /\ login'[l].id = u /\ login'[l].read = users[u]
          /\ login'[l].claims = login[l].claims /\ login'[l].answer = login[l].answer
      BY <2>1, <2>3 DEF HasRead, LoginStates
    <3> QED
      BY <2>1, <2>3, <3>1, <3>2, <3>3 DEF LoginOK, ReadFrom
  <2>4. CASE Find(l)
    <3>1. users' = users /\ login[l].pc = "find"
      BY <2>4 DEF Find
    <3>2. CASE /\ Holders(login[l].claims.sub) = {}
               /\ login' = [login EXCEPT ![l].pc = "continue"]
      BY <2>1, <3>1, <3>2 DEF LoginOK
    <3> QED
      BY <2>3, <2>4, <3>1, <3>2 DEF Find
  <2>5. CASE Register(l)
    <3> DEFINE claims == login[l].claims
               new == [sub |-> claims.sub, email |-> claims.email, status |-> "Active",
                       version |-> 1]
    <3>1. login[l].pc = "continue"
      BY <2>5 DEF Register
    <3>2. CASE Answers(l, "invalidClaims") /\ users' = users
      BY <2>1, <3>1, <3>2 DEF Answers, LoginOK
    <3>3. CASE /\ users' = [users EXCEPT ![l] = new]
               /\ login' = [login EXCEPT ![l].pc = "done", ![l].id = l, ![l].answer = "ok"]
               /\ claims.sub # Blank /\ claims.email # Blank
      <4>1. users'[l] = new
        BY <3>3 DEF Inv, TypeOK
      <4>2. new \in Account
        BY <2>1, <3>3 DEF Account, LoginStates, Claims
      <4>3. users'[l] # Absent /\ users'[l].sub = claims.sub
        BY <4>1, <4>2, AbsentAssumption
      <4>4. /\ login'[l].pc = "done" /\ login'[l].id = l
            /\ login'[l].claims = login[l].claims
        BY <2>1, <3>3 DEF LoginStates
      <4> QED
        BY <4>3, <4>4 DEF LoginOK
    <3> QED
      BY <2>3, <2>5, <3>1, <3>2, <3>3 DEF Register
  <2>6. CASE LogIn(l)
    <3> DEFINE u == login[l].id
    <3>1. /\ login[l].pc = "logIn"
          /\ u \in Logins /\ users[u] # Absent /\ users[u].sub = login[l].claims.sub
      BY <2>1, <2>6 DEF LogIn, LoginOK, ReadFrom, PastOf
    <3>2. users'[u] # Absent /\ users'[u].sub = login[l].claims.sub
      BY <1>1, <3>1 DEF Grows
    <3>3. ASSUME NEW answer, Answers(l, answer) PROVE LoginOK(l)'
      <4>1. /\ login'[l].pc = "done" /\ login'[l].id = u
            /\ login'[l].claims = login[l].claims
        BY <2>1, <3>3 DEF Answers, LoginStates
      <4> QED
        BY <3>1, <3>2, <4>1 DEF LoginOK
    <3> QED
      BY <2>6, <3>3 DEF LogIn
  <2> QED
    BY <2>2, <2>4, <2>5, <2>6 DEF LoginStep
<1> QED
  BY <1>4, <1>5, <1>6, <1>7, <1>8 DEF Inv

\* ... and by those of an administrator.
LEMMA AdminStepInv ==
    ASSUME Inv, NEW a \in Admins, AdminStep(a)
    PROVE  Inv'
<1> TypeOK /\ UsersStep
  BY NextUsers DEF Inv, Next
<1>1. Grows /\ users' \in [Logins -> Account \cup {Absent}]
  BY UsersStepGrows
<1>2. UNCHANGED login
  BY DEF AdminStep, LoadUser, LoadGrants, Suspend, Reactivate, SetStatus, Grant, Revoke, Resolve
<1>3. /\ admin' \in [Admins -> AdminStates]
      /\ \A b \in Admins \ {a} : admin'[b] = admin[b]
      /\ TypeOK'
  BY <1>1, <1>2, AdminStepTypes DEF TypeOK
<1>4. OneAccountPerSubject'
  BY UsersStepKeepsSubjectsApart DEF Inv
<1>5. \A u \in Logins : users[u] = Absent => users'[u] = Absent
  <2>1. CASE Suspend(a) \/ Reactivate(a)
    BY <2>1, SetStatusStep DEF Suspend, Reactivate, ChangesOnly
  <2> QED
    BY <2>1 DEF AdminStep, LoadUser, LoadGrants, Grant, Revoke, Resolve
<1>6. ASSUME NEW l \in Logins PROVE LoginOK(l)'
  <2>1. LoginOK(l) /\ login'[l] = login[l]
    BY <1>2 DEF Inv
  <2>2. login[l].pc = "logIn" => login[l].read \in Account
    BY <2>1 DEF LoginOK, ReadFrom, PastOf
  <2>3. /\ login[l].pc = "logIn" => /\ users'[login[l].id] # Absent
                                    /\ PastOf(login[l].read, users'[login[l].id])
        /\ login[l].answer = "ok" => /\ users'[login[l].id] # Absent
                                     /\ users'[login[l].id].sub = login[l].claims.sub
    BY <1>1, <2>1, <2>2, PastAfterStep DEF LoginOK, ReadFrom, Grows
  <2> QED
    BY <1>5, <2>1, <2>3 DEF LoginOK, ReadFrom
<1>7. ASSUME NEW b \in Admins \ {a} PROVE AdminOK(b)'
  <2>1. AdminOK(b) /\ admin'[b] = admin[b]
    BY <1>3 DEF Inv
  <2>2. admin[b].pc = "user" => admin[b].read \in Account
    BY <2>1 DEF AdminOK, ReadFrom, PastOf
  <2> QED
    BY <1>1, <2>1, <2>2, PastAfterStep DEF AdminOK, ReadFrom
<1>8. AdminOK(a)'
  <2>1. admin \in [Admins -> AdminStates]
    BY DEF Inv, TypeOK
  <2>2. ASSUME NEW u \in Logins, LoadUser(a, u) PROVE AdminOK(a)'
    <3>1. users[u] \in Account /\ users[u] # Absent /\ users' = users
      BY <2>2 DEF LoadUser, Inv, TypeOK
    <3>2. PastOf(users[u], users[u])
      BY <3>1 DEF PastOf, Account
    <3>3. admin'[a].pc = "user" /\ admin'[a].id = u /\ admin'[a].read = users[u]
      BY <2>1, <2>2 DEF LoadUser, AdminStates
    <3> QED
      BY <3>1, <3>2, <3>3 DEF AdminOK, ReadFrom
  <2>3. ASSUME NEW u \in Logins, LoadGrants(a, u) PROVE AdminOK(a)'
    <3>1. admin'[a].pc = "grants" /\ admin'[a].id = u
      BY <2>1, <2>3 DEF LoadGrants, AdminStates
    <3> QED
      BY <3>1 DEF AdminOK
  <2>4. CASE Leave(a)
    BY <2>1, <2>4 DEF Leave, IdleAdmin, AdminOK
  <2>5. ASSUME NEW role \in Roles, Grant(a, role) \/ Revoke(a, role), ~Leave(a)
        PROVE  admin'[a].pc = "resolve"
    BY <2>1, <2>5 DEF Grant, Revoke, ChangeRoles, AdminStates
  <2>6. ASSUME admin'[a].pc = "resolve" PROVE AdminOK(a)'
    BY <2>6 DEF AdminOK
  <2> QED
    BY <2>2, <2>3, <2>4, <2>5, <2>6
       DEF AdminStep, Suspend, Reactivate, SetStatus, Resolve
<1> QED
  BY <1>3, <1>4, <1>6, <1>7, <1>8 DEF Inv

-----------------------------------------------------------------------------
LEMMA StutterInv ==
    ASSUME Inv, UNCHANGED vars
    PROVE  Inv'
<1>1. UNCHANGED <<users, grants, recorded, login, admin>>
  BY DEF vars
<1>2. TypeOK' /\ OneAccountPerSubject'
  BY <1>1 DEF Inv, TypeOK, OneAccountPerSubject
<1>3. ASSUME NEW l \in Logins PROVE LoginOK(l)'
  BY <1>1 DEF Inv, LoginOK, ReadFrom
<1>4. ASSUME NEW a \in Admins PROVE AdminOK(a)'
  BY <1>1 DEF Inv, AdminOK, ReadFrom
<1> QED
  BY <1>2, <1>3, <1>4 DEF Inv

LEMMA NextInv == Inv /\ [Next]_vars => Inv'
BY LoginStepInv, AdminStepInv, StutterInv DEF Next

\* The inductive invariant holds in every reachable state.
THEOREM AccountsInvariant == Spec => []Inv
BY InitInv, NextInv, PTL DEF Spec

\* All of IAM's state has its type; in particular no account ever loses its
\* email to a blank claim (keep-existing guard of logIn, user.ts :284-294).
THEOREM AccountsAreTyped == Spec => []TypeOK
<1>1. Inv => TypeOK
  BY DEF Inv
<1> QED
  BY <1>1, AccountsInvariant, PTL

\* However many first logins race, a subject never has two accounts
\* (authenticate.ts :49-51).
THEOREM SubjectsHaveOneAccount == Spec => []OneAccountPerSubject
<1>1. Inv => OneAccountPerSubject
  BY DEF Inv
<1> QED
  BY <1>1, AccountsInvariant, PTL

\* An ok answer names the one account of the caller's subject, now and later
\* (registerOrLogIn, authenticate.ts :109-131).
THEOREM OkAnswersNameTheAccount == Spec => []LoginAnswersItsAccount
<1>1. Inv => LoginAnswersItsAccount
  BY DEF Inv, LoginOK, LoginAnswersItsAccount
<1> QED
  BY <1>1, AccountsInvariant, PTL

\* A step that ends a suspension is a reactivation: a login that saves an
\* account saves the stored one, which was not suspended (user-repository.ts
\* :14-18).
LEMMA OnlyReactivateReactivates ==
    ASSUME Inv, Next, NEW u \in Logins, IsSuspended(u), ~IsSuspended(u)'
    PROVE  \E a \in Admins : Reactivate(a)
<1>1. users[u] \in Account /\ users'[u] # users[u]
  BY DEF IsSuspended, Inv, TypeOK
<1>2. ASSUME NEW l \in Logins, LoginStep(l) PROVE FALSE
  <2>1. CASE ResolveToken(l) \/ Find(l)
    BY <1>1, <2>1 DEF ResolveToken, Find
  <2>2. CASE Register(l)
    <3>1. users[l] = Absent
      BY <2>2 DEF Inv, LoginOK, Register
    <3>2. u # l
      BY <3>1 DEF IsSuspended
    <3> QED
      BY <1>1, <2>2, <3>2, RegisterStep
  <2>3. CASE LogIn(l)
    BY <1>1, <2>3, LogInStep DEF ChangesOnly
  <2> QED
    BY <1>2, <2>1, <2>2, <2>3 DEF LoginStep
<1>3. ASSUME NEW a \in Admins, AdminStep(a) PROVE Reactivate(a)
  <2>1. CASE Suspend(a)
    <3>1. users' # users => ChangesOnly(admin[a].id) /\ users'[admin[a].id].status = "Suspended"
      BY <2>1, SetStatusStep DEF Suspend
    <3>2. Grows
      BY NextUsers, UsersStepGrows DEF Inv
    <3> QED
      BY <1>1, <3>1, <3>2 DEF ChangesOnly, Grows, IsSuspended
  <2> QED
    BY <1>1, <1>3, <2>1 DEF AdminStep, LoadUser, LoadGrants, Grant, Revoke, Resolve
<1> QED
  BY <1>2, <1>3 DEF Next

\* A suspension is undone by an administrator who reactivates the account and by
\* nothing else: a login that read the active account before cannot save it
\* (user.ts :233-252, authenticate.ts :95-105).
THEOREM SuspensionsStick == Spec => SuspensionSticks
<1> DEFINE Sticks == \A u \in Logins : IsSuspended(u) /\ ~IsSuspended(u)'
                                           => \E a \in Admins : Reactivate(a)
<1>1. Inv /\ [Next]_vars => [Sticks]_vars
  BY OnlyReactivateReactivates
<1> QED
  BY <1>1, AccountsInvariant, PTL DEF Spec, SuspensionSticks

-----------------------------------------------------------------------------
(* A fact is known from the moment its write is in the Map, and waits for   *)
(* its body to resolve.                                                     *)
Waiting == UNION {admin[a].fact : a \in {b \in Admins : admin[b].pc = "resolve"}}

Known == recorded \cup Waiting

KnownFacts(u, role, kind) == {f \in Known : f.user = u /\ f.role = role /\ f.kind = kind}

\* Grants an administrator has in hand at the stored version are the stored ones.
RootsAreCurrent ==
    \A a \in Admins : admin[a].pc = "grants" =>
        LET stored == grants[admin[a].id] IN
        admin[a].root.version <= stored.version
        /\ (admin[a].root.version = stored.version => admin[a].root = stored)

\* Each known fact is of a version of its own.
FactsAreOld == IsFiniteSet(Known) /\ \A f \in Known : f.version <= grants[f.user].version

Balanced ==
    \A u \in Logins, role \in Roles :
        Cardinality(KnownFacts(u, role, "RoleGranted"))
          = Cardinality(KnownFacts(u, role, "RoleRevoked")) + (IF role \in grants[u].roles THEN 1 ELSE 0)

GrantsInv == RootsAreCurrent /\ FactsAreOld /\ Balanced

LEMMA InitGrantsInv == Init => GrantsInv
<1> SUFFICES ASSUME Init PROVE GrantsInv
  OBVIOUS
<1>1. Known = {}
  BY DEF Init, Known, Waiting, IdleAdmin
<1>2. \A u, role, kind : KnownFacts(u, role, kind) = {}
  BY <1>1 DEF KnownFacts
<1>3. RootsAreCurrent /\ FactsAreOld
  BY <1>1, FS_EmptySet DEF Init, RootsAreCurrent, FactsAreOld, IdleAdmin
<1>4. Balanced
  <2> SUFFICES ASSUME NEW u \in Logins, NEW role \in Roles
               PROVE  Cardinality(KnownFacts(u, role, "RoleGranted"))
                        = Cardinality(KnownFacts(u, role, "RoleRevoked"))
                            + (IF role \in grants[u].roles THEN 1 ELSE 0)
    BY DEF Balanced
  <2>1. grants[u].roles = {}
    BY DEF Init, Empty
  <2>2. Cardinality({}) = 0
    BY FS_EmptySet
  <2> QED
    BY <1>2, <2>1, <2>2
<1> QED
  BY <1>3, <1>4 DEF GrantsInv

\* Grant or Revoke got through: a new version, with at most one new fact.
Changes(a, roles, facts) ==
    LET u == admin[a].id IN
    /\ admin[a].pc = "grants" /\ u \in Logins /\ admin[a].root = grants[u]
    /\ grants' = [grants EXCEPT ![u] = [roles |-> roles, version |-> grants[u].version + 1]]
    /\ admin' = [admin EXCEPT ![a].pc = "resolve", ![a].fact = facts]
    /\ Known' = Known \cup facts

\* admin is a function to records; only the entry of one administrator changes.
LEMMA WaitingAfter ==
  ASSUME TypeOK, NEW a \in Admins, \A b \in Admins \ {a} : admin'[b] = admin[b]
  PROVE  /\ admin[a].pc # "resolve" /\ admin'[a].pc # "resolve" => Waiting' = Waiting
         /\ admin[a].pc # "resolve" /\ admin'[a].pc = "resolve" => Waiting' = Waiting \cup admin'[a].fact
         /\ admin[a].pc = "resolve" /\ admin'[a].pc # "resolve" => Waiting = Waiting' \cup admin[a].fact
BY DEF Waiting

LEMMA ChangeRolesStep ==
  ASSUME Inv, GrantsInv, NEW a \in Admins, admin[a].pc = "grants", NEW roles, NEW facts,
         ChangeRoles(a, roles, facts), UNCHANGED recorded
  PROVE  (Known' = Known /\ grants' = grants) \/ Changes(a, roles, facts)
<1>0. admin[a].id \in Logins /\ admin[a] \in AdminStates /\ DOMAIN admin = Admins
  BY DEF Inv, AdminOK, TypeOK
<1>1. CASE ~GrantsAtVersion(admin[a].id, admin[a].root)
  <2>1. admin' = [admin EXCEPT ![a] = IdleAdmin] /\ grants' = grants
    BY <1>1 DEF ChangeRoles, Leave
  <2>2. admin'[a].pc # "resolve" /\ \A b \in Admins \ {a} : admin'[b] = admin[b]
    BY <1>0, <2>1 DEF IdleAdmin
  <2> QED
    BY <2>1, <2>2, WaitingAfter DEF Known, Inv
<1>2. CASE GrantsAtVersion(admin[a].id, admin[a].root)
  <2>1. /\ grants' = [grants EXCEPT ![admin[a].id] = [roles |-> roles, version |-> admin[a].root.version + 1]]
        /\ admin' = [admin EXCEPT ![a].pc = "resolve", ![a].fact = facts]
    BY <1>2 DEF ChangeRoles
  <2>2. admin[a].root = grants[admin[a].id]
    BY <1>2 DEF GrantsAtVersion, GrantsInv, RootsAreCurrent
  <2>3. admin'[a].pc = "resolve" /\ admin'[a].fact = facts /\ \A b \in Admins \ {a} : admin'[b] = admin[b]
    BY <1>0, <2>1 DEF AdminStates
  <2>4. Waiting' = Waiting \cup facts
    BY <2>3, WaitingAfter DEF Inv
  <2> QED
    BY <1>0, <2>1, <2>2, <2>4 DEF Changes, Known
<1> QED
  BY <1>1, <1>2

\* What a step does to the grants and the facts about them.
LEMMA GrantsStep ==
  ASSUME Inv, GrantsInv, Next
  PROVE  \/ Known' = Known /\ grants' = grants
         \/ \E a \in Admins : Changes(a, grants[admin[a].id].roles, {})
         \/ \E a \in Admins, role \in Roles : \E fact :
               /\ fact = [user |-> admin[a].id, role |-> role, kind |-> "RoleGranted",
                          version |-> grants[admin[a].id].version + 1]
               /\ role \notin grants[admin[a].id].roles
               /\ Changes(a, grants[admin[a].id].roles \cup {role}, {fact})
         \/ \E a \in Admins, role \in Roles : \E fact :
               /\ fact = [user |-> admin[a].id, role |-> role, kind |-> "RoleRevoked",
                          version |-> grants[admin[a].id].version + 1]
               /\ role \in grants[admin[a].id].roles
               /\ Changes(a, grants[admin[a].id].roles \ {role}, {fact})
<1>1. ASSUME NEW l \in Logins, LoginStep(l) PROVE Known' = Known /\ grants' = grants
  BY <1>1 DEF LoginStep, ResolveToken, Find, Register, LogIn, Known, Waiting
<1>2. ASSUME NEW a \in Admins, NEW u \in Logins, LoadUser(a, u) \/ LoadGrants(a, u)
      PROVE  Known' = Known /\ grants' = grants
  <2>1. /\ admin[a].pc # "resolve" /\ admin'[a].pc # "resolve" /\ \A b \in Admins \ {a} : admin'[b] = admin[b]
        /\ UNCHANGED <<recorded, grants>>
    BY <1>2 DEF LoadUser, LoadGrants, Inv, TypeOK, AdminStates
  <2> QED
    BY <2>1, WaitingAfter DEF Known, Inv
<1>3. ASSUME NEW a \in Admins, Suspend(a) \/ Reactivate(a) PROVE Known' = Known /\ grants' = grants
  <2>1. /\ admin[a].pc # "resolve" /\ admin'[a].pc # "resolve" /\ \A b \in Admins \ {a} : admin'[b] = admin[b]
        /\ UNCHANGED <<recorded, grants>>
    BY <1>3 DEF Suspend, Reactivate, SetStatus, Leave, IdleAdmin, Inv, TypeOK
  <2> QED
    BY <2>1, WaitingAfter DEF Known, Inv
<1>4. ASSUME NEW a \in Admins, Resolve(a) PROVE Known' = Known /\ grants' = grants
  <2>1. /\ admin[a].pc = "resolve" /\ admin'[a].pc # "resolve" /\ \A b \in Admins \ {a} : admin'[b] = admin[b]
        /\ recorded' = recorded \cup admin[a].fact /\ grants' = grants
    BY <1>4 DEF Resolve, Leave, IdleAdmin, Inv, TypeOK
  <2> QED
    BY <2>1, WaitingAfter DEF Known, Inv
<1>5. ASSUME NEW a \in Admins, NEW role \in Roles, Grant(a, role)
      PROVE  \/ Known' = Known /\ grants' = grants
             \/ \E fact :
                  /\ fact = [user |-> admin[a].id, role |-> role, kind |-> "RoleGranted",
                             version |-> grants[admin[a].id].version + 1]
                  /\ role \notin grants[admin[a].id].roles
                  /\ Changes(a, grants[admin[a].id].roles \cup {role}, {fact})
  <2> DEFINE root == admin[a].root
             fact == [user |-> admin[a].id, role |-> role, kind |-> "RoleGranted", version |-> root.version + 1]
  <2>0. admin[a].pc = "grants" /\ UNCHANGED recorded
    BY <1>5 DEF Grant
  <2>1. CASE role \in root.roles
    <3>1. /\ admin[a].pc # "resolve" /\ admin'[a].pc # "resolve" /\ \A b \in Admins \ {a} : admin'[b] = admin[b]
          /\ UNCHANGED <<recorded, grants>>
      BY <1>5, <2>1 DEF Grant, Leave, IdleAdmin, Inv, TypeOK
    <3> QED
      BY <3>1, WaitingAfter DEF Known, Inv
  <2>2. CASE role \notin root.roles
    <3>1. ChangeRoles(a, root.roles \cup {role}, {fact})
      BY <1>5, <2>2 DEF Grant
    <3>2. (Known' = Known /\ grants' = grants) \/ Changes(a, root.roles \cup {role}, {fact})
      BY <2>0, <3>1, ChangeRolesStep
    <3>3. Changes(a, root.roles \cup {role}, {fact}) => root = grants[admin[a].id]
      BY DEF Changes
    <3> QED
      BY <2>2, <3>2, <3>3
  <2> QED
    BY <2>1, <2>2
<1>6. ASSUME NEW a \in Admins, NEW role \in Roles, Revoke(a, role)
      PROVE  \/ Known' = Known /\ grants' = grants
             \/ Changes(a, grants[admin[a].id].roles, {})
             \/ \E fact :
                  /\ fact = [user |-> admin[a].id, role |-> role, kind |-> "RoleRevoked",
                             version |-> grants[admin[a].id].version + 1]
                  /\ role \in grants[admin[a].id].roles
                  /\ Changes(a, grants[admin[a].id].roles \ {role}, {fact})
  <2> DEFINE root == admin[a].root
             fact == [user |-> admin[a].id, role |-> role, kind |-> "RoleRevoked", version |-> root.version + 1]
             facts == IF role \notin root.roles THEN {} ELSE {fact}
  <2>0. admin[a].pc = "grants" /\ UNCHANGED recorded
    BY <1>6 DEF Revoke
  <2>1. ChangeRoles(a, root.roles \ {role}, facts)
    BY <1>6 DEF Revoke
  <2>2. (Known' = Known /\ grants' = grants) \/ Changes(a, root.roles \ {role}, facts)
    BY <2>0, <2>1, ChangeRolesStep
  <2>3. Changes(a, root.roles \ {role}, facts) => root = grants[admin[a].id]
    BY DEF Changes
  <2>4. role \notin root.roles => root.roles \ {role} = root.roles
    OBVIOUS
  <2> QED
    BY <2>2, <2>3, <2>4
<1> QED
  BY <1>1, <1>2, <1>3, <1>4, <1>5, <1>6 DEF Next, AdminStep

LEMMA KnownFactsFinite ==
  ASSUME FactsAreOld
  PROVE  \A u, role, kind : IsFiniteSet(KnownFacts(u, role, kind))
                            /\ Cardinality(KnownFacts(u, role, kind)) \in Nat
BY FS_Subset, FS_CardinalityType DEF FactsAreOld, KnownFacts

\* A change of grants that counts one new fact for it, or none.
LEMMA ChangesKeepGrantsInv ==
  ASSUME Inv, GrantsInv, NEW a \in Admins, NEW roles, NEW facts, Changes(a, roles, facts),
         \/ facts = {} /\ roles = grants[admin[a].id].roles
         \/ \E role \in Roles, kind \in {"RoleGranted", "RoleRevoked"} : \E fact :
               /\ facts = {fact}
               /\ fact = [user |-> admin[a].id, role |-> role, kind |-> kind,
                          version |-> grants[admin[a].id].version + 1]
               /\ IF kind = "RoleGranted"
                  THEN role \notin grants[admin[a].id].roles /\ roles = grants[admin[a].id].roles \cup {role}
                  ELSE role \in grants[admin[a].id].roles /\ roles = grants[admin[a].id].roles \ {role}
  PROVE  GrantsInv'
<1> DEFINE u == admin[a].id
           v == grants[u].version
<1>0. /\ u \in Logins /\ v \in Nat /\ grants \in [Logins -> Root]
      /\ grants' = [grants EXCEPT ![u] = [roles |-> roles, version |-> v + 1]]
      /\ admin' = [admin EXCEPT ![a].pc = "resolve", ![a].fact = facts]
      /\ Known' = Known \cup facts
      /\ admin \in [Admins -> AdminStates]
  BY DEF Changes, Inv, TypeOK, Root
<1>1. /\ grants'[u] = [roles |-> roles, version |-> v + 1]
      /\ \A w \in Logins \ {u} : grants'[w] = grants[w]
  BY <1>0
<1>2. \A f \in Known : f.user \in Logins /\ f.version \in Nat /\ f.version <= grants[f.user].version
  BY DEF Inv, TypeOK, Known, Waiting, AdminStates, GrantsInv, FactsAreOld
<1>3. RootsAreCurrent'
  <2> SUFFICES ASSUME NEW b \in Admins, admin'[b].pc = "grants"
               PROVE  /\ admin'[b].root.version <= grants'[admin'[b].id].version
                      /\ admin'[b].root.version = grants'[admin'[b].id].version
                            => admin'[b].root = grants'[admin'[b].id]
    BY DEF RootsAreCurrent
  <2>1. b # a /\ admin'[b] = admin[b] /\ admin[b].id \in Logins /\ admin[b].root.version \in Nat
    BY <1>0 DEF Inv, AdminOK, AdminStates, Root
  <2>2. /\ admin[b].root.version <= grants[admin[b].id].version
        /\ admin[b].root.version = grants[admin[b].id].version => admin[b].root = grants[admin[b].id]
    BY <2>1 DEF GrantsInv, RootsAreCurrent
  <2>3. CASE admin[b].id = u
    BY <1>0, <1>1, <2>1, <2>2, <2>3
  <2>4. CASE admin[b].id # u
    BY <1>1, <2>1, <2>2, <2>4
  <2> QED
    BY <2>3, <2>4
<1>4. \A f \in Known : f.version <= grants'[f.user].version
  BY <1>0, <1>1, <1>2
\* At most one fact counts for a user and a role, and it is a new one.
<1>5. CASE facts = {} /\ roles = grants[u].roles
  <2>1. Known' = Known /\ \A w \in Logins : grants'[w].roles = grants[w].roles
    BY <1>0, <1>1, <1>5
  <2>2. FactsAreOld'
    BY <1>4, <2>1 DEF GrantsInv, FactsAreOld
  <2>3. Balanced'
    BY <2>1 DEF GrantsInv, Balanced, KnownFacts
  <2> QED
    BY <1>3, <2>2, <2>3 DEF GrantsInv
<1>6. ASSUME NEW role \in Roles, NEW kind \in {"RoleGranted", "RoleRevoked"}, NEW fact, facts = {fact},
             fact = [user |-> u, role |-> role, kind |-> kind, version |-> v + 1],
             IF kind = "RoleGranted"
             THEN role \notin grants[u].roles /\ roles = grants[u].roles \cup {role}
             ELSE role \in grants[u].roles /\ roles = grants[u].roles \ {role}
      PROVE  GrantsInv'
  <2>1. fact \notin Known
    BY <1>0, <1>2, <1>6
  <2>2. IsFiniteSet(Known') /\ Known' = Known \cup {fact}
    BY <1>0, <1>6, FS_AddElement DEF GrantsInv, FactsAreOld
  <2>3. FactsAreOld'
    <3>1. fact.version <= grants'[fact.user].version
      BY <1>0, <1>1, <1>6
    <3> QED
      BY <1>4, <2>2, <3>1 DEF FactsAreOld
  <2>4. ASSUME NEW w \in Logins, NEW r \in Roles
        PROVE  Cardinality(KnownFacts(w, r, "RoleGranted")')
                 = Cardinality(KnownFacts(w, r, "RoleRevoked")') + (IF r \in grants'[w].roles THEN 1 ELSE 0)
    <3>0. \A k : IsFiniteSet(KnownFacts(w, r, k)) /\ Cardinality(KnownFacts(w, r, k)) \in Nat
      BY KnownFactsFinite DEF GrantsInv
    <3>1. Cardinality(KnownFacts(w, r, "RoleGranted"))
            = Cardinality(KnownFacts(w, r, "RoleRevoked")) + (IF r \in grants[w].roles THEN 1 ELSE 0)
      BY DEF GrantsInv, Balanced
    <3>2. CASE w = u /\ r = role
      <4>1. KnownFacts(w, r, kind)' = KnownFacts(w, r, kind) \cup {fact}
        BY <1>6, <2>2, <3>2 DEF KnownFacts
      <4>2. Cardinality(KnownFacts(w, r, kind)') = Cardinality(KnownFacts(w, r, kind)) + 1
        <5>1. fact \notin KnownFacts(w, r, kind)
          BY <2>1 DEF KnownFacts
        <5> QED
          BY <3>0, <4>1, <5>1, FS_AddElement
      <4>3. \A k : k # kind => KnownFacts(w, r, k)' = KnownFacts(w, r, k)
        BY <1>6, <2>2 DEF KnownFacts
      <4>4. CASE kind = "RoleGranted"
        BY <1>1, <1>6, <3>0, <3>1, <3>2, <4>2, <4>3, <4>4
      <4>5. CASE kind = "RoleRevoked"
        BY <1>1, <1>6, <3>0, <3>1, <3>2, <4>2, <4>3, <4>5
      <4> QED
        BY <4>4, <4>5
    <3>3. CASE ~(w = u /\ r = role)
      <4>1. \A k : KnownFacts(w, r, k)' = KnownFacts(w, r, k)
        BY <1>6, <2>2, <3>3 DEF KnownFacts
      <4>2. r \in grants'[w].roles <=> r \in grants[w].roles
        BY <1>1, <1>6, <3>3
      <4> QED
        BY <3>1, <4>1, <4>2
    <3> QED
      BY <3>2, <3>3
  <2>5. Balanced'
    BY <2>4 DEF Balanced
  <2> QED
    BY <1>3, <2>3, <2>5 DEF GrantsInv
<1> QED
  BY <1>5, <1>6

LEMMA NextGrantsInv == Inv /\ GrantsInv /\ [Next]_vars => GrantsInv'
<1> SUFFICES ASSUME Inv, GrantsInv, [Next]_vars PROVE GrantsInv'
  OBVIOUS
<1>1. CASE Known' = Known /\ grants' = grants
  <2>1. FactsAreOld' /\ Balanced'
    BY <1>1 DEF GrantsInv, FactsAreOld, Balanced, KnownFacts
  <2>2. ASSUME NEW b \in Admins, admin'[b].pc = "grants"
        PROVE  admin'[b] = admin[b] \/ (admin'[b].id \in Logins /\ admin'[b].root = grants[admin'[b].id])
    <3>1. CASE UNCHANGED admin
      BY <3>1
    <3>2. ASSUME NEW a \in Admins, AdminStep(a), b # a PROVE admin'[b] = admin[b]
      <4>1. admin' = [admin EXCEPT ![a] = admin'[a]] \/ admin' = admin
        <5>1. DOMAIN admin = Admins
          BY DEF Inv, TypeOK
        <5>2. CASE \E u \in Logins : LoadUser(a, u) \/ LoadGrants(a, u)
          BY <5>1, <5>2 DEF LoadUser, LoadGrants
        <5>3. CASE Suspend(a) \/ Reactivate(a) \/ Resolve(a)
          BY <5>1, <5>3 DEF Suspend, Reactivate, SetStatus, Resolve, Leave
        <5>4. CASE \E role \in Roles : Grant(a, role) \/ Revoke(a, role)
          BY <5>1, <5>4 DEF Grant, Revoke, ChangeRoles, Leave
        <5> QED
          BY <3>2, <5>2, <5>3, <5>4 DEF AdminStep
      <4> QED
        BY <3>2, <4>1 DEF Inv, TypeOK
    <3>3. ASSUME NEW a \in Admins, AdminStep(a), b = a
          PROVE  admin'[b].id \in Logins /\ admin'[b].root = grants[admin'[b].id]
      <4>0. admin \in [Admins -> AdminStates]
        BY DEF Inv, TypeOK
      <4>1. ASSUME NEW u \in Logins, LoadUser(a, u) \/ LoadGrants(a, u)
            PROVE  admin'[b].id \in Logins /\ admin'[b].root = grants[admin'[b].id]
        BY <2>2, <3>3, <4>0, <4>1 DEF LoadUser, LoadGrants, AdminStates
      <4>2. ASSUME Leave(a) PROVE FALSE
        BY <2>2, <3>3, <4>0, <4>2 DEF Leave, IdleAdmin
      <4>3. ASSUME NEW roles, NEW facts, ChangeRoles(a, roles, facts) PROVE FALSE
        BY <2>2, <3>3, <4>0, <4>2, <4>3 DEF ChangeRoles, AdminStates
      <4> QED
        BY <3>3, <4>1, <4>2, <4>3 DEF AdminStep, Suspend, Reactivate, SetStatus, Resolve, Grant, Revoke
    <3>4. ASSUME NEW l \in Logins, LoginStep(l) PROVE UNCHANGED admin
      BY <3>4 DEF LoginStep, ResolveToken, Find, Register, LogIn
    <3> QED
      BY <3>1, <3>2, <3>3, <3>4 DEF Next, vars
  <2>3. RootsAreCurrent'
    <3> SUFFICES ASSUME NEW b \in Admins, admin'[b].pc = "grants"
                 PROVE  /\ admin'[b].root.version <= grants'[admin'[b].id].version
                        /\ admin'[b].root.version = grants'[admin'[b].id].version
                              => admin'[b].root = grants'[admin'[b].id]
      BY DEF RootsAreCurrent
    <3>1. CASE admin'[b] = admin[b]
      BY <1>1, <3>1 DEF GrantsInv, RootsAreCurrent
    <3>2. CASE admin'[b].id \in Logins /\ admin'[b].root = grants[admin'[b].id]
      <4>1. grants[admin'[b].id].version \in Nat
        BY <3>2 DEF Inv, TypeOK, Root
      <4> QED
        BY <1>1, <3>2, <4>1
    <3> QED
      BY <2>2, <3>1, <3>2
  <2> QED
    BY <2>1, <2>3 DEF GrantsInv
<1>2. CASE UNCHANGED vars
  <2>1. Known' = Known /\ grants' = grants
    BY <1>2 DEF vars, Known, Waiting
  <2> QED
    BY <1>1, <2>1
<1>3. CASE Next
  BY <1>1, <1>3, GrantsStep, ChangesKeepGrantsInv
<1> QED
  BY <1>2, <1>3

\* Whatever grants and revocations race for a user's roles, the recorded events
\* tell which roles the user has: none is dropped by a later writer.
THEOREM GrantsMatchTheirEvents == Spec => []EventsBalanceGrants
<1>1. GrantsInv => EventsBalanceGrants
  <2> SUFFICES ASSUME GrantsInv, \A a \in Admins : admin[a].pc # "resolve", NEW u \in Logins, NEW role \in Roles
               PROVE  Cardinality(Facts(u, role, "RoleGranted"))
                        = Cardinality(Facts(u, role, "RoleRevoked")) + (IF role \in grants[u].roles THEN 1 ELSE 0)
    BY DEF EventsBalanceGrants
  <2>1. Known = recorded
    BY DEF Known, Waiting
  <2>2. \A kind : Facts(u, role, kind) = KnownFacts(u, role, kind)
    BY <2>1 DEF Facts, KnownFacts
  <2> QED
    BY <2>2 DEF GrantsInv, Balanced
<1> QED
  BY <1>1, InitGrantsInv, NextGrantsInv, AccountsInvariant, PTL DEF Spec

-----------------------------------------------------------------------------
\* However many logins race for a subject: none is answered that the subject is
\* taken, and one that loses has read an account that was written since
\* (authenticate.ts :95-131).
LosersReadAnOlderAccount ==
    \A l \in Logins :
        /\ login[l].answer # "duplicate"
        /\ login[l].answer = "conflict" =>
              /\ login[l].pc = "done"
              /\ ReadFrom(login[l].read, login[l].id)
              /\ login[l].read.version < users[login[l].id].version

LEMMA NextLosers ==
    ASSUME Inv, LosersReadAnOlderAccount, [Next]_vars
    PROVE  LosersReadAnOlderAccount'
<1>1. CASE UNCHANGED vars
  <2>1. UNCHANGED <<login, users>>
    BY <1>1 DEF vars
  <2> QED BY <2>1 DEF LosersReadAnOlderAccount, ReadFrom
<1>2. CASE Next
  <2>1. TypeOK /\ Grows /\ users' \in [Logins -> Account \cup {Absent}]
    BY <1>2, NextUsers, UsersStepGrows DEF Inv
  <2>2. ASSUME NEW l \in Logins, login'[l] = login[l]
        PROVE  /\ login'[l].answer # "duplicate"
               /\ login'[l].answer = "conflict" =>
                     /\ login'[l].pc = "done"
                     /\ ReadFrom(login[l].read, login[l].id)'
                     /\ login'[l].read.version < users'[login'[l].id].version
    <3> DEFINE u == login[l].id
               account == login[l].read
    <3>1. SUFFICES ASSUME login[l].answer = "conflict"
                   PROVE  ReadFrom(account, u)' /\ account.version < users'[u].version
      BY <2>2 DEF LosersReadAnOlderAccount
    <3>2. /\ u \in Logins /\ users[u] # Absent /\ PastOf(account, users[u])
          /\ account.version < users[u].version
      BY <3>1 DEF LosersReadAnOlderAccount, ReadFrom
    <3>3. /\ users[u] \in Account /\ account \in Account /\ users'[u] # Absent
          /\ users'[u] = users[u] \/ users'[u].version > users[u].version
      BY <2>1, <3>2 DEF TypeOK, Grows, PastOf
    <3>4. PastOf(account, users'[u]) /\ users'[u] \in Account
      BY <2>1, <3>2, <3>3, PastAfterStep
    <3>5. account.version < users'[u].version
      BY <3>2, <3>3, <3>4 DEF Account
    <3>6. ReadFrom(account, u)'
      BY <2>2, <3>2, <3>3, <3>4 DEF ReadFrom
    <3> QED BY <3>5, <3>6
  <2>3. ASSUME NEW l \in Logins, LoginStep(l)
        PROVE  /\ login'[l].answer # "duplicate"
               /\ login'[l].answer = "conflict" =>
                     /\ login'[l].pc = "done"
                     /\ ReadFrom(login[l].read, login[l].id)'
                     /\ login'[l].read.version < users'[login'[l].id].version
    <3>0. login \in [Logins -> LoginStates] /\ login[l].answer # "duplicate"
          /\ (login[l].pc # "done" => login[l].answer # "conflict")
      BY <2>1 DEF TypeOK, LosersReadAnOlderAccount
    <3>1. CASE ~LogIn(l)
      <4>1. login'[l].answer \in {login[l].answer, "fault", "invalidClaims", "ok"} /\ login[l].pc # "done"
        <5>1. ASSUME NEW answer, Answers(l, answer) PROVE login'[l].answer = answer
          BY <3>0, <5>1 DEF Answers, LoginStates
        <5>2. ASSUME NEW u, HasRead(l, u) PROVE login'[l].answer = login[l].answer
          BY <3>0, <5>2 DEF HasRead, LoginStates
        <5>3. CASE ResolveToken(l)
          BY <3>0, <5>1, <5>3 DEF ResolveToken, LoginStates
        <5>4. CASE Find(l)
          BY <3>0, <5>2, <5>4 DEF Find, LoginStates
        <5>5. CASE Register(l)
          BY <3>0, <5>1, <5>2, <5>5 DEF Register, LoginStates
        <5> QED BY <2>3, <3>1, <5>3, <5>4, <5>5 DEF LoginStep
      <4> QED BY <3>0, <4>1
    <3>2. CASE LogIn(l)
      <4> DEFINE u == login[l].id
                 account == login[l].read
      <4>1. ReadFrom(account, u)
        BY <3>2 DEF LogIn, Inv, LoginOK
      <4>2. CASE ~StoredAtVersion(u, account) /\ Answers(l, "conflict") /\ UNCHANGED users
        <5>1. login'[l] = [login[l] EXCEPT !.pc = "done", !.answer = "conflict"]
          BY <3>0, <4>2 DEF Answers
        <5>2. /\ login'[l].answer = "conflict" /\ login'[l].pc = "done"
              /\ login'[l].id = u /\ login'[l].read = account
          BY <3>0, <5>1 DEF LoginStates
        <5>3. account.version < users[u].version
          <6>1. users[u] \in Account /\ account \in Account
            BY <2>1, <4>1 DEF ReadFrom, PastOf, TypeOK
          <6> QED BY <4>1, <4>2, <6>1 DEF ReadFrom, PastOf, StoredAtVersion, Account
        <5>4. ReadFrom(account, u)'
          BY <4>1, <4>2, <5>2 DEF ReadFrom
        <5> QED BY <4>2, <5>2, <5>3, <5>4
      <4>3. CASE Answers(l, "suspended") \/ Answers(l, "ok")
        <5>1. login'[l].answer \in {"suspended", "ok"}
          BY <3>0, <4>3 DEF Answers, LoginStates
        <5> QED BY <5>1
      <4> QED BY <3>2, <4>2, <4>3 DEF LogIn
    <3> QED BY <3>1, <3>2
  <2>4. ASSUME NEW l \in Logins, LoginStep(l) PROVE LosersReadAnOlderAccount'
    <3>1. \A k \in Logins \ {l} : login'[k] = login[k]
      BY <2>1, <2>4, LoginStepTypes DEF Inv
    <3> QED BY <2>2, <2>3, <2>4, <3>1 DEF LosersReadAnOlderAccount
  <2>5. ASSUME NEW a \in Admins, AdminStep(a) PROVE LosersReadAnOlderAccount'
    <3>1. UNCHANGED login
      BY <2>5 DEF AdminStep, LoadUser, LoadGrants, Suspend, Reactivate, SetStatus, Grant, Revoke, Resolve
    <3> QED BY <2>2, <3>1 DEF LosersReadAnOlderAccount
  <2> QED BY <1>2, <2>4, <2>5 DEF Next
<1> QED BY <1>1, <1>2

\* A login that loses does so to somebody: after its read the account was written,
\* and it is never told that the subject is taken (authenticate.ts :109-131).
THEOREM LosersHaveAWinner == Spec => []LosersReadAnOlderAccount
<1>1. Init => LosersReadAnOlderAccount
  BY DEF Init, NewLogin, LosersReadAnOlderAccount
<1> QED BY <1>1, NextLosers, AccountsInvariant, PTL DEF Spec

\* Of two logins that race, one may be the winner; a loser that is turned away
\* has been overtaken by an administrator (authenticate.ts :51-52).
THEOREM LoserOfTwoIsLoggedIn ==
    ASSUME IsFiniteSet(Logins), Cardinality(Logins) <= 2
    PROVE  Spec => []LoserIsLoggedIn
<1>1. TypeOK /\ LosersReadAnOlderAccount => LoserIsLoggedIn
  <2> SUFFICES ASSUME TypeOK, LosersReadAnOlderAccount, NEW l \in Logins, login[l].answer = "conflict"
               PROVE  Cardinality({k \in Logins : login[k].answer = "ok" /\ login[k].id = login[l].id})
                         < users[login[l].id].version
    BY DEF LoserIsLoggedIn, LosersReadAnOlderAccount
  <2> DEFINE winners == {k \in Logins : login[k].answer = "ok" /\ login[k].id = login[l].id}
             others  == Logins \ {l}
  <2>1. users[login[l].id].version \in Nat /\ users[login[l].id].version >= 2
    <3>1. /\ users[login[l].id] \in Account /\ login[l].read \in Account
          /\ login[l].read.version < users[login[l].id].version
      BY DEF LosersReadAnOlderAccount, ReadFrom, PastOf, TypeOK
    <3> QED BY <3>1 DEF Account
  <2>2. IsFiniteSet(others) /\ Cardinality(others) = Cardinality(Logins) - 1
    BY FS_RemoveElement
  <2>3. winners \in SUBSET others
    OBVIOUS
  <2> HIDE DEF winners, others
  <2>4. Cardinality(winners) <= Cardinality(others) /\ IsFiniteSet(winners)
    BY <2>2, <2>3, FS_Subset
  <2>5. Cardinality(winners) \in Nat /\ Cardinality(others) \in Nat /\ Cardinality(Logins) \in Nat
    BY <2>2, <2>4, FS_CardinalityType
  <2>6. Cardinality(winners) < users[login[l].id].version
    BY <2>1, <2>2, <2>4, <2>5
  <2> QED BY <2>6 DEF winners
<1> QED BY <1>1, AccountsAreTyped, LosersHaveAWinner, PTL

-----------------------------------------------------------------------------
\* Whatever is proved of the accounts holds of them under queries, too.
THEOREM QueriesChangeNothing == QuerySpec => Spec
<1>1. QueryInit => Init
  BY DEF QueryInit
<1>2. [QueryNext]_queryVars => [Next]_vars
  BY DEF QueryNext, FindIdentity, AnswerIdentity, Meanwhile, queryVars
<1> QED BY <1>1, <1>2, PTL DEF QuerySpec, Spec

-----------------------------------------------------------------------------
\* While a query is at work its history brackets the roles its user has.
HistoryBrackets ==
    /\ query \in [pc : {"idle", "grants", "answered"}, id : Logins \cup {Absent},
                  active : BOOLEAN, roles : SUBSET Roles, ever : SUBSET Roles,
                  always : SUBSET Roles]
    /\ query.pc = "grants" =>
          /\ query.id \in Logins
          /\ query.always \subseteq grants[query.id].roles
          /\ grants[query.id].roles \subseteq query.ever

LEMMA HistoryIsKept == QuerySpec => []HistoryBrackets
<1>1. QueryInit => HistoryBrackets
  BY DEF QueryInit, NoQuery, HistoryBrackets
<1>2. HistoryBrackets /\ TypeOK /\ TypeOK' /\ [QueryNext]_queryVars => HistoryBrackets'
  <2> SUFFICES ASSUME HistoryBrackets, TypeOK, TypeOK', [QueryNext]_queryVars
               PROVE  HistoryBrackets'
    OBVIOUS
  <2>1. /\ \A u \in Logins : grants[u].roles \subseteq Roles
        /\ \A u \in Logins : grants'[u].roles \subseteq Roles
    BY DEF TypeOK, Root
  <2>2. ASSUME NEW u \in Logins, FindIdentity(u) PROVE HistoryBrackets'
    <3>1. (users[u].status = "Active") \in BOOLEAN
      OBVIOUS
    <3> QED BY <2>1, <2>2, <3>1 DEF FindIdentity, HistoryBrackets, vars
  <2>3. CASE AnswerIdentity
    BY <2>1, <2>3 DEF AnswerIdentity, Forgotten, HistoryBrackets, vars
  <2>4. CASE Meanwhile
    <3>1. CASE query.pc # "grants"
      BY <2>4, <3>1 DEF Meanwhile, HistoryBrackets
    <3>2. CASE query.pc = "grants"
      <4>1. query.id \in Logins /\ grants'[query.id].roles \subseteq Roles
        BY <2>1, <3>2 DEF HistoryBrackets
      <4>2. query' = [query EXCEPT !.ever = @ \cup grants'[query.id].roles,
                                   !.always = @ \cap grants'[query.id].roles]
        BY <2>4, <3>2 DEF Meanwhile
      <4> QED BY <4>1, <4>2 DEF HistoryBrackets
    <3> QED BY <3>1, <3>2
  <2>5. CASE UNCHANGED queryVars
    BY <2>5 DEF queryVars, vars, HistoryBrackets
  <2> QED BY <2>2, <2>3, <2>4, <2>5 DEF QueryNext
<1> QED BY <1>1, <1>2, QueriesChangeNothing, AccountsAreTyped, PTL DEF QuerySpec

\* An answer holds no role revoked before its call and misses none that was
\* there throughout, however logins and administrators interleave with it
\* (identity-query.ts :27-33, :41-46).
THEOREM RevocationsTakeEffect == QuerySpec => AnswerIsOfTheCall
<1>1. HistoryBrackets /\ [QueryNext]_queryVars
      => (query.pc = "grants" /\ query'.pc = "answered"
            => query.always \subseteq query'.roles /\ query'.roles \subseteq query.ever)
  <2> SUFFICES ASSUME HistoryBrackets, [QueryNext]_queryVars,
                      query.pc = "grants", query'.pc = "answered"
               PROVE  query.always \subseteq query'.roles /\ query'.roles \subseteq query.ever
    OBVIOUS
  <2>1. CASE AnswerIdentity
    BY <2>1 DEF AnswerIdentity, Forgotten, HistoryBrackets
  <2>2. CASE Meanwhile
    BY <2>2 DEF Meanwhile, HistoryBrackets
  <2>3. ASSUME NEW u \in Logins, FindIdentity(u) PROVE FALSE
    BY <2>3 DEF FindIdentity
  <2>4. CASE UNCHANGED queryVars
    BY <2>4 DEF queryVars
  <2> QED BY <2>1, <2>2, <2>3, <2>4 DEF QueryNext
<1> QED BY <1>1, HistoryIsKept, PTL DEF QuerySpec, AnswerIsOfTheCall
=============================================================================
