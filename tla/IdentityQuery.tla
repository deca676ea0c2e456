----------------------------- MODULE IdentityQuery -----------------------------
(***************************************************************************)
(* IdentityQuery.findIdentity while logins and administrators go on.  It   *)
(* reads the account, awaits, and reads the grants; the in-memory unit of  *)
(* work isolates the two reads from nobody.  A query for a user who has no *)
(* account answers undefined and leaves no trace here.                     *)
(***************************************************************************)
EXTENDS IamAccounts

VARIABLE query   \* where the query is and what it has read; ever and always are
                 \* history: the roles its user has had at some time, and all the
                 \* time, since it began

queryVars == <<vars, query>>

Queries == [pc : {"idle", "grants", "answered"}, id : Logins \cup {Absent}, active : BOOLEAN,
            roles : SUBSET Roles, ever : SUBSET Roles, always : SUBSET Roles]
NoQuery == [pc |-> "idle", id |-> Absent, active |-> FALSE, roles |-> {}, ever |-> {}, always |-> {}]

QueryInit == Init /\ query = NoQuery

\* users.findById, up to the await.
FindIdentity(u) ==
    /\ query.pc # "grants" /\ users[u] # Absent
    /\ query' = [query EXCEPT !.pc = "grants", !.id = u, !.active = (users[u].status = "Active"),
                              !.ever = grants[u].roles, !.always = grants[u].roles]
    /\ UNCHANGED vars

\* The history ends with the query.
Forgotten == [query EXCEPT !.pc = "answered", !.ever = {}, !.always = {}]

\* Broken: the grants of the last answer are used again.
AnswerFromCache ==
    /\ query.pc = "grants"
    /\ query' = [Forgotten EXCEPT !.roles = IF @ # {} THEN @ ELSE grants[query.id].roles]
    /\ UNCHANGED vars

\* userRoleGrants.findByUser, and the answer.
AnswerIdentity ==
    /\ query.pc = "grants"
    /\ query' = [Forgotten EXCEPT !.roles = grants[query.id].roles]
    /\ UNCHANGED vars

\* Somebody else's step, which the history follows while the query is at work.
Meanwhile ==
    /\ Next
    /\ query' = IF query.pc # "grants" THEN query
                ELSE [query EXCEPT !.ever = @ \cup grants'[query.id].roles,
                                   !.always = @ \cap grants'[query.id].roles]

QueryNext == (\E u \in Logins : FindIdentity(u)) \/ AnswerIdentity \/ Meanwhile

QuerySpec == QueryInit /\ [][QueryNext]_queryVars

-----------------------------------------------------------------------------
\* "A role revocation takes effect on the next call" (identity-query.ts :27-33):
\* an answer has no role that was revoked before the call, and every role that
\* was there all the while, whatever is granted and revoked between its reads.
AnswerIsOfTheCall ==
    [][query.pc = "grants" /\ query'.pc = "answered"
         => query.always \subseteq query'.roles /\ query'.roles \subseteq query.ever]_queryVars
=============================================================================
