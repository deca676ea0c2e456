--------------------------- MODULE SampleCommands ---------------------------
(***************************************************************************)
(* What the sample context promises its callers: a command either happens  *)
(* as a whole or not at all.  When it happens, the row and the fact that   *)
(* announces it change in the same instant, the row moves from the version *)
(* the fact is about to the next one, and the caller was entitled to it.   *)
(***************************************************************************)
EXTENDS Naturals

CONSTANTS Ids, Scopes, Names, Absent, Nobody

VARIABLES rows, facts

vars == <<rows, facts>>

\* Who may write a row: the owning club, the owning exhibitor, either of the
\* two for a ticket, and anybody for an announcement, which has no owner.
Entitled(s, row) ==
    \/ row.club = Nobody /\ row.principal = Nobody
    \/ row.club # Nobody /\ row.club = s.club
    \/ row.kind # "item" /\ row.principal # Nobody /\ row.principal = s.principal

\* The parties an event is addressed to: the club that owns the row, or else
\* the exhibitor who does.
Addressee(row) ==
    [club |-> row.club, principal |-> IF row.club # Nobody THEN Nobody ELSE row.principal]

\* by is history: the scope the command ran under.
Fact(id, row, s) ==
    [id |-> id, version |-> row.version, name |-> row.name, owner |-> Addressee(row), by |-> s]

Init ==
    /\ rows  = [id \in Ids |-> Absent]
    /\ facts = {}

Put(id, row, s) ==
    /\ Entitled(s, row)
    /\ rows'  = [rows EXCEPT ![id] = row]
    /\ facts' = facts \cup {Fact(id, row, s)}

Create(id, s) ==
    /\ rows[id] = Absent
    /\ rows'[id] # Absent
    /\ rows'[id].version = 1
    /\ rows'[id].name \in Names
    /\ Put(id, rows'[id], s)

Rename(id, s) ==
    /\ rows[id] # Absent
    /\ \E n \in Names : Put(id, [rows[id] EXCEPT !.name = n, !.version = @ + 1], s)

Next == \E id \in Ids, s \in Scopes : Create(id, s) \/ Rename(id, s)

Spec == Init /\ [][Next]_vars
=============================================================================
