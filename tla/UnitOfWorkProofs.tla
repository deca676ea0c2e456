-------------------------- MODULE UnitOfWorkProofs --------------------------
(***************************************************************************)
(* The sample context for any number of requests, rows, scopes and clients *)
(* of the pool.  The invariant says what a transaction may rely on between *)
(* two of its statements: the row it locked stays as it found it, and the  *)
(* row it only read keeps its kind and its owner.                          *)
(***************************************************************************)
EXTENDS UnitOfWork, EventEnvelopeProofs, FiniteSetTheorems

Holding == {"outbox", "commit"}

\* A row of the table id belongs to, with the owner columns that table requires.
Owned(id, row) ==
    /\ row \in Row
    /\ id \in ItemIds => row.kind = "item" /\ row.club # Nobody
    /\ id \in NoteIds => row.kind = "note" /\ row.club = Nobody /\ row.principal # Nobody
    /\ id \in TicketIds => row.kind = "ticket" /\ row.club # Nobody /\ row.item \in ItemIds
    /\ id \in AnnouncementIds
           => row.kind = "announcement" /\ row.club = Nobody /\ row.principal = Nobody

\* What no command changes of a row.
SameAggregate(old, new) ==
    /\ new.kind = old.kind
    /\ new.club = old.club
    /\ new.principal = old.principal
    /\ new.item = old.item

OfItemsClub(id, row) ==
    id \in TicketIds => rows[row.item] # Absent /\ row.club = rows[row.item].club

NewRow(t) ==
    /\ t.op = "add"
    /\ Owned(t.id, t.row)
    /\ t.row.version = 1
    /\ OfItemsClub(t.id, t.row)

\* A row read and renamed in memory, nothing written.
ReadRow(t) ==
    /\ t.op = "update"
    /\ Owned(t.id, t.row)
    /\ MayRead(t.scope, t.row)
    /\ rows[t.id] # Absent
    /\ SameAggregate(rows[t.id], t.row)

\* The row written and locked: still unseen by others, and still the one the
\* statement matched.
LockedRow(t) ==
    /\ MayWrite(t.scope, t.row)
    /\ \/ NewRow(t) /\ rows[t.id] = Absent
       \/ ReadRow(t) /\ rows[t.id].version = t.row.version

\* What the body of a use case captured before its transaction began.
Captured(t) ==
    \/ t.op = "update"
    \/ t.op = "add" /\ t.item # Nobody /\ t.id \in TicketIds
    \/ t.item = Nobody /\ NewRow(t)

TxOK(r) ==
    LET t == tx[r] IN
    /\ pc[r] # "idle" => t.id \in Ids /\ t.scope \in Scopes
    /\ pc[r] = "connect" => Captured(t)
    /\ pc[r] = "find" => t.op = "update"
    /\ pc[r] = "findItem" => t.op = "add" /\ t.item \in ItemIds /\ t.id \in TicketIds
    /\ pc[r] = "add" => NewRow(t)
    /\ pc[r] = "update" => ReadRow(t)
    /\ pc[r] \in Holding => LockedRow(t)
    /\ pc[r] = "commit" => t.seq \in Nat \ {0}

OneHolder ==
    \A q, r \in Requests : q # r /\ pc[q] \in Holding /\ pc[r] \in Holding => tx[q].id # tx[r].id

StoredOK(id) == rows[id] # Absent => Owned(id, rows[id]) /\ OfItemsClub(id, rows[id])

FactOf(id, row, version, payload) ==
    [class |-> Class(row.kind, IF version = 1 THEN "created" ELSE "renamed"),
     scope |-> EventScope(row), aggregate |-> id, payload |-> payload]

EventOK(e) ==
    LET id == e.stored.aggregate IN
    /\ id \in Ids
    /\ rows[id] # Absent
    /\ e.stored.payload \in [name : GoodNames]
    /\ e.stored = OutboxColumns(FactOf(id, rows[id], e.version, e.stored.payload))

Inv ==
    /\ TypeOK
    /\ \A r \in Requests : TxOK(r)
    /\ OneHolder
    /\ \A id \in Ids : StoredOK(id)
    /\ \A e \in outbox : EventOK(e)

USE PoolAssumption, CallsAssumption, BlankAssumption, KindsAreDisjoint, NobodyAssumption,
    AbsentAssumption

\* The initial state satisfies the invariant: nothing is stored.
LEMMA InitInv == Init => Inv
BY DEF Init, Inv, TypeOK, TxOK, OneHolder, StoredOK, EventOK, Holding, NoTransaction, NoAnswer, Answers,
       Transactions, Statements, Outcomes

-----------------------------------------------------------------------------
(* What a row's kind and owner decide.                                     *)

LEMMA SameAccess ==
    ASSUME NEW s, NEW old, NEW new, SameAggregate(old, new)
    PROVE  /\ MayRead(s, old) <=> MayRead(s, new)
           /\ MayWrite(s, old) <=> MayWrite(s, new)
           /\ EventScope(old) = EventScope(new)
<1>1. new.kind = old.kind /\ new.club = old.club /\ new.principal = old.principal
  BY DEF SameAggregate
<1>2. EventScope(old) = EventScope(new)
  BY <1>1 DEF EventScope
<1>3. MayRead(s, old) <=> MayRead(s, new)
  BY <1>1 DEF MayRead, ItemReadPolicy, NotePolicy, TicketPolicy
<1>4. MayWrite(s, old) <=> MayWrite(s, new)
  BY <1>1 DEF MayWrite, ItemWritePolicy, NotePolicy, TicketPolicy
<1>. QED
  BY <1>2, <1>3, <1>4

\* The scope a row gives its facts is one the codec can give back.
LEMMA OwnedRowsHaveScopes ==
    ASSUME NEW id \in Ids, NEW row, Owned(id, row)
    PROVE  /\ EventScope(row) \in EventScopesOf(Clubs \cup Principals)
           /\ row.kind \in {"item", "note", "ticket", "announcement"}
<1>1. row \in Row /\ row.kind \in {"item", "note", "ticket", "announcement"}
  BY DEF Owned, Row
<1>2. row.club \in Clubs \cup {Nobody} /\ row.principal \in Principals \cup {Nobody}
  BY <1>1 DEF Row
<1>3. CASE id \in ItemIds \cup TicketIds
  BY <1>2, <1>3 DEF Owned, EventScope, EventScopesOf, ClubScope
<1>4. CASE id \in NoteIds
  BY <1>2, <1>4 DEF Owned, EventScope, EventScopesOf, ExhibitorScope
<1>5. CASE id \in AnnouncementIds
  BY <1>5 DEF Owned, EventScope, EventScopesOf, PlatformScope
<1>. QED
  BY <1>1, <1>3, <1>4, <1>5 DEF Ids

\* The columns of a fact are columns of the table.
LEMMA FactColumns ==
    ASSUME NEW id \in Ids, NEW row, Owned(id, row), NEW version \in Nat,
           NEW payload \in [name : GoodNames]
    PROVE  OutboxColumns(FactOf(id, row, version, payload)) \in OutboxRows
<1> DEFINE fact == FactOf(id, row, version, payload)
<1>1. /\ fact.scope \in EventScopesOf(Clubs \cup Principals)
      /\ fact.class \in Classes
  BY OwnedRowsHaveScopes DEF FactOf, Classes, Class
<1>2. EventType(fact.class) \in RegisteredTypes
  BY <1>1, ClassOfItsType
<1>3. /\ fact.scope.kind \in {"club", "exhibitor", "platform"}
      /\ OwnerColumns(fact.scope).club \in Clubs \cup {Nobody}
      /\ OwnerColumns(fact.scope).principal \in Principals \cup {Nobody}
  <2>1. row.club \in Clubs \cup {Nobody} /\ row.principal \in Principals \cup {Nobody}
    BY DEF Owned, Row
  <2>2. fact.scope = EventScope(row)
    BY DEF FactOf
  <2>. QED
    BY <2>1, <2>2, OwnedRowsHaveScopes
       DEF EventScope, OwnerColumns, ClubScope, ExhibitorScope, PlatformScope
<1>4. fact.aggregate = id /\ fact.payload = payload
  BY DEF FactOf
<1>. QED
  BY <1>2, <1>3, <1>4 DEF OutboxColumns, OutboxRows

-----------------------------------------------------------------------------
(* Steps of one request that leave the tables and the outbox alone.        *)

\* Only r's statement and transaction move, and r takes no row another holds.
StepOf(r) ==
    /\ UNCHANGED <<rows, outbox>>
    /\ \A q \in Requests \ {r} : pc'[q] = pc[q] /\ tx'[q] = tx[q]
    /\ pc'[r] \in Holding =>
           /\ tx'[r].id = tx[r].id
           /\ pc[r] \in Holding \/ RowIsFree(r)

LEMMA QuietStep ==
    ASSUME Inv, NEW r \in Requests, StepOf(r), TypeOK', TxOK(r)'
    PROVE  Inv'
<1>1. rows' = rows /\ outbox' = outbox
  BY DEF StepOf
<1>2. ASSUME NEW q \in Requests PROVE TxOK(q)'
  <2>1. CASE q = r
    BY <2>1
  <2>2. CASE q # r
    <3>1. pc'[q] = pc[q] /\ tx'[q] = tx[q]
      BY <2>2 DEF StepOf
    <3>. QED
      BY <1>1, <3>1 DEF Inv, TxOK, Captured, NewRow, ReadRow, LockedRow, OfItemsClub
  <2>. QED
    BY <2>1, <2>2
<1>3. OneHolder'
  <2>. SUFFICES ASSUME NEW p \in Requests, NEW q \in Requests, p # q,
                       pc'[p] \in Holding, pc'[q] \in Holding
                PROVE  tx'[p].id # tx'[q].id
    BY DEF OneHolder
  <2>1. CASE p # r /\ q # r
    BY <2>1 DEF Inv, OneHolder, StepOf
  <2>2. ASSUME NEW o \in Requests, o # r, pc'[o] \in Holding, pc'[r] \in Holding
        PROVE  tx'[r].id # tx'[o].id
    <3>1. pc[o] \in Holding /\ tx'[o] = tx[o] /\ tx'[r].id = tx[r].id
      BY <2>2 DEF StepOf
    <3>2. CASE pc[r] \in Holding
      BY <2>2, <3>1, <3>2 DEF Inv, OneHolder
    <3>3. CASE RowIsFree(r)
      BY <2>2, <3>1, <3>3 DEF RowIsFree, HoldsRow, Holding
    <3>. QED
      BY <2>2, <3>2, <3>3 DEF StepOf
  <2>. QED
    BY <2>1, <2>2
<1>4. ASSUME NEW id \in Ids PROVE StoredOK(id)'
  BY <1>1 DEF Inv, StoredOK, OfItemsClub
<1>5. ASSUME NEW e \in outbox' PROVE EventOK(e)'
  BY <1>1 DEF Inv, EventOK
<1>. QED
  BY <1>2, <1>3, <1>4, <1>5 DEF Inv

\* A use case starts a transaction on what the arguments allow.
LEMMA RunStep ==
    ASSUME Inv, NEW r \in Requests, NEW s \in Scopes, NEW t \in Transactions,
           Run(r, s, t), t.id \in Ids, Captured(t)
    PROVE  Inv'
<1> DEFINE u == [t EXCEPT !.scope = s, !.call = calls + 1]
<1>1. /\ pc' = [pc EXCEPT ![r] = "connect"] /\ tx' = [tx EXCEPT ![r] = u]
      /\ calls' = calls + 1 /\ calls < MaxCalls
      /\ UNCHANGED <<rows, outbox, nextSeq, answer>>
  BY DEF Run, Call
<1>2. /\ u \in Transactions
      /\ u.id = t.id /\ u.op = t.op /\ u.item = t.item /\ u.row = t.row /\ u.scope = s
  <2>1. calls + 1 \in Nat
    BY DEF Inv, TypeOK
  <2> DEFINE v == [t EXCEPT !.scope = s]
  <2>2. /\ v \in Transactions
        /\ v.id = t.id /\ v.op = t.op /\ v.item = t.item /\ v.row = t.row /\ v.scope = s
    BY DEF Transactions
  <2>3. u = [v EXCEPT !.call = calls + 1]
    BY Zenon
  <2>. HIDE DEF v
  <2>. QED
    BY <2>1, <2>2, <2>3 DEF Transactions
<1>3. TypeOK'
  BY <1>1, <1>2 DEF Inv, TypeOK, Statements
<1>4. pc'[r] = "connect" /\ tx'[r] = u
  BY <1>1 DEF Inv, TypeOK
<1>5. TxOK(r)'
  BY <1>1, <1>2, <1>4 DEF TxOK, Captured, NewRow, OfItemsClub, Holding
<1>6. StepOf(r)
  BY <1>1, <1>4 DEF StepOf, Holding, Inv, TypeOK
<1>. QED
  BY <1>3, <1>5, <1>6, QuietStep

\* An answer without a transaction.
LEMMA RefuseStep ==
    ASSUME Inv, NEW r \in Requests, NEW outcome \in Outcomes, Refuse(r, outcome)
    PROVE  Inv'
<1>1. TypeOK'
  <2>1. calls \in 0..MaxCalls /\ calls' = calls + 1 /\ calls < MaxCalls
    BY DEF Inv, TypeOK, Refuse, Call
  <2>2. calls' \in 0..MaxCalls /\ calls + 1 \in Nat
    BY <2>1
  <2>3. [NoAnswer EXCEPT !.outcome = outcome, !.call = calls + 1] \in Answers
    BY <2>2 DEF NoAnswer, Answers
  <2>. QED
    BY <2>2, <2>3 DEF Inv, TypeOK, Refuse
<1>2. StepOf(r) /\ TxOK(r)'
  BY DEF Inv, Refuse, Call, StepOf, TxOK, Holding
<1>. QED
  BY <1>1, <1>2, QuietStep

\* A transaction that rolls back.
LEMMA RollBackStep ==
    ASSUME Inv, NEW r \in Requests, NEW a \in Answers, RollBack(r, a)
    PROVE  Inv'
<1>1. tx[r].call \in Nat
  BY DEF Inv, TypeOK, Transactions
<1>2. NoTransaction \in Transactions
  BY DEF NoTransaction, Transactions
<1>3. TypeOK'
  BY <1>1, <1>2 DEF Inv, TypeOK, RollBack, Finish, Statements, Answers
<1>4. pc'[r] = "idle"
  BY DEF Inv, TypeOK, RollBack, Finish
<1>5. StepOf(r)
  BY <1>4 DEF StepOf, RollBack, Finish, Inv, TypeOK, Holding
<1>6. TxOK(r)'
  BY <1>4 DEF TxOK, Holding
<1>. QED
  BY <1>3, <1>5, <1>6, QuietStep

LEMMA FailsStep ==
    ASSUME Inv, NEW r \in Requests, NEW outcome \in Outcomes, Fails(r, outcome)
    PROVE  Inv'
<1>1. [NoAnswer EXCEPT !.outcome = outcome] \in Answers
  BY DEF NoAnswer, Answers
<1>. QED
  BY <1>1, RollBackStep DEF Fails

\* A statement that goes on with a row in memory.
LEMMA ProceedStep ==
    ASSUME Inv, NEW r \in Requests, NEW next \in Statements, NEW row \in Row \cup {Absent},
           pc[r] # "idle", Proceed(r, next, row), next # "idle",
           next \in Holding => RowIsFree(r),
           LET t == [tx[r] EXCEPT !.row = row] IN
           \/ next = "add" /\ NewRow(t)
           \/ next = "update" /\ ReadRow(t)
           \/ next = "outbox" /\ LockedRow(t)
    PROVE  Inv'
<1> DEFINE t == [tx[r] EXCEPT !.row = row]
<1>1. /\ pc' = [pc EXCEPT ![r] = next] /\ tx' = [tx EXCEPT ![r] = t]
      /\ UNCHANGED <<rows, outbox, nextSeq, answer, calls>>
  BY DEF Proceed
<1>2. t \in Transactions /\ t.id = tx[r].id /\ t.scope = tx[r].scope
  <2>1. tx[r] \in Transactions
    BY DEF Inv, TypeOK
  <2>. QED
    BY ONLY <2>1, row \in Row \cup {Absent} DEF Transactions
<1>3. TypeOK'
  BY <1>1, <1>2 DEF Inv, TypeOK
<1>4. pc'[r] = next /\ tx'[r] = t
  BY <1>1 DEF Inv, TypeOK
<1>5. tx[r].id \in Ids /\ tx[r].scope \in Scopes
  BY DEF Inv, TxOK
<1>6. TxOK(r)'
  BY <1>1, <1>2, <1>4, <1>5
     DEF TxOK, NewRow, ReadRow, LockedRow, OfItemsClub, Holding
<1>7. StepOf(r)
  BY <1>1, <1>2, <1>4 DEF StepOf, Inv, TypeOK
<1>. QED
  BY <1>3, <1>6, <1>7, QuietStep

-----------------------------------------------------------------------------
(* The use cases and the statements before COMMIT.                         *)

LEMMA ScopeFields ==
    ASSUME NEW s \in Scopes
    PROVE  /\ s.club \in Clubs /\ s.principal \in Principals
           /\ s.kind = "club" => s.club # Nobody
           /\ s.kind # "platform" => s.principal # Nobody
BY ScopesAssumption DEF Clubs, Principals

\* A use case begins a transaction on what its arguments allow, or refuses them.
Starts(r) ==
    \/ \E s \in Scopes, t \in Transactions : Run(r, s, t) /\ t.id \in Ids /\ Captured(t)
    \/ \E outcome \in {"scopeMismatch", "invalidName"} : Refuse(r, outcome)

LEMMA UpdateBegins ==
    ASSUME Inv, NEW r \in Requests, NEW id \in Ids, NEW s \in Scopes, NEW name \in Names,
           RunRename(r, id, s, name)
    PROVE  Starts(r)
<1> DEFINE t == [NoTransaction EXCEPT !.op = "update", !.id = id, !.name = name]
<1>1. t \in Transactions /\ t.id \in Ids /\ t.op = "update"
  BY DEF NoTransaction, Transactions
<1>2. Run(r, s, t)
  BY DEF RunRename
<1>3. Captured(t)
  BY <1>1 DEF Captured
<1>. HIDE DEF t
<1>. QED
  BY <1>1, <1>2, <1>3 DEF Starts

LEMMA AddBegins ==
    ASSUME Inv, NEW r \in Requests, NEW id \in Ids \ TicketIds, NEW s \in Scopes, NEW row,
           Owned(id, row), row.version = 1, RunAdd(r, id, s, row)
    PROVE  Starts(r)
<1> DEFINE t == [NoTransaction EXCEPT !.op = "add", !.id = id, !.row = row, !.name = row.name]
<1>1. row \in Row /\ row.name \in Names
  BY DEF Owned, Row, GoodNames
<1>2. /\ t \in Transactions /\ t.id = id /\ t.op = "add" /\ t.row = row /\ t.item = Nobody
  BY <1>1 DEF NoTransaction, Transactions
<1>3. Run(r, s, t)
  BY DEF RunAdd
<1>. HIDE DEF t
<1>4. Captured(t)
  BY <1>2 DEF Captured, NewRow, OfItemsClub
<1>. QED
  BY <1>2, <1>3, <1>4 DEF Starts

LEMMA TicketBegins ==
    ASSUME Inv, NEW r \in Requests, NEW id \in TicketIds, NEW s \in Scopes,
           NEW item \in ItemIds, NEW name \in Names, CreateTicket(r, id, s, item, name)
    PROVE  Starts(r)
<1> DEFINE t == [NoTransaction EXCEPT !.op = "add", !.id = id, !.item = item, !.name = name]
<1>1. t \in Transactions /\ t.id = id /\ t.op = "add" /\ t.item = item
  BY DEF NoTransaction, Transactions, Ids
<1>2. t.item # Nobody /\ id \in Ids
  BY <1>1 DEF Ids
<1>3. CASE s.kind = "platform"
  BY <1>3 DEF CreateTicket, Starts
<1>4. CASE s.kind # "platform"
  <2>1. Run(r, s, t)
    BY <1>4 DEF CreateTicket
  <2>. HIDE DEF t
  <2>2. Captured(t)
    BY <1>1, <1>2 DEF Captured
  <2>. QED
    BY <1>1, <1>2, <2>1, <2>2 DEF Starts
<1>. QED
  BY <1>3, <1>4

LEMMA UseCaseStarts ==
    ASSUME Inv, NEW r \in Requests, UseCase(r)
    PROVE  Starts(r)
<1>1. PICK s \in Scopes, name \in Names :
        \/ \E id \in ItemIds : CreateItem(r, id, s, name) \/ RenameItem(r, id, s, name)
        \/ \E id \in NoteIds : CreateNote(r, id, s, name) \/ RenameNote(r, id, s, name)
        \/ \E id \in TicketIds : \/ \E item \in ItemIds : CreateTicket(r, id, s, item, name)
                                 \/ RenameTicket(r, id, s, name)
        \/ \E id \in AnnouncementIds :
               CreateAnnouncement(r, id, s, name) \/ RenameAnnouncement(r, id, s, name)
  BY DEF UseCase
<1>2. ASSUME NEW outcome \in {"scopeMismatch", "invalidName"}, Refuse(r, outcome)
      PROVE  Starts(r)
  BY <1>2 DEF Starts
<1>3. ASSUME NEW id \in ItemIds, CreateItem(r, id, s, name) PROVE Starts(r)
  <2>1. CASE s.kind = "club" /\ name # Blank
    <3> DEFINE row == Item(s.club, s.principal, name)
    <3>1. Owned(id, row) /\ row.version = 1
      BY <2>1, ScopeFields DEF Item, Owned, Row, GoodNames
    <3>2. RunAdd(r, id, s, row) /\ id \in Ids \ TicketIds
      BY <1>3, <2>1 DEF CreateItem, Ids
    <3>. HIDE DEF row
    <3>. QED
      BY <3>1, <3>2, AddBegins
  <2>. QED
    BY <1>2, <1>3, <2>1 DEF CreateItem
<1>4. ASSUME NEW id \in NoteIds, CreateNote(r, id, s, name) PROVE Starts(r)
  <2>1. CASE s.kind # "platform" /\ name # Blank
    <3> DEFINE row == Note(s.principal, name)
    <3>1. Owned(id, row) /\ row.version = 1
      BY <2>1, ScopeFields DEF Note, Owned, Row, GoodNames
    <3>2. RunAdd(r, id, s, row) /\ id \in Ids \ TicketIds
      BY <1>4, <2>1 DEF CreateNote, Ids
    <3>. HIDE DEF row
    <3>. QED
      BY <3>1, <3>2, AddBegins
  <2>. QED
    BY <1>2, <1>4, <2>1 DEF CreateNote
<1>5. ASSUME NEW id \in AnnouncementIds, CreateAnnouncement(r, id, s, name) PROVE Starts(r)
  <2>1. CASE name # Blank
    <3> DEFINE row == Announcement(name)
    <3>1. Owned(id, row) /\ row.version = 1
      BY <2>1 DEF Announcement, Owned, Row, GoodNames
    <3>2. RunAdd(r, id, s, row) /\ id \in Ids \ TicketIds
      BY <1>5, <2>1 DEF CreateAnnouncement, Ids
    <3>. HIDE DEF row
    <3>. QED
      BY <3>1, <3>2, AddBegins
  <2>. QED
    BY <1>2, <1>5, <2>1 DEF CreateAnnouncement
<1>6. ASSUME NEW id \in Ids, RunRename(r, id, s, name) PROVE Starts(r)
  BY <1>6, UpdateBegins
<1>. QED
  BY <1>1, <1>3, <1>4, <1>5, <1>6, TicketBegins
     DEF RenameItem, RenameNote, RenameTicket, RenameAnnouncement, Ids

LEMMA UseCaseStep ==
    ASSUME Inv, NEW r \in Requests, UseCase(r)
    PROVE  Inv'
BY UseCaseStarts, RunStep, RefuseStep DEF Starts, Outcomes

LEMMA ConnectStep ==
    ASSUME Inv, NEW r \in Requests, Connect(r)
    PROVE  Inv'
<1>1. /\ pc[r] = "connect" /\ pc' = [pc EXCEPT ![r] = FirstStatement(tx[r])]
      /\ UNCHANGED <<rows, outbox, nextSeq, tx, answer, calls>>
  BY DEF Connect
<1>2. FirstStatement(tx[r]) \in {"find", "findItem", "add"}
  BY DEF FirstStatement
<1>3. TypeOK'
  BY <1>1, <1>2 DEF Inv, TypeOK, Statements
<1>4. pc'[r] = FirstStatement(tx[r]) /\ tx'[r] = tx[r]
  BY <1>1 DEF Inv, TypeOK
<1>5. TxOK(r) /\ tx[r].item \in ItemIds \cup {Nobody}
  BY DEF Inv, TypeOK, Transactions
<1>6. TxOK(r)'
  <2>1. tx[r].id \in Ids /\ tx[r].scope \in Scopes /\ Captured(tx[r])
    BY <1>1, <1>5 DEF TxOK
  <2>2. CASE tx[r].op = "update"
    BY <1>1, <1>4, <2>1, <2>2 DEF TxOK, FirstStatement, Holding
  <2>3. CASE tx[r].op # "update" /\ tx[r].item # Nobody
    BY <1>1, <1>4, <1>5, <2>1, <2>3 DEF TxOK, FirstStatement, Holding, Captured
  <2>4. CASE tx[r].op # "update" /\ tx[r].item = Nobody
    BY <1>1, <1>4, <2>1, <2>4 DEF TxOK, FirstStatement, Holding, Captured, NewRow, OfItemsClub
  <2>. QED
    BY <2>2, <2>3, <2>4
<1>7. StepOf(r)
  BY <1>1, <1>2, <1>4 DEF StepOf, Holding, Inv, TypeOK
<1>. QED
  BY <1>3, <1>6, <1>7, QuietStep

LEMMA FindStep ==
    ASSUME Inv, NEW r \in Requests, Find(r)
    PROVE  Inv'
<1> DEFINE stored == rows[tx[r].id]
           row == [stored EXCEPT !.name = tx[r].name]
<1>1. /\ pc[r] = "find" /\ tx[r].id \in Ids /\ tx[r].op = "update" /\ tx[r].name \in Names
      /\ tx[r] \in Transactions
  BY DEF Find, Inv, TxOK, TypeOK, Transactions
<1>2. CASE ~Visible(r, tx[r].id) \/ tx[r].name = Blank
  BY <1>2, FailsStep DEF Find, Outcomes
<1>3. CASE Visible(r, tx[r].id) /\ tx[r].name # Blank
  <2>1. Owned(tx[r].id, stored) /\ stored # Absent /\ MayRead(tx[r].scope, stored)
    BY <1>1, <1>3 DEF Inv, StoredOK, Visible
  <2>2. stored \in Row /\ tx[r].name \in GoodNames
    BY <1>1, <1>3, <2>1 DEF Owned, GoodNames
  <2>3. row \in Row /\ SameAggregate(stored, row)
    BY <2>2 DEF Row, SameAggregate
  <2>4. Proceed(r, "update", row)
    BY <1>3 DEF Find
  <2>5. Owned(tx[r].id, row) /\ MayRead(tx[r].scope, row)
    BY <2>1, <2>3, SameAccess DEF Owned, SameAggregate
  <2>. DEFINE t == [tx[r] EXCEPT !.row = row]
  <2>6. t.op = "update" /\ t.id = tx[r].id /\ t.row = row /\ t.scope = tx[r].scope
    BY <1>1 DEF Transactions
  <2>7. ReadRow(t)
    <3>. HIDE DEF t, row
    <3>. QED
      BY <2>1, <2>3, <2>5, <2>6 DEF ReadRow
  <2>. HIDE DEF row
  <2>. QED
    BY <1>1, <2>3, <2>4, <2>7, ProceedStep DEF Statements, Holding
<1>. QED
  BY <1>2, <1>3

LEMMA FindItemStep ==
    ASSUME Inv, NEW r \in Requests, FindItem(r)
    PROVE  Inv'
<1> DEFINE t == tx[r]
           row == Ticket(rows[t.item].club, t.scope.principal, t.item, t.name)
<1>1. /\ pc[r] = "findItem" /\ t.id \in TicketIds /\ t.op = "add" /\ t.item \in ItemIds
      /\ t.scope \in Scopes /\ t.name \in Names /\ t \in Transactions
  BY DEF FindItem, Inv, TxOK, TypeOK, Transactions
<1>2. CASE ~Visible(r, t.item) \/ t.name = Blank
  BY <1>2, FailsStep DEF FindItem, Outcomes
<1>3. CASE Visible(r, t.item) /\ t.name # Blank
  <2>1. rows[t.item] # Absent /\ Owned(t.item, rows[t.item]) /\ t.item \in Ids
    BY <1>1, <1>3 DEF Inv, StoredOK, Visible, Ids
  <2>2. /\ rows[t.item].club \in Clubs \cup {Nobody} /\ rows[t.item].club # Nobody
        /\ t.scope.principal \in Principals /\ t.name \in GoodNames
    BY <1>1, <1>3, <2>1, ScopeFields DEF Owned, Row, GoodNames
  <2>3. row.version = 1 /\ row.item = t.item /\ row.club = rows[t.item].club
    BY DEF Ticket
  <2>4. Owned(t.id, row)
    BY <1>1, <2>2 DEF Ticket, Owned, Row
  <2>5. Proceed(r, "add", row)
    BY <1>3 DEF FindItem
  <2>. DEFINE u == [tx[r] EXCEPT !.row = row]
  <2>6. u.op = "add" /\ u.id = t.id /\ u.row = row
    BY <1>1 DEF Transactions
  <2>7. NewRow(u)
    <3>. HIDE DEF u, row
    <3>. QED
      BY <2>1, <2>3, <2>4, <2>6 DEF NewRow, OfItemsClub
  <2>8. row \in Row
    BY <2>4 DEF Owned
  <2>. HIDE DEF row
  <2>. QED
    BY <1>1, <2>5, <2>7, <2>8, ProceedStep DEF Statements, Holding
<1>. QED
  BY <1>2, <1>3

\* A transaction that keeps its row keeps it as it is.
LEMMA SameTransaction ==
    ASSUME NEW t \in Transactions
    PROVE  [t EXCEPT !.row = t.row] = t
BY DEF Transactions

LEMMA AddStep ==
    ASSUME Inv, NEW r \in Requests, Add(r)
    PROVE  Inv'
<1>1. /\ pc[r] = "add" /\ RowIsFree(r) /\ NewRow(tx[r]) /\ tx[r] \in Transactions
      /\ tx[r].row \in Row
  BY DEF Add, Inv, TxOK, TypeOK, NewRow, Owned
<1>2. CASE rows[tx[r].id] = Absent /\ MayWrite(tx[r].scope, tx[r].row)
  <2>1. Proceed(r, "outbox", tx[r].row) /\ LockedRow(tx[r])
    BY <1>1, <1>2 DEF Add, LockedRow
  <2>. QED
    BY <1>1, <2>1, SameTransaction, ProceedStep DEF Statements
<1>3. CASE ~(rows[tx[r].id] = Absent /\ MayWrite(tx[r].scope, tx[r].row))
  BY <1>3, FailsStep DEF Add, Outcomes
<1>. QED
  BY <1>2, <1>3

LEMMA UpdateStep ==
    ASSUME Inv, NEW r \in Requests, Update(r)
    PROVE  Inv'
<1> DEFINE stored == rows[tx[r].id]
<1>1. /\ pc[r] = "update" /\ RowIsFree(r) /\ ReadRow(tx[r]) /\ tx[r] \in Transactions
      /\ tx[r].row \in Row /\ tx[r].id \in Ids
  BY DEF Update, Inv, TxOK, TypeOK, ReadRow, Owned
<1>2. stored \in Row
  BY <1>1 DEF Inv, StoredOK, ReadRow, Owned
<1>3. CASE Matches(r)
  <2>1. MayWrite(tx[r].scope, tx[r].row) /\ stored.version = tx[r].row.version
    BY <1>1, <1>3, SameAccess DEF Matches, ReadRow
  <2>2. Proceed(r, "outbox", tx[r].row) /\ LockedRow(tx[r])
    BY <1>1, <1>3, <2>1 DEF Update, LockedRow
  <2>. QED
    BY <1>1, <2>2, SameTransaction, ProceedStep DEF Statements
<1>4. CASE ~Matches(r)
  <2> DEFINE a == [NoAnswer EXCEPT !.outcome = "conflict", !.expected = tx[r].row.version,
                                   !.stored = stored.version,
                                   !.id = tx[r].id, !.scope = tx[r].scope]
  <2>1. /\ tx[r].row.version \in Nat /\ stored.version \in Nat
        /\ tx[r].scope \in Scopes \cup {Absent}
    BY <1>1, <1>2 DEF Row, Transactions
  <2>2. a \in Answers
    BY <1>1, <2>1 DEF NoAnswer, Answers, Outcomes
  <2>3. RollBack(r, a)
    BY <1>4 DEF Update
  <2>. HIDE DEF a
  <2>. QED
    BY <2>2, <2>3, RollBackStep
<1>. QED
  BY <1>3, <1>4

LEMMA WriteOutboxStep ==
    ASSUME Inv, NEW r \in Requests, WriteOutbox(r)
    PROVE  Inv'
<1> DEFINE t == [tx[r] EXCEPT !.seq = nextSeq]
<1>1. /\ pc[r] = "outbox" /\ pc' = [pc EXCEPT ![r] = "commit"] /\ tx' = [tx EXCEPT ![r] = t]
      /\ nextSeq' = nextSeq + 1 /\ UNCHANGED <<rows, outbox, answer, calls>>
  BY DEF WriteOutbox
<1>2. /\ tx[r] \in Transactions /\ nextSeq \in Nat \ {0} /\ LockedRow(tx[r])
      /\ tx[r].id \in Ids /\ tx[r].scope \in Scopes
  BY <1>1 DEF Inv, TypeOK, TxOK, Holding
<1>3. /\ t \in Transactions /\ t.seq = nextSeq /\ t.id = tx[r].id /\ t.op = tx[r].op
      /\ t.row = tx[r].row /\ t.scope = tx[r].scope
  BY <1>2 DEF Transactions
<1>. HIDE DEF t
<1>4. TypeOK'
  BY <1>1, <1>2, <1>3 DEF Inv, TypeOK, Statements
<1>5. pc'[r] = "commit" /\ tx'[r] = t
  BY <1>1 DEF Inv, TypeOK
<1>6. TxOK(r)'
  BY <1>1, <1>2, <1>3, <1>5 DEF TxOK, Holding, LockedRow, NewRow, ReadRow, OfItemsClub
<1>7. StepOf(r)
  BY <1>1, <1>3, <1>5 DEF StepOf, Holding, Inv, TypeOK
<1>. QED
  BY <1>4, <1>6, <1>7, QuietStep

-----------------------------------------------------------------------------
(* COMMIT.                                                                 *)

\* What the tables and the outbox gain when the transaction of r commits.
Lands(r) ==
    /\ rows' = [rows EXCEPT ![tx[r].id] = Written(tx[r])]
    /\ outbox' = outbox \cup {OutboxRow(tx[r])}

\* The row that goes in: the first one of its id, or the successor of the
\* stored one.
LEMMA WrittenRow ==
    ASSUME Inv, NEW r \in Requests, pc[r] = "commit"
    PROVE  LET id == tx[r].id
               new == Written(tx[r]) IN
           /\ Owned(id, new) /\ new # Absent
           /\ SameAggregate(tx[r].row, new)
           /\ new.name = tx[r].row.name
           /\ MayWrite(tx[r].scope, new)
           /\ OfItemsClub(id, new)
           /\ \/ tx[r].op = "add" /\ rows[id] = Absent /\ new.version = 1
              \/ /\ tx[r].op = "update" /\ rows[id] # Absent
                 /\ SameAggregate(rows[id], new)
                 /\ new.version = rows[id].version + 1 /\ new.version # 1
<1> DEFINE t == tx[r]
           new == Written(t)
<1>1. LockedRow(t) /\ t.id \in Ids /\ t.row \in Row
  BY DEF Inv, TxOK, Holding, LockedRow, NewRow, ReadRow, Owned
<1>2. CASE NewRow(t) /\ rows[t.id] = Absent
  <2>1. new = t.row
    BY <1>2 DEF NewRow, Written
  <2>. QED
    BY <1>1, <1>2, <2>1 DEF NewRow, LockedRow, SameAggregate, Owned
<1>3. CASE ReadRow(t) /\ rows[t.id].version = t.row.version
  <2>1. new = [t.row EXCEPT !.version = @ + 1]
    BY <1>3 DEF ReadRow, Written
  <2>2. /\ new \in Row /\ SameAggregate(t.row, new) /\ new.name = t.row.name
        /\ new.version = t.row.version + 1 /\ new.version # 1
    BY <1>1, <2>1 DEF Row, SameAggregate
  <2>. HIDE DEF new
  <2>3. Owned(t.id, new)
    BY <1>3, <2>2 DEF ReadRow, Owned, SameAggregate
  <2>4. MayWrite(t.scope, new)
    BY <1>1, <2>2, SameAccess DEF LockedRow
  <2>5. SameAggregate(rows[t.id], new) /\ rows[t.id] # Absent
    BY <1>3, <2>2 DEF ReadRow, SameAggregate
  <2>6. OfItemsClub(t.id, rows[t.id])
    BY <1>1, <2>5 DEF Inv, StoredOK
  <2>7. OfItemsClub(t.id, new)
    BY <2>5, <2>6 DEF OfItemsClub, SameAggregate
  <2>. QED
    <3>1. t.op = "update" /\ new.version = rows[t.id].version + 1 /\ new # Absent
      BY <1>3, <2>2, <2>3 DEF ReadRow, Owned
    <3>. QED
      BY <2>2, <2>3, <2>4, <2>5, <2>7, <3>1 DEF new
<1>. QED
  BY <1>1, <1>2, <1>3 DEF LockedRow

\* No command takes a row away or changes whose it is.
LEMMA RowsGrow ==
    ASSUME Inv, NEW r \in Requests, pc[r] = "commit", Lands(r), NEW id \in Ids
    PROVE  /\ rows'[id] = IF id = tx[r].id THEN Written(tx[r]) ELSE rows[id]
           /\ rows[id] # Absent => rows'[id] # Absent /\ SameAggregate(rows[id], rows'[id])
<1>1. rows'[id] = IF id = tx[r].id THEN Written(tx[r]) ELSE rows[id]
  BY DEF Inv, TypeOK, Lands
<1>. QED
  BY <1>1, WrittenRow DEF SameAggregate

\* The outbox row is the one of the version that goes in.
LEMMA WrittenFact ==
    ASSUME Inv, NEW r \in Requests, pc[r] = "commit"
    PROVE  LET e == OutboxRow(tx[r])
               new == Written(tx[r]) IN
           /\ e.stored = OutboxColumns(FactOf(tx[r].id, new, new.version, [name |-> new.name]))
           /\ e.stored \in OutboxRows
           /\ e.stored.aggregate = tx[r].id /\ e.stored.payload = [name |-> new.name]
           /\ e.seq = tx[r].seq /\ e.version = new.version /\ e.by = tx[r].scope
           /\ e.call = tx[r].call
           /\ new.name \in GoodNames /\ new.version \in Nat \ {0}
<1> DEFINE t == tx[r]
           new == Written(t)
<1>1. /\ Owned(t.id, new) /\ SameAggregate(t.row, new) /\ new.name = t.row.name
      /\ t.op = "add" <=> new.version = 1
  BY WrittenRow
<1>2. t.id \in Ids /\ new \in Row
  BY <1>1 DEF Inv, TxOK, Owned
<1>3. EventScope(t.row) = EventScope(new) /\ t.row.kind = new.kind
  BY <1>1, SameAccess DEF SameAggregate
<1>4. new.name \in GoodNames /\ new.version \in Nat \ {0}
  BY <1>2 DEF Row
<1>5. Recorded(t) = FactOf(t.id, new, new.version, [name |-> new.name])
  BY <1>1, <1>3 DEF Recorded, FactOf
<1>6. OutboxColumns(Recorded(t)) \in OutboxRows
  BY <1>1, <1>2, <1>4, <1>5, FactColumns
<1>7. /\ OutboxColumns(Recorded(t)).aggregate = t.id
      /\ OutboxColumns(Recorded(t)).payload = [name |-> new.name]
  BY <1>1 DEF OutboxColumns, Recorded
<1>. QED
  BY <1>4, <1>5, <1>6, <1>7 DEF OutboxRow

LEMMA CommitStep ==
    ASSUME Inv, NEW r \in Requests, Commit(r)
    PROVE  Inv'
<1> DEFINE t == tx[r]
           new == Written(t)
           e == OutboxRow(t)
<1>1. /\ pc[r] = "commit" /\ Lands(r) /\ UNCHANGED <<nextSeq, calls>>
      /\ pc' = [pc EXCEPT ![r] = "idle"] /\ tx' = [tx EXCEPT ![r] = NoTransaction]
  BY DEF Commit, Lands, Finish
<1>2. PICK outcome \in {"ok", "transactionFailed"} :
          answer' = [answer EXCEPT ![r] = [[NoAnswer EXCEPT !.outcome = outcome]
                                               EXCEPT !.call = tx[r].call]]
  BY DEF Commit, Finish
<1>3. /\ t \in Transactions /\ t.id \in Ids /\ t.scope \in Scopes /\ t.seq \in Nat \ {0}
      /\ t.call \in Nat
  BY <1>1 DEF Inv, TypeOK, TxOK, Transactions
<1>4. Owned(t.id, new) /\ new \in Row /\ new # Absent
  BY <1>1, WrittenRow DEF Owned
<1>5. /\ e.stored = OutboxColumns(FactOf(t.id, new, new.version, [name |-> new.name]))
      /\ e.stored \in OutboxRows /\ e.stored.aggregate = t.id
      /\ e.stored.payload = [name |-> new.name] /\ e.version = new.version
      /\ new.name \in GoodNames /\ new.version \in Nat \ {0}
      /\ e \in [stored : OutboxRows, seq : Nat \ {0}, version : Nat \ {0}, by : Scopes, call : Nat]
  BY <1>1, <1>3, WrittenFact DEF OutboxRow
<1>6. \A id \in Ids :
          /\ rows'[id] = IF id = t.id THEN new ELSE rows[id]
          /\ rows[id] # Absent => rows'[id] # Absent /\ SameAggregate(rows[id], rows'[id])
  BY <1>1, RowsGrow
<1>7. TypeOK'
  <2>1. rows' \in [Ids -> Row \cup {Absent}]
    BY <1>1, <1>3, <1>4 DEF Inv, TypeOK, Lands
  <2>2. outbox' = outbox \cup {e}
    BY <1>1 DEF Lands
  <2>3. /\ pc' \in [Requests -> Statements]
        /\ tx' \in [Requests -> Transactions]
    BY <1>1 DEF Inv, TypeOK, Statements, NoTransaction, Transactions
  <2>4. [[NoAnswer EXCEPT !.outcome = outcome] EXCEPT !.call = tx[r].call]
            \in Answers
    BY <1>3 DEF NoAnswer, Answers, Outcomes
  <2>5. answer' \in [Requests -> Answers]
    BY <1>2, <2>4 DEF Inv, TypeOK
  <2>. QED
    BY <1>1, <1>5, <2>1, <2>2, <2>3, <2>5 DEF Inv, TypeOK
<1>8. /\ pc'[r] = "idle"
      /\ \A q \in Requests \ {r} : pc'[q] = pc[q] /\ tx'[q] = tx[q]
  BY <1>1 DEF Inv, TypeOK
<1>9. ASSUME NEW q \in Requests PROVE TxOK(q)'
  <2>1. CASE q = r
    BY <1>8, <2>1 DEF TxOK, Holding
  <2>2. CASE q # r
    <3> DEFINE u == tx[q]
    <3>1. pc'[q] = pc[q] /\ tx'[q] = u /\ TxOK(q)
      BY <1>8, <2>2 DEF Inv
    <3>2. NewRow(u) => NewRow(u)'
      BY <1>6, <3>1 DEF NewRow, OfItemsClub, Owned, SameAggregate, Ids
    <3>3. u.id \in Ids /\ ReadRow(u) => ReadRow(u)'
      BY <1>6, <3>1 DEF ReadRow, SameAggregate
    <3>4. pc[q] \in Holding => rows'[u.id] = rows[u.id] /\ u.id \in Ids
      BY <1>1, <1>6, <2>2, <3>1 DEF Inv, OneHolder, Holding, TxOK
    <3>5. pc[q] \in Holding => LockedRow(u)'
      BY <3>1, <3>2, <3>3, <3>4 DEF TxOK, LockedRow
    <3>6. pc[q] = "connect" => Captured(u)'
      BY <3>1, <3>2 DEF TxOK, Captured
    <3>. QED
      BY <3>1, <3>2, <3>3, <3>5, <3>6 DEF TxOK
  <2>. QED
    BY <2>1, <2>2
<1>10. OneHolder'
  BY <1>8 DEF Inv, OneHolder, Holding
<1>11. ASSUME NEW id \in Ids PROVE StoredOK(id)'
  <2>1. CASE id = t.id
    <3>1. OfItemsClub(id, new) /\ Owned(id, new) /\ rows'[id] = new
      BY <1>1, <1>4, <1>6, <2>1, WrittenRow
    <3>2. OfItemsClub(id, rows[id])'
      BY <1>6, <3>1 DEF OfItemsClub, Owned, SameAggregate, Ids
    <3>3. Owned(id, rows[id])'
      BY <3>1 DEF Owned
    <3>. QED
      BY <3>2, <3>3 DEF StoredOK
  <2>2. CASE id # t.id
    <3>1. rows'[id] = rows[id] /\ StoredOK(id)
      BY <1>6, <2>2 DEF Inv
    <3>. QED
      BY <1>6, <3>1 DEF StoredOK, OfItemsClub, Owned, SameAggregate, Ids
  <2>. QED
    BY <2>1, <2>2
<1>12. ASSUME NEW f \in outbox' PROVE EventOK(f)'
  <2>1. CASE f = e
    <3>1. rows'[t.id] = new
      BY <1>3, <1>6
    <3>. QED
      BY <1>3, <1>4, <1>5, <2>1, <3>1 DEF EventOK
  <2>2. CASE f \in outbox
    <3> DEFINE id == f.stored.aggregate
    <3>1. EventOK(f) /\ id \in Ids
      BY <2>2 DEF Inv, EventOK
    <3>2. rows'[id] # Absent /\ SameAggregate(rows[id], rows'[id])
      BY <1>6, <3>1 DEF EventOK
    <3>3. FactOf(id, rows'[id], f.version, f.stored.payload)
              = FactOf(id, rows[id], f.version, f.stored.payload)
      BY <3>2, SameAccess DEF FactOf, SameAggregate
    <3>. QED
      BY <3>1, <3>2, <3>3 DEF EventOK
  <2>. QED
    BY <1>1, <2>1, <2>2 DEF Lands
<1>. QED
  BY <1>7, <1>9, <1>10, <1>11, <1>12 DEF Inv

LEMMA StepInv == Inv /\ [Next]_vars => Inv'
<1>. SUFFICES ASSUME Inv, [Next]_vars PROVE Inv'
  OBVIOUS
<1>1. CASE UNCHANGED vars
  BY <1>1 DEF vars, Inv, TypeOK, TxOK, Captured, NewRow, ReadRow, LockedRow, OneHolder, StoredOK,
              OfItemsClub, EventOK
<1>2. CASE NoMoreCalls
  BY <1>1, <1>2 DEF NoMoreCalls
<1>3. ASSUME NEW r \in Requests, UseCase(r) PROVE Inv'
  BY <1>3, UseCaseStep
<1>4. ASSUME NEW r \in Requests, Statement(r) PROVE Inv'
  BY <1>4, ConnectStep, FindStep, FindItemStep, AddStep, UpdateStep, WriteOutboxStep, CommitStep
     DEF Statement
<1>5. ASSUME NEW r \in Requests, StatementFails(r) PROVE Inv'
  BY <1>5, FailsStep DEF StatementFails, Outcomes
<1>. QED
  BY <1>1, <1>2, <1>3, <1>4, <1>5 DEF Next

\* The invariant holds in every reachable state.
THEOREM TransactionsInvariant == Spec => []Inv
BY InitInv, StepInv, PTL DEF Spec

\* The tables, the outbox and every transaction keep their types: in
\* particular a row is never stored with a blank name (item.ts, ItemName).
THEOREM TransactionsAreTyped == Spec => []TypeOK
BY TransactionsInvariant, PTL DEF Inv

\* A Ticket's club is its Item's club, although it was copied from a row the
\* transaction never locked (create-ticket.ts :95-111).
THEOREM TicketsBelongToItemsClubs == Spec => []TicketBelongsToItemsClub
<1>1. Inv => TicketBelongsToItemsClub
  BY DEF Inv, StoredOK, OfItemsClub, TicketBelongsToItemsClub, Ids
<1>. QED
  BY <1>1, TransactionsInvariant, PTL

\* Whatever interleaves or fails, no committed outbox row is a poison pill: it
\* is rehydrated as the class its aggregate recorded, owned by whoever owns the
\* aggregate (pg-outbox-writer.ts :50-88, sample-event-registry.ts :67-88).
THEOREM EventsRehydrate == Spec => []EveryEventRehydrates
<1>1. ASSUME Inv, NEW e \in outbox
      PROVE  LET event == Rehydrate(e.stored)
                 row   == rows[e.stored.aggregate] IN
             /\ Accepted(event)
             /\ event.class = Class(row.kind, IF e.version = 1 THEN "created" ELSE "renamed")
             /\ event.scope = EventScope(row)
  <2> DEFINE id == e.stored.aggregate
             fact == FactOf(id, rows[id], e.version, e.stored.payload)
  <2>1. /\ id \in Ids /\ e.stored = OutboxColumns(fact) /\ Owned(id, rows[id])
        /\ e.stored.payload \in [name : GoodNames]
    BY <1>1 DEF Inv, EventOK, StoredOK
  <2>2. fact \in FactsOf(Clubs \cup Principals, Ids, [name : GoodNames])
    BY <2>1, OwnedRowsHaveScopes DEF FactOf, FactsOf, Classes, Class
  <2>3. HasName(fact.payload)
    BY <2>1 DEF FactOf, HasName
  <2>4. Rehydrate(OutboxColumns(fact)) = fact
    <3>. HIDE DEF fact
    <3>. QED
      BY <2>2, <2>3, EnvelopeRoundTrip
  <2>. QED
    BY <2>1, <2>4 DEF FactOf, Accepted
<1>2. Inv => EveryEventRehydrates
  BY <1>1 DEF EveryEventRehydrates
<1>. QED
  BY <1>2, TransactionsInvariant, PTL

-----------------------------------------------------------------------------
(* Answers.  Every call has a number of its own, so what is committed under *)
(* the number of an answer is that call's work and nobody else's.          *)

CallsOK ==
    /\ \A r \in Requests : answer[r].call \in 0..calls
    /\ \A e \in outbox : e.call \in 1..calls
    /\ \A r \in Requests : pc[r] # "idle" =>
           /\ tx[r].call \in 1..calls
           /\ \A q \in Requests : /\ answer[q].call # tx[r].call
                                  /\ q # r /\ pc[q] # "idle" => tx[q].call # tx[r].call
           /\ \A e \in outbox : e.call # tx[r].call

HonestInv == CallsOK /\ AnswersAreHonest

OthersKeep(r) ==
    \A q \in Requests \ {r} : pc'[q] = pc[q] /\ tx'[q] = tx[q] /\ answer'[q] = answer[q]

\* What a step may do to calls, answers and the outbox.
Begins(r) ==
    /\ pc[r] = "idle" /\ pc'[r] # "idle" /\ tx'[r].call = calls + 1
    /\ calls' = calls + 1 /\ UNCHANGED <<outbox, answer>>

Refuses(r) ==
    /\ pc[r] = "idle" /\ answer'[r].call = calls + 1 /\ answer'[r].outcome # "ok"
    /\ calls' = calls + 1 /\ UNCHANGED <<outbox, pc, tx>>

Moves(r) ==
    /\ pc[r] # "idle" /\ pc'[r] # "idle" /\ tx'[r].call = tx[r].call
    /\ UNCHANGED <<outbox, answer, calls>>

RollsBack(r) ==
    /\ pc[r] # "idle" /\ pc'[r] = "idle"
    /\ answer'[r].call = tx[r].call /\ answer'[r].outcome # "ok"
    /\ UNCHANGED <<outbox, calls>>

Commits(r) ==
    /\ pc[r] # "idle" /\ pc'[r] = "idle"
    /\ answer'[r].call = tx[r].call /\ answer'[r].outcome \in {"ok", "transactionFailed"}
    /\ outbox' = outbox \cup {OutboxRow(tx[r])} /\ OutboxRow(tx[r]).call = tx[r].call
    /\ UNCHANGED calls

LEMMA RunCalls ==
    ASSUME TypeOK, NEW r \in Requests, NEW s, NEW t \in Transactions, Run(r, s, t)
    PROVE  Begins(r) /\ OthersKeep(r)
<1>1. [t EXCEPT !.scope = s, !.call = calls + 1].call = calls + 1
  BY DEF Transactions
<1>. QED
  BY <1>1 DEF TypeOK, Run, Call, Begins, OthersKeep

LEMMA RefuseCalls ==
    ASSUME TypeOK, NEW r \in Requests, NEW outcome, Refuse(r, outcome), outcome # "ok"
    PROVE  Refuses(r) /\ OthersKeep(r)
BY DEF TypeOK, Refuse, Call, Refuses, OthersKeep, NoAnswer

LEMMA RollBackCalls ==
    ASSUME TypeOK, NEW r \in Requests,
           NEW a \in Answers, a.outcome # "ok", pc[r] # "idle", RollBack(r, a)
    PROVE  RollsBack(r) /\ OthersKeep(r)
BY DEF TypeOK, RollBack, Finish, RollsBack, OthersKeep, Answers

LEMMA FailsCalls ==
    ASSUME TypeOK, NEW r \in Requests, NEW outcome \in Outcomes, outcome # "ok",
           pc[r] # "idle", Fails(r, outcome)
    PROVE  RollsBack(r) /\ OthersKeep(r)
<1>1. /\ [NoAnswer EXCEPT !.outcome = outcome] \in Answers
      /\ [NoAnswer EXCEPT !.outcome = outcome].outcome = outcome
  BY DEF NoAnswer, Answers
<1>. QED
  BY <1>1, RollBackCalls DEF Fails

LEMMA ProceedCalls ==
    ASSUME TypeOK, NEW r \in Requests, NEW next, NEW row, pc[r] # "idle", next # "idle",
           Proceed(r, next, row)
    PROVE  Moves(r) /\ OthersKeep(r)
<1>1. tx[r] \in Transactions
  BY DEF TypeOK
<1>2. [tx[r] EXCEPT !.row = row].call = tx[r].call
  BY <1>1 DEF Transactions
<1>. QED
  BY <1>2 DEF TypeOK, Proceed, Moves, OthersKeep

LEMMA UseCaseCalls ==
    ASSUME Inv, NEW r \in Requests, UseCase(r)
    PROVE  (Begins(r) \/ Refuses(r)) /\ OthersKeep(r)
BY UseCaseStarts, RunCalls, RefuseCalls DEF Starts, Inv

LEMMA CommitCalls ==
    ASSUME TypeOK, NEW r \in Requests, Commit(r)
    PROVE  Commits(r) /\ OthersKeep(r)
<1>1. PICK outcome \in {"ok", "transactionFailed"} :
          answer' = [answer EXCEPT ![r] = [[NoAnswer EXCEPT !.outcome = outcome]
                                               EXCEPT !.call = tx[r].call]]
  BY DEF Commit, Finish
<1>2. answer'[r].call = tx[r].call /\ answer'[r].outcome = outcome
  BY <1>1 DEF TypeOK, NoAnswer
<1>3. OutboxRow(tx[r]).call = tx[r].call
  BY DEF OutboxRow
<1>4. OthersKeep(r)
  BY <1>1 DEF Commit, Finish, TypeOK, OthersKeep
<1>. QED
  BY <1>2, <1>3, <1>4 DEF Commit, Finish, TypeOK, Commits

LEMMA StatementCalls ==
    ASSUME Inv, NEW r \in Requests, Statement(r)
    PROVE  (Moves(r) \/ RollsBack(r) \/ Commits(r)) /\ OthersKeep(r)
<1>1. TypeOK /\ tx[r] \in Transactions
  BY DEF Inv, TypeOK
<1>2. CASE Connect(r)
  BY <1>1, <1>2 DEF Connect, FirstStatement, TypeOK, Moves, OthersKeep
<1>3. CASE Find(r)
  BY <1>1, <1>3, FailsCalls, ProceedCalls DEF Find, Outcomes
<1>4. CASE FindItem(r)
  BY <1>1, <1>4, FailsCalls, ProceedCalls DEF FindItem, Outcomes
<1>5. CASE Add(r)
  BY <1>1, <1>5, FailsCalls, ProceedCalls DEF Add, Outcomes
<1>6. CASE Update(r)
  <2>1. CASE Matches(r)
    BY <1>1, <1>6, <2>1, ProceedCalls DEF Update
  <2>2. CASE ~Matches(r)
    <3> DEFINE a == [NoAnswer EXCEPT !.outcome = "conflict", !.expected = tx[r].row.version,
                                     !.stored = rows[tx[r].id].version,
                                     !.id = tx[r].id, !.scope = tx[r].scope]
    <3>1. /\ pc[r] = "update" /\ ReadRow(tx[r])
          /\ tx[r].id \in Ids /\ tx[r].scope \in Scopes
      BY <1>6 DEF Update, Inv, TxOK
    <3>2. tx[r].row.version \in Nat /\ rows[tx[r].id].version \in Nat
      BY <3>1 DEF Inv, ReadRow, StoredOK, Owned, Row
    <3>3. a \in Answers /\ a.outcome = "conflict"
      BY <3>1, <3>2 DEF NoAnswer, Answers, Outcomes
    <3>4. RollBack(r, a)
      BY <1>6, <2>2 DEF Update
    <3>. HIDE DEF a
    <3>. QED
      BY <1>1, <3>1, <3>3, <3>4, RollBackCalls
  <2>. QED
    BY <2>1, <2>2
<1>7. CASE WriteOutbox(r)
  <2>1. [tx[r] EXCEPT !.seq = nextSeq].call = tx[r].call
    BY <1>1 DEF Transactions
  <2>. QED
    BY <1>1, <1>7, <2>1 DEF WriteOutbox, TypeOK, Moves, OthersKeep
<1>8. CASE Commit(r)
  BY <1>1, <1>8, CommitCalls
<1>. QED
  BY <1>2, <1>3, <1>4, <1>5, <1>6, <1>7, <1>8 DEF Statement

LEMMA HonestStep ==
    ASSUME TypeOK, HonestInv, NEW r \in Requests, OthersKeep(r),
           Begins(r) \/ Refuses(r) \/ Moves(r) \/ RollsBack(r) \/ Commits(r)
    PROVE  HonestInv'
<1>1. calls \in Nat
  BY DEF TypeOK
<1>2. CASE Begins(r)
  BY <1>1, <1>2 DEF Begins, HonestInv, CallsOK, AnswersAreHonest, OthersKeep
<1>3. CASE Refuses(r)
  BY <1>1, <1>3 DEF Refuses, HonestInv, CallsOK, AnswersAreHonest, OthersKeep
<1>4. CASE Moves(r)
  BY <1>1, <1>4 DEF Moves, HonestInv, CallsOK, AnswersAreHonest, OthersKeep
<1>5. CASE RollsBack(r)
  BY <1>1, <1>5 DEF RollsBack, HonestInv, CallsOK, AnswersAreHonest, OthersKeep
<1>6. CASE Commits(r)
  BY <1>1, <1>6 DEF Commits, HonestInv, CallsOK, AnswersAreHonest, OthersKeep
<1>. QED
  BY <1>2, <1>3, <1>4, <1>5, <1>6

\* A caller told ok finds its change and its event, and one told of a failure
\* finds no trace; only a COMMIT in doubt is left open (with-transaction.ts
\* :75-92, rename-item.ts :40-47).
THEOREM AnswersStayHonest == Spec => []AnswersAreHonest
<1>1. Init => HonestInv
  BY DEF Init, HonestInv, CallsOK, AnswersAreHonest, NoAnswer
<1>2. Inv /\ HonestInv /\ [Next]_vars => HonestInv'
  <2>. SUFFICES ASSUME Inv, HonestInv, [Next]_vars PROVE HonestInv'
    OBVIOUS
  <2>1. CASE UNCHANGED vars
    BY <2>1 DEF vars, HonestInv, CallsOK, AnswersAreHonest
  <2>2. ASSUME NEW r \in Requests, UseCase(r) PROVE HonestInv'
    BY <2>2, UseCaseCalls, HonestStep DEF Inv
  <2>3. ASSUME NEW r \in Requests, Statement(r) PROVE HonestInv'
    BY <2>3, StatementCalls, HonestStep DEF Inv
  <2>4. ASSUME NEW r \in Requests, StatementFails(r) PROVE HonestInv'
    BY <2>4, FailsCalls, HonestStep DEF StatementFails, Outcomes, Inv
  <2>. QED
    BY <2>1, <2>2, <2>3, <2>4 DEF Next, NoMoreCalls
<1>3. HonestInv => AnswersAreHonest
  BY DEF HonestInv
<1>. QED
  BY <1>1, <1>2, <1>3, TransactionsInvariant, PTL DEF Spec

-----------------------------------------------------------------------------
(* History.  A sequence number is drawn while the row is locked, so between *)
(* the draw and the COMMIT no other event of that row is committed.         *)

HistoryOK ==
    /\ IsFiniteSet(outbox)
    /\ \A e \in outbox : e.seq < nextSeq /\ e.version <= rows[e.stored.aggregate].version
    /\ \A r \in Requests : pc[r] = "commit" =>
           /\ tx[r].seq < nextSeq
           /\ \A e \in EventsOf(tx[r].id) : e.seq < tx[r].seq

HistoryInv == HistoryOK /\ OutboxTellsHistory

\* A step that neither draws a number nor commits.
DrawsNothing ==
    /\ UNCHANGED <<rows, outbox, nextSeq>>
    /\ \A q \in Requests : pc'[q] = "commit" => pc[q] = "commit" /\ tx'[q] = tx[q]

LEMMA HistoryOfQuiet ==
    ASSUME HistoryInv, DrawsNothing
    PROVE  HistoryInv'
BY DEF HistoryInv, HistoryOK, DrawsNothing, OutboxTellsHistory, EventsOf

LEMMA UseCaseDrawsNothing ==
    ASSUME Inv, NEW r \in Requests, UseCase(r)
    PROVE  DrawsNothing
<1>1. ASSUME NEW s, NEW t, Run(r, s, t) PROVE DrawsNothing
  BY <1>1 DEF Run, DrawsNothing, Inv, TypeOK
<1>2. ASSUME NEW outcome, Refuse(r, outcome) PROVE DrawsNothing
  BY <1>2 DEF Refuse, DrawsNothing
<1>. QED
  BY <1>1, <1>2, UseCaseStarts DEF Starts

LEMMA RollBackDrawsNothing ==
    ASSUME TypeOK, NEW r \in Requests, NEW a, RollBack(r, a)
    PROVE  DrawsNothing
BY DEF RollBack, Finish, DrawsNothing, TypeOK

LEMMA ProceedDrawsNothing ==
    ASSUME TypeOK, NEW r \in Requests, NEW next, NEW row, next # "commit", Proceed(r, next, row)
    PROVE  DrawsNothing
BY DEF Proceed, DrawsNothing, TypeOK

LEMMA StatementDrawsNothing ==
    ASSUME TypeOK, NEW r \in Requests,
           Connect(r) \/ Find(r) \/ FindItem(r) \/ Add(r) \/ Update(r) \/ StatementFails(r)
    PROVE  DrawsNothing
<1>1. CASE Connect(r)
  BY <1>1 DEF Connect, FirstStatement, DrawsNothing, TypeOK
<1>2. ASSUME NEW outcome, Fails(r, outcome) PROVE DrawsNothing
  BY <1>2, RollBackDrawsNothing DEF Fails
<1>3. CASE Find(r)
  BY <1>2, <1>3, ProceedDrawsNothing DEF Find
<1>4. CASE FindItem(r)
  BY <1>2, <1>4, ProceedDrawsNothing DEF FindItem
<1>5. CASE Add(r)
  BY <1>2, <1>5, ProceedDrawsNothing DEF Add
<1>6. CASE Update(r)
  BY <1>6, RollBackDrawsNothing, ProceedDrawsNothing DEF Update
<1>7. CASE StatementFails(r)
  BY <1>2, <1>7 DEF StatementFails
<1>. QED
  BY <1>1, <1>3, <1>4, <1>5, <1>6, <1>7

LEMMA HistoryOfDraw ==
    ASSUME Inv, HistoryInv, NEW r \in Requests, WriteOutbox(r)
    PROVE  HistoryInv'
<1>1. /\ UNCHANGED <<rows, outbox>> /\ nextSeq' = nextSeq + 1 /\ nextSeq \in Nat
      /\ pc' = [pc EXCEPT ![r] = "commit"]
      /\ tx' = [tx EXCEPT ![r] = [tx[r] EXCEPT !.seq = nextSeq]]
  BY DEF WriteOutbox, Inv, TypeOK
<1>2. /\ tx'[r].seq = nextSeq /\ tx'[r].id = tx[r].id
      /\ \A q \in Requests \ {r} : pc'[q] = pc[q] /\ tx'[q] = tx[q]
  BY <1>1 DEF Inv, TypeOK, Transactions
<1>3. \A e \in outbox : e.seq \in Nat
  BY DEF Inv, TypeOK
<1>4. \A q \in Requests : tx[q].seq \in Nat
  BY DEF Inv, TypeOK, Transactions
<1>5. HistoryOK'
  <2>1. \A e \in outbox : e.seq < nextSeq + 1 /\ e.version <= rows[e.stored.aggregate].version
    BY <1>1, <1>3 DEF HistoryInv, HistoryOK
  <2>2. ASSUME NEW q \in Requests, pc'[q] = "commit"
        PROVE  tx'[q].seq < nextSeq + 1 /\ \A e \in EventsOf(tx'[q].id) : e.seq < tx'[q].seq
    <3>1. CASE q = r
      BY <1>1, <1>2, <3>1 DEF HistoryInv, HistoryOK, EventsOf
    <3>2. CASE q # r
      BY <1>1, <1>2, <1>4, <2>2, <3>2 DEF HistoryInv, HistoryOK
    <3>. QED
      BY <3>1, <3>2
  <2>. QED
    BY <1>1, <2>1, <2>2 DEF HistoryInv, HistoryOK, EventsOf
<1>6. OutboxTellsHistory'
  BY <1>1 DEF HistoryInv, OutboxTellsHistory, EventsOf
<1>. QED
  BY <1>5, <1>6 DEF HistoryInv

LEMMA HistoryOfCommit ==
    ASSUME Inv, HistoryInv, NEW r \in Requests, Commit(r)
    PROVE  HistoryInv'
<1> DEFINE t == tx[r]
           new == Written(t)
           e == OutboxRow(t)
           After(id) == {f \in outbox' : f.stored.aggregate = id}
<1>1. /\ pc[r] = "commit" /\ Lands(r) /\ nextSeq' = nextSeq
      /\ pc' = [pc EXCEPT ![r] = "idle"] /\ tx' = [tx EXCEPT ![r] = NoTransaction]
      /\ outbox' = outbox \cup {e}
  BY DEF Commit, Lands, Finish
<1>2. /\ \/ rows[t.id] = Absent /\ new.version = 1
         \/ rows[t.id] # Absent /\ new.version = rows[t.id].version + 1
      /\ t.id \in Ids /\ new # Absent
  BY <1>1, WrittenRow DEF Inv, TxOK
<1>3. /\ e.stored.aggregate = t.id /\ e.seq = t.seq /\ e.version = new.version
      /\ e.stored.payload = [name |-> new.name] /\ new.version \in Nat
  BY <1>1, WrittenFact
<1>4. \A id \in Ids : rows'[id] = IF id = t.id THEN new ELSE rows[id]
  BY <1>1, RowsGrow
<1>5. /\ t.seq < nextSeq /\ t.seq \in Nat
      /\ \A f \in EventsOf(t.id) : f.seq < t.seq
  BY <1>1 DEF HistoryInv, HistoryOK, Inv, TypeOK, Transactions
<1>6. \A f \in outbox : /\ f.seq \in Nat /\ f.version \in Nat /\ f.stored.aggregate \in Ids
                        /\ rows[f.stored.aggregate] # Absent
                        /\ f.version <= rows[f.stored.aggregate].version
                        /\ f.seq < nextSeq
  BY DEF HistoryInv, HistoryOK, Inv, TypeOK, EventOK
<1>7. \A id \in Ids : rows[id] # Absent => rows[id].version \in Nat
  BY DEF Inv, StoredOK, Owned, Row
<1>8. /\ After(t.id) = EventsOf(t.id) \cup {e}
      /\ \A id \in Ids \ {t.id} : After(id) = EventsOf(id)
  BY <1>1, <1>3 DEF EventsOf
<1>9. \A f \in EventsOf(t.id) : f.version < e.version
  BY <1>2, <1>3, <1>6, <1>7 DEF EventsOf
<1>10. /\ IsFiniteSet(outbox') /\ IsFiniteSet(EventsOf(t.id))
  <2>1. IsFiniteSet(outbox) /\ EventsOf(t.id) \in SUBSET outbox
    BY DEF HistoryInv, HistoryOK, EventsOf
  <2>. QED
    BY <1>1, <2>1, FS_AddElement, FS_Subset
<1>. HIDE DEF e, new, After
<1>11. HistoryOK'
  <2>1. \A f \in outbox' : f.seq < nextSeq /\ f.version <= rows'[f.stored.aggregate].version
    BY <1>1, <1>2, <1>3, <1>4, <1>5, <1>6, <1>7
  <2>2. ASSUME NEW q \in Requests, pc'[q] = "commit"
        PROVE  tx'[q].seq < nextSeq /\ \A f \in After(tx'[q].id) : f.seq < tx'[q].seq
    <3>1. q # r /\ pc[q] = "commit" /\ tx'[q] = tx[q]
      BY <1>1, <2>2 DEF Inv, TypeOK
    <3>2. tx[q].id # t.id /\ tx[q].id \in Ids
      BY <1>1, <3>1 DEF Inv, OneHolder, Holding, TxOK
    <3>3. After(tx'[q].id) = EventsOf(tx[q].id)
      BY <1>8, <3>1, <3>2
    <3>. QED
      BY <3>1, <3>3 DEF HistoryInv, HistoryOK
  <2>. QED
    BY <1>1, <1>10, <2>1, <2>2 DEF HistoryOK, EventsOf, After
<1>12. OutboxTellsHistory'
  <2>. SUFFICES ASSUME NEW id \in Ids
                PROVE  IF rows'[id] = Absent THEN After(id) = {}
                       ELSE /\ Cardinality(After(id)) = rows'[id].version
                            /\ \A f, g \in After(id) : f.seq < g.seq <=> f.version < g.version
                            /\ \E f \in After(id) : /\ f.version = rows'[id].version
                                                        /\ f.stored.payload.name = rows'[id].name
    BY DEF OutboxTellsHistory, EventsOf, After
  <2>1. CASE id # t.id
    BY <1>4, <1>8, <2>1 DEF HistoryInv, OutboxTellsHistory
  <2>2. CASE id = t.id
    <3>1. rows'[id] = new /\ After(id) = EventsOf(t.id) \cup {e}
      BY <1>4, <1>8, <2>2
    <3>2. e \notin EventsOf(t.id)
      BY <1>3, <1>9
    <3>3. Cardinality(EventsOf(t.id) \cup {e}) = Cardinality(EventsOf(t.id)) + 1
      BY <1>10, <3>2, FS_AddElement
    <3>4. Cardinality(EventsOf(t.id)) + 1 = new.version
      <4>1. rows[t.id] = Absent => EventsOf(t.id) = {}
        BY <1>2 DEF HistoryInv, OutboxTellsHistory
      <4>2. rows[t.id] # Absent => Cardinality(EventsOf(t.id)) = rows[t.id].version
        BY <1>2 DEF HistoryInv, OutboxTellsHistory
      <4>3. Cardinality({}) = 0
        BY FS_EmptySet
      <4>4. CASE rows[t.id] = Absent
        <5>1. Cardinality(EventsOf(t.id)) = 0
          BY <4>1, <4>3, <4>4
        <5>. QED
          BY <1>2, <4>4, <5>1
      <4>5. CASE rows[t.id] # Absent
        BY <1>2, <4>2, <4>5
      <4>. QED
        BY <4>4, <4>5
    <3>5. \A f, g \in EventsOf(t.id) : f.seq < g.seq <=> f.version < g.version
      BY <1>2, FS_EmptySet DEF HistoryInv, OutboxTellsHistory
    <3>6. \A f, g \in EventsOf(t.id) \cup {e} : f.seq < g.seq <=> f.version < g.version
      BY <1>3, <1>5, <1>6, <1>9, <3>5 DEF EventsOf
    <3>. QED
      BY <1>2, <1>3, <3>1, <3>3, <3>4, <3>6
  <2>. QED
    BY <2>1, <2>2
<1>. QED
  BY <1>11, <1>12 DEF HistoryInv

\* For any number of writers the committed outbox tells every row's whole
\* history: one event for each version, numbered in the order of the versions
\* (pg-outbox-writer.ts :60-88, drizzle-item-repository.ts :55-69).
THEOREM HistoryIsTold == Spec => []OutboxTellsHistory
<1>1. Init => HistoryInv
  <2>. SUFFICES ASSUME Init PROVE HistoryInv
    OBVIOUS
  <2>1. HistoryOK
    BY FS_EmptySet DEF Init, HistoryOK
  <2>2. OutboxTellsHistory
    BY DEF Init, OutboxTellsHistory, EventsOf
  <2>. QED
    BY <2>1, <2>2 DEF HistoryInv
<1>2. Inv /\ HistoryInv /\ [Next]_vars => HistoryInv'
  <2>. SUFFICES ASSUME Inv, HistoryInv, [Next]_vars PROVE HistoryInv'
    OBVIOUS
  <2>1. TypeOK
    BY DEF Inv
  <2>2. CASE UNCHANGED vars
    BY <2>2, HistoryOfQuiet DEF vars, DrawsNothing
  <2>3. ASSUME NEW r \in Requests, UseCase(r) PROVE HistoryInv'
    BY <2>3, UseCaseDrawsNothing, HistoryOfQuiet
  <2>4. ASSUME NEW r \in Requests, Statement(r) PROVE HistoryInv'
    BY <2>1, <2>4, StatementDrawsNothing, HistoryOfQuiet, HistoryOfDraw, HistoryOfCommit
       DEF Statement
  <2>5. ASSUME NEW r \in Requests, StatementFails(r) PROVE HistoryInv'
    BY <2>1, <2>5, StatementDrawsNothing, HistoryOfQuiet
  <2>. QED
    BY <2>2, <2>3, <2>4, <2>5 DEF Next, NoMoreCalls
<1>3. HistoryInv => OutboxTellsHistory
  BY DEF HistoryInv
<1>. QED
  BY <1>1, <1>2, <1>3, TransactionsInvariant, PTL DEF Spec

-----------------------------------------------------------------------------
(* Refinement.                                                             *)

\* A row is its columns.
LEMMA RowsAreTheirColumns ==
    ASSUME NEW a \in Row, NEW b \in Row, SameAggregate(a, b), a.name = b.name, a.version = b.version
    PROVE  a = b
BY DEF Row, SameAggregate

\* A rename puts the successor of the stored row in place.
LEMMA Renamed ==
    ASSUME NEW old \in Row, NEW new \in Row, SameAggregate(old, new),
           new.version = old.version + 1
    PROVE  new = [old EXCEPT !.name = new.name, !.version = @ + 1]
<1> DEFINE named == [old EXCEPT !.name = new.name]
           row == [named EXCEPT !.version = @ + 1]
<1>1. /\ named \in Row /\ SameAggregate(old, named) /\ named.name = new.name
      /\ named.version = old.version
  BY DEF Row, SameAggregate
<1>2. [old EXCEPT !.name = new.name, !.version = @ + 1] = row
  BY Zenon
<1>. HIDE DEF named
<1>3. row \in Row /\ SameAggregate(named, row) /\ row.name = named.name
        /\ row.version = named.version + 1
  BY <1>1 DEF Row, SameAggregate
<1>. HIDE DEF row
<1>4. new = row
  BY ONLY new \in Row, SameAggregate(old, new), new.version = old.version + 1, <1>1, <1>3,
          RowsAreTheirColumns
     DEF SameAggregate
<1>. QED
  BY ONLY <1>2, <1>4, Zenon

\* Whoever may write a row is entitled to it.
LEMMA WritersAreEntitled ==
    ASSUME NEW id \in Ids, NEW row, Owned(id, row), NEW s, MayWrite(s, row)
    PROVE  Commands!Entitled(s, row)
<1>1. CASE id \in ItemIds
  BY <1>1 DEF Owned, MayWrite, ItemWritePolicy, Commands!Entitled
<1>2. CASE id \in NoteIds
  BY <1>2 DEF Owned, MayWrite, NotePolicy, Commands!Entitled
<1>3. CASE id \in TicketIds
  BY <1>3 DEF Owned, MayWrite, TicketPolicy, Commands!Entitled
<1>4. CASE id \in AnnouncementIds
  BY <1>4 DEF Owned, Commands!Entitled
<1>. QED
  BY <1>1, <1>2, <1>3, <1>4 DEF Ids

\* The event of a row is addressed to its owners.
LEMMA EventsAreAddressed ==
    ASSUME NEW id \in Ids, NEW row, Owned(id, row), NEW version, NEW payload
    PROVE  LET stored == OutboxColumns(FactOf(id, row, version, payload)) IN
           [club |-> stored.club, principal |-> stored.principal] = Commands!Addressee(row)
<1>1. LET stored == OutboxColumns(FactOf(id, row, version, payload)) IN
      /\ stored.club = OwnerColumns(EventScope(row)).club
      /\ stored.principal = OwnerColumns(EventScope(row)).principal
  BY DEF OutboxColumns, FactOf
<1>2. CASE id \in ItemIds \cup TicketIds
  BY <1>1, <1>2 DEF Owned, EventScope, OwnerColumns, ClubScope, Commands!Addressee
<1>3. CASE id \in NoteIds
  BY <1>1, <1>3 DEF Owned, EventScope, OwnerColumns, ExhibitorScope, Commands!Addressee
<1>4. CASE id \in AnnouncementIds
  BY <1>1, <1>4 DEF Owned, EventScope, OwnerColumns, PlatformScope, Commands!Addressee
<1>. QED
  BY <1>2, <1>3, <1>4 DEF Ids

\* The tables and the outbox move as if the commands ran one at a time, each
\* whole and by a caller entitled to it (with-transaction.ts :146-151).
THEOREM CommandRefinement == Spec => ImplementsCommands
<1> DEFINE told(e) == [id |-> e.stored.aggregate, version |-> e.version,
                       name |-> e.stored.payload.name,
                       owner |-> [club |-> e.stored.club, principal |-> e.stored.principal],
                       by |-> e.by]
           facts == {told(e) : e \in outbox}
<1>1. Init => Commands!Init
  BY DEF Init, Commands!Init
<1>2. Inv /\ [Next]_vars => [Commands!Next]_(Commands!vars)
  <2>. SUFFICES ASSUME Inv, [Next]_vars PROVE [Commands!Next]_(Commands!vars)
    OBVIOUS
  <2>1. TypeOK
    BY DEF Inv
  <2>2. ASSUME rows' = rows, outbox' = outbox PROVE UNCHANGED Commands!vars
    BY <2>2 DEF Commands!vars
  <2>3. ASSUME NEW r \in Requests, Commit(r) PROVE Commands!Next
    <3> DEFINE new == Written(tx[r])
               e == OutboxRow(tx[r])
    <3>1. pc[r] = "commit" /\ Lands(r) /\ tx[r].id \in Ids /\ tx[r].scope \in Scopes
      BY <2>3 DEF Commit, Lands, Inv, TxOK
    <3>. PICK id \in Ids, s \in Scopes : id = tx[r].id /\ s = tx[r].scope
      BY <3>1
    <3>2. /\ Owned(id, new) /\ new # Absent /\ MayWrite(s, new)
          /\ \/ rows[id] = Absent /\ new.version = 1
             \/ /\ rows[id] # Absent /\ SameAggregate(rows[id], new)
                /\ new.version = rows[id].version + 1
      BY <3>1, WrittenRow
    <3>3. /\ e.stored = OutboxColumns(FactOf(id, new, new.version, [name |-> new.name]))
          /\ e.stored.aggregate = id /\ e.stored.payload = [name |-> new.name]
          /\ e.version = new.version /\ e.by = s /\ new.name \in GoodNames
      BY <3>1, WrittenFact
    <3>4. rows' = [rows EXCEPT ![id] = new] /\ rows'[id] = new
      BY <3>1, RowsGrow DEF Lands
    <3>5. told(e) = Commands!Fact(id, new, s)
      <4>1. [club |-> e.stored.club, principal |-> e.stored.principal] = Commands!Addressee(new)
        BY <3>1, <3>2, <3>3, EventsAreAddressed
      <4>. QED
        BY <3>3, <4>1 DEF Commands!Fact
    <3>6. {told(f) : f \in outbox'} = facts \cup {Commands!Fact(id, new, s)}
      <4>1. outbox' = outbox \cup {e}
        BY <3>1 DEF Lands
      <4>. HIDE DEF e, told
      <4>. QED
        BY <3>5, <4>1
    <3>7. Commands!Put(id, new, s)
      BY <3>1, <3>2, <3>4, <3>6, WritersAreEntitled DEF Commands!Put
    <3>. HIDE DEF new
    <3>8. CASE rows[id] = Absent
      <4>1. rows'[id] = new /\ new # Absent /\ new.version = 1 /\ new.name \in GoodNames
        BY <3>2, <3>3, <3>4, <3>8
      <4>2. Commands!Put(id, rows'[id], s)
        BY ONLY <3>7, <4>1, Zenon
      <4>3. Commands!Create(id, s)
        BY <3>8, <4>1, <4>2, Zenon DEF Commands!Create
      <4>. QED
        BY <3>1, <4>3 DEF Commands!Next
    <3>9. CASE rows[id] # Absent
      <4>1. rows[id] \in Row /\ new \in Row
        BY <3>1, <3>2, <3>9 DEF Inv, StoredOK, Owned
      <4>2. new = [rows[id] EXCEPT !.name = new.name, !.version = @ + 1]
        BY <3>2, <3>9, <4>1, Renamed
      <4>3. Commands!Put(id, [rows[id] EXCEPT !.name = new.name, !.version = @ + 1], s)
        BY ONLY <3>7, <4>2, Zenon
      <4>4. Commands!Rename(id, s)
        BY <3>3, <3>9, <4>3, Zenon DEF Commands!Rename
      <4>. QED
        BY <3>1, <4>4 DEF Commands!Next
    <3>. QED
      BY <3>8, <3>9
  <2>4. ASSUME NEW r \in Requests, UseCase(r) PROVE UNCHANGED Commands!vars
    BY <2>2, <2>4, UseCaseDrawsNothing DEF DrawsNothing
  <2>5. ASSUME NEW r \in Requests, WriteOutbox(r) PROVE UNCHANGED Commands!vars
    BY <2>2, <2>5 DEF WriteOutbox
  <2>6. ASSUME NEW r \in Requests, Statement(r) \/ StatementFails(r), ~Commit(r), ~WriteOutbox(r)
        PROVE  UNCHANGED Commands!vars
    BY <2>1, <2>2, <2>6, StatementDrawsNothing DEF DrawsNothing, Statement
  <2>7. CASE UNCHANGED vars
    BY <2>2, <2>7 DEF vars
  <2>. QED
    BY <2>2, <2>3, <2>4, <2>5, <2>6, <2>7 DEF Next, NoMoreCalls, vars
<1>. QED
  BY <1>1, <1>2, TransactionsInvariant, PTL DEF Spec, ImplementsCommands, Commands!Spec

-----------------------------------------------------------------------------
(* Conflicts.  Where one policy guards reading and writing, whoever found a *)
(* row may write it as long as its owner stays, so only a newer version can *)
(* keep the UPDATE from matching.                                           *)

LEMMA OnePolicy ==
    ASSUME NEW id \in Ids \ ItemIds, NEW row, Owned(id, row), NEW s, MayRead(s, row)
    PROVE  MayWrite(s, row)
<1>1. CASE id \in NoteIds
  BY <1>1 DEF Owned, MayRead, MayWrite, NotePolicy
<1>2. CASE id \in TicketIds
  BY <1>2 DEF Owned, MayRead, MayWrite, TicketPolicy
<1>3. CASE id \in AnnouncementIds
  BY <1>3 DEF Owned, MayRead, MayWrite
<1>. QED
  BY <1>1, <1>2, <1>3 DEF Ids

\* A step that tells nobody of a conflict.
TellsNoConflict ==
    \A q \in Requests : answer'[q] = answer[q] \/ answer'[q].outcome # "conflict"

\* A conflict an answer tells of has its reason in the row as it is now.
Explained(a) ==
    a.outcome = "conflict" =>
        /\ a.id \in Ids /\ rows[a.id] # Absent
        /\ \/ a.expected # a.stored
           \/ rows[a.id].kind = "item" /\ rows[a.id].club # a.scope.club

ConflictsAreExplained == \A r \in Requests : Explained(answer[r])

\* No row goes away or changes its kind or owner.
RowsStay ==
    \A id \in Ids : rows[id] # Absent => rows'[id] # Absent /\ SameAggregate(rows[id], rows'[id])

LEMMA StillExplained ==
    ASSUME RowsStay, NEW a, Explained(a)
    PROVE  a.outcome = "conflict" =>
               /\ a.id \in Ids /\ rows'[a.id] # Absent
               /\ \/ a.expected # a.stored
                  \/ rows'[a.id].kind = "item" /\ rows'[a.id].club # a.scope.club
BY DEF RowsStay, Explained, SameAggregate

LEMMA NoNewConflict ==
    ASSUME ConflictsAreExplained, RowsStay, TellsNoConflict
    PROVE  ConflictsAreExplained'
BY StillExplained DEF ConflictsAreExplained, TellsNoConflict, Explained

LEMMA UpdateConflict ==
    ASSUME Inv, ConflictsAreExplained, NEW r \in Requests, Update(r)
    PROVE  ConflictsAreExplained'
<1> DEFINE stored == rows[tx[r].id]
<1>1. pc[r] = "update" /\ ReadRow(tx[r]) /\ tx[r].id \in Ids /\ tx[r].scope \in Scopes
  BY DEF Update, Inv, TxOK
<1>2. MayRead(tx[r].scope, stored) /\ stored # Absent /\ Owned(tx[r].id, stored)
  BY <1>1, SameAccess DEF ReadRow, Inv, StoredOK
<1>3. \/ MayWrite(tx[r].scope, stored)
      \/ stored.kind = "item" /\ stored.club # tx[r].scope.club
  <2>1. CASE tx[r].id \in ItemIds
    BY <1>2, <2>1 DEF Owned, MayWrite, ItemWritePolicy
  <2>2. CASE tx[r].id \notin ItemIds
    BY <1>1, <1>2, <2>2, OnePolicy
  <2>. QED
    BY <2>1, <2>2
<1>4. CASE Matches(r)
  BY <1>4 DEF Update, Proceed, ConflictsAreExplained, Explained
<1>5. CASE ~Matches(r)
  <2>1. \/ tx[r].row.version # stored.version
        \/ stored.kind = "item" /\ stored.club # tx[r].scope.club
    BY <1>2, <1>3, <1>5 DEF Matches
  <2> DEFINE a == [NoAnswer EXCEPT !.outcome = "conflict", !.expected = tx[r].row.version,
                                   !.stored = stored.version,
                                   !.id = tx[r].id, !.scope = tx[r].scope]
             b == [a EXCEPT !.call = tx[r].call]
  <2>2. /\ b.expected = tx[r].row.version /\ b.stored = stored.version
        /\ b.id = tx[r].id /\ b.scope = tx[r].scope
    BY DEF NoAnswer
  <2>3. answer' = [answer EXCEPT ![r] = b] /\ UNCHANGED rows
    BY <1>5 DEF Update, RollBack, Finish
  <2>. HIDE DEF a, b
  <2>4. Explained(b)
    BY <1>1, <1>2, <2>1, <2>2 DEF Explained
  <2>5. answer'[r] = b /\ \A q \in Requests \ {r} : answer'[q] = answer[q]
    BY <2>3 DEF Inv, TypeOK
  <2>. QED
    BY <2>3, <2>4, <2>5 DEF ConflictsAreExplained, Explained
<1>. QED
  BY <1>4, <1>5

LEMMA FailsTellNoConflict ==
    ASSUME Inv, NEW r \in Requests, NEW outcome, outcome # "conflict",
           Fails(r, outcome) \/ Refuse(r, outcome)
    PROVE  TellsNoConflict
<1>1. answer'[r].outcome = outcome /\ \A q \in Requests \ {r} : answer'[q] = answer[q]
  <2>1. CASE Fails(r, outcome)
    <3>1. answer' = [answer EXCEPT ![r] = [[NoAnswer EXCEPT !.outcome = outcome]
                                               EXCEPT !.call = tx[r].call]]
      BY <2>1 DEF Fails, RollBack, Finish
    <3>. QED
      BY <3>1 DEF Inv, TypeOK, NoAnswer
  <2>2. CASE Refuse(r, outcome)
    <3>1. answer' = [answer EXCEPT ![r] = [NoAnswer EXCEPT !.outcome = outcome,
                                                           !.call = calls + 1]]
      BY <2>2 DEF Refuse
    <3>. QED
      BY <3>1 DEF Inv, TypeOK, NoAnswer
  <2>. QED
    BY <2>1, <2>2
<1>. QED
  BY <1>1 DEF TellsNoConflict

LEMMA StatementTellsNoConflict ==
    ASSUME Inv, NEW r \in Requests, Statement(r) \/ StatementFails(r), ~Update(r)
    PROVE  TellsNoConflict
<1>1. ASSUME NEW next, NEW row, Proceed(r, next, row) PROVE TellsNoConflict
  BY <1>1 DEF Proceed, TellsNoConflict
<1>2. CASE Connect(r) \/ WriteOutbox(r)
  BY <1>2 DEF Connect, WriteOutbox, TellsNoConflict
<1>3. CASE Find(r)
  BY <1>1, <1>3, FailsTellNoConflict DEF Find
<1>4. CASE FindItem(r)
  BY <1>1, <1>4, FailsTellNoConflict DEF FindItem
<1>5. CASE Add(r)
  BY <1>1, <1>5, FailsTellNoConflict DEF Add
<1>6. CASE Commit(r)
  BY <1>6, CommitCalls DEF Inv, Commits, OthersKeep, TellsNoConflict
<1>7. CASE StatementFails(r)
  BY <1>7, FailsTellNoConflict DEF StatementFails
<1>. QED
  BY <1>2, <1>3, <1>4, <1>5, <1>6, <1>7 DEF Statement

LEMMA StatementKeepsRows ==
    ASSUME Inv, NEW r \in Requests, Statement(r) \/ StatementFails(r)
    PROVE  RowsStay
<1>1. rows' = rows => RowsStay
  BY DEF RowsStay, SameAggregate
<1>2. CASE Commit(r)
  BY <1>2, RowsGrow DEF Commit, Lands, RowsStay
<1>3. ASSUME ~Commit(r) PROVE rows' = rows
  BY <1>3 DEF Statement, Connect, Find, FindItem, Add, Update, WriteOutbox, StatementFails,
              Proceed, Fails, RollBack
<1>. QED
  BY <1>1, <1>2, <1>3

\* A ConcurrentModificationError means a newer version (drizzle-item-repository.ts
\* :54), or an item renamed by somebody who is not of its club, and nothing else.
THEOREM ConflictsAreStaleOrForeign == Spec => []ConflictIsStaleOrForeign
<1>1. Init => ConflictsAreExplained
  BY DEF Init, ConflictsAreExplained, Explained, NoAnswer
<1>2. Inv /\ ConflictsAreExplained /\ [Next]_vars => ConflictsAreExplained'
  <2>. SUFFICES ASSUME Inv, ConflictsAreExplained, [Next]_vars PROVE ConflictsAreExplained'
    OBVIOUS
  <2>1. rows' = rows => RowsStay
    BY DEF RowsStay, SameAggregate
  <2>2. CASE UNCHANGED vars
    BY <2>2 DEF vars, ConflictsAreExplained, Explained
  <2>3. ASSUME NEW r \in Requests, UseCase(r) PROVE ConflictsAreExplained'
    <3>1. ASSUME NEW s, NEW t, Run(r, s, t) PROVE TellsNoConflict /\ rows' = rows
      BY <3>1 DEF Run, TellsNoConflict
    <3>2. ASSUME NEW outcome, Refuse(r, outcome) PROVE rows' = rows
      BY <3>2 DEF Refuse
    <3>3. TellsNoConflict /\ rows' = rows
      BY <2>3, <3>1, <3>2, UseCaseStarts, FailsTellNoConflict DEF Starts
    <3>. QED
      BY <2>1, <3>3, NoNewConflict
  <2>4. ASSUME NEW r \in Requests, Statement(r) \/ StatementFails(r)
        PROVE  ConflictsAreExplained'
    BY <2>4, StatementKeepsRows, StatementTellsNoConflict, NoNewConflict, UpdateConflict
  <2>. QED
    BY <2>2, <2>3, <2>4 DEF Next, NoMoreCalls
<1>3. ConflictsAreExplained => ConflictIsStaleOrForeign
  BY DEF ConflictsAreExplained, Explained, ConflictIsStaleOrForeign
<1>. QED
  BY <1>1, <1>2, <1>3, TransactionsInvariant, PTL DEF Spec
=============================================================================
