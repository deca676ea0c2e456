----------------------------- MODULE UnitOfWork -----------------------------
(***************************************************************************)
(* The sample context on PostgreSQL: every request runs one use case, every*)
(* use case one transaction (PgSampleUnitOfWork.run over                   *)
(* withOutboxTransaction).  A step is one statement of a request; between  *)
(* two of them other requests' statements and commits happen.              *)
(*                                                                         *)
(* READ COMMITTED: a statement sees the rows committed when it starts.     *)
(* INSERT and UPDATE lock their row until the transaction ends; a          *)
(* statement that meets such a lock waits and then looks at the row anew.  *)
(***************************************************************************)
EXTENDS Naturals, FiniteSets, EventEnvelope

CONSTANTS
    Requests,                                    \* concurrent callers
    ItemIds, NoteIds, TicketIds, AnnouncementIds,
    Scopes,       \* records [kind, club, principal], the transaction scopes
    Names,        \* names a caller may give, Blank among them
    Blank,
    Absent,       \* no such row
    PoolSize,     \* clients of the pg.Pool
    MaxCalls      \* bound: calls made in a behaviour

Ids == ItemIds \cup NoteIds \cup TicketIds \cup AnnouncementIds

ASSUME PoolAssumption == PoolSize \in Nat \ {0}
ASSUME CallsAssumption == MaxCalls \in Nat
ASSUME BlankAssumption == Blank \in Names
ASSUME KindsAreDisjoint ==
    /\ ItemIds \cap (NoteIds \cup TicketIds \cup AnnouncementIds) = {}
    /\ NoteIds \cap (TicketIds \cup AnnouncementIds) = {}
    /\ TicketIds \cap AnnouncementIds = {}
ASSUME ScopesAssumption ==
    \A s \in Scopes : /\ DOMAIN s = {"kind", "club", "principal"}
                      /\ s.kind \in {"club", "exhibitor", "platform"}
                      /\ s.kind = "club" <=> s.club # Nobody
                      /\ s.kind = "platform" <=> s.principal = Nobody
ASSUME NobodyAssumption == Nobody \notin Ids

VARIABLES
    rows,     \* the four tables: id -> committed row, or Absent
    outbox,   \* the committed outbox rows
    nextSeq,  \* the sequence behind outbox.seq
    pc,       \* the statement each request is about to execute
    tx,       \* its command, its scope and the aggregate it has in memory
    answer,   \* what its last call returned or threw
    calls     \* calls so far, at most MaxCalls

vars == <<rows, outbox, nextSeq, pc, tx, answer, calls>>

Clubs      == {s.club : s \in Scopes}
Principals == {s.principal : s \in Scopes}
GoodNames  == Names \ {Blank}

Row == [kind : {"item", "note", "ticket", "announcement"}, club : Clubs \cup {Nobody},
        principal : Principals \cup {Nobody}, item : ItemIds \cup {Nobody},
        name : GoodNames, version : Nat \ {0}]

ASSUME AbsentAssumption == Absent \notin Row

\* row.version is the version an aggregate was read at, INITIAL_VERSION of a
\* new one; call numbers the calls (history), seq is 0 before the outbox INSERT.
Transactions == [op : {"none", "add", "update"}, id : Ids \cup {Absent},
                 scope : Scopes \cup {Absent}, row : Row \cup {Absent}, name : Names,
                 item : ItemIds \cup {Nobody}, call : Nat, seq : Nat]

Outcomes == {"none", "ok", "notFound", "invalidName", "scopeMismatch",
             "conflict", "persistenceFailed", "transactionFailed"}

Statements == {"idle", "connect", "find", "findItem", "add", "update", "outbox", "commit"}

NoTransaction == [op |-> "none", id |-> Absent, scope |-> Absent, row |-> Absent,
                  name |-> Blank, item |-> Nobody, call |-> 0, seq |-> 0]

\* expected, stored, id and scope are those of a conflict (history but for expected).
Answers  == [outcome : Outcomes, call : Nat, expected : Nat, stored : Nat,
             id : Ids \cup {Absent}, scope : Scopes \cup {Absent}]
NoAnswer == [outcome |-> "none", call |-> 0, expected |-> 0, stored |-> 0,
             id |-> Absent, scope |-> Absent]

\* The columns a consumer of the outbox can come to read.
OutboxRows == [type : RegisteredTypes, scope : {"club", "exhibitor", "platform"},
               club : Clubs \cup {Nobody}, principal : Principals \cup {Nobody},
               aggregate : Ids, payload : [name : GoodNames]]

TypeOK ==
    /\ rows \in [Ids -> Row \cup {Absent}]
    /\ outbox \subseteq [stored : OutboxRows, seq : Nat \ {0}, version : Nat \ {0},
                         by : Scopes, call : Nat]
    /\ nextSeq \in Nat \ {0}
    /\ pc \in [Requests -> Statements]
    /\ tx \in [Requests -> Transactions]
    /\ answer \in [Requests -> Answers]
    /\ calls \in 0..MaxCalls

-----------------------------------------------------------------------------
(* Definitions marked Broken are variants with a bug that belongs to the   *)
(* code at hand; a check replaces a definition by one to see that a        *)
(* property notices.                                                       *)

\* The RLS policies of the tables, for the session keys of scope s.
\* Broken: the policies for reading only, or none.
OpenWritePolicy(s, row) == TRUE
ItemReadPolicy(s, row)  == TRUE
ItemWritePolicy(s, row) == s.club # Nobody /\ row.club = s.club
NotePolicy(s, row)      == s.principal # Nobody /\ row.principal = s.principal
TicketPolicy(s, row)    == \/ s.club # Nobody /\ row.club = s.club
                           \/ s.principal # Nobody /\ row.principal = s.principal

\* Broken: every table read-open, as the items are.
ReadOpenEverywhere(s, row) == TRUE

MayRead(s, row) ==
    CASE row.kind = "item"         -> ItemReadPolicy(s, row)
      [] row.kind = "note"         -> NotePolicy(s, row)
      [] row.kind = "ticket"       -> TicketPolicy(s, row)
      [] row.kind = "announcement" -> TRUE

MayWrite(s, row) ==
    CASE row.kind = "item"         -> ItemWritePolicy(s, row)
      [] row.kind = "note"         -> NotePolicy(s, row)
      [] row.kind = "ticket"       -> TicketPolicy(s, row)
      [] row.kind = "announcement" -> TRUE

\* The event scope the aggregate gives its facts.
EventScope(row) ==
    CASE row.kind \in {"item", "ticket"} -> ClubScope(row.club)
      [] row.kind = "note"               -> ExhibitorScope(row.principal)
      [] row.kind = "announcement"       -> PlatformScope

Item(club, principal, name) ==
    [kind |-> "item", club |-> club, principal |-> principal, item |-> Nobody,
     name |-> name, version |-> 1]
Note(principal, name) ==
    [kind |-> "note", club |-> Nobody, principal |-> principal, item |-> Nobody,
     name |-> name, version |-> 1]
Ticket(club, principal, item, name) ==
    [kind |-> "ticket", club |-> club, principal |-> principal, item |-> item,
     name |-> name, version |-> 1]
Announcement(name) ==
    [kind |-> "announcement", club |-> Nobody, principal |-> Nobody, item |-> Nobody,
     name |-> name, version |-> 1]

\* The row an add or update puts in place: update counts the version up.
Written(t) == IF t.op = "add" THEN t.row ELSE [t.row EXCEPT !.version = @ + 1]

HoldsRow(r, id) == tx[r].id = id /\ pc[r] \in {"outbox", "commit"}
RowIsFree(r)    == \A q \in Requests \ {r} : ~HoldsRow(q, tx[r].id)

\* Broken: a failed statement leaks the client (no finally around release).
ConnectedOrLeaked ==
    {r \in Requests : pc[r] \notin {"idle", "connect"} \/ answer[r].outcome = "persistenceFailed"}

\* Requests with a client of the pool.
Connected == {r \in Requests : pc[r] \notin {"idle", "connect"}}

-----------------------------------------------------------------------------
Init ==
    /\ rows    = [id \in Ids |-> Absent]
    /\ outbox  = {}
    /\ nextSeq = 1
    /\ pc      = [r \in Requests |-> "idle"]
    /\ tx      = [r \in Requests |-> NoTransaction]
    /\ answer  = [r \in Requests |-> NoAnswer]
    /\ calls   = 0

\* A use case is called.
Call(r) == pc[r] = "idle" /\ calls < MaxCalls /\ calls' = calls + 1

\* It answers without opening a transaction.
Refuse(r, outcome) ==
    /\ Call(r)
    /\ answer' = [answer EXCEPT ![r] = [NoAnswer EXCEPT !.outcome = outcome, !.call = calls + 1]]
    /\ UNCHANGED <<rows, outbox, nextSeq, pc, tx>>

\* It calls unitOfWork.run with scope s; t is what its body captured.
Run(r, s, t) ==
    /\ Call(r)
    /\ pc' = [pc EXCEPT ![r] = "connect"]
    /\ tx' = [tx EXCEPT ![r] = [t EXCEPT !.scope = s, !.call = calls + 1]]
    /\ UNCHANGED <<rows, outbox, nextSeq, answer>>

RunAdd(r, id, s, row) ==
    Run(r, s, [NoTransaction EXCEPT !.op = "add", !.id = id, !.row = row, !.name = row.name])

RunRename(r, id, s, name) ==
    Run(r, s, [NoTransaction EXCEPT !.op = "update", !.id = id, !.name = name])

CreateItem(r, id, s, name) ==
    IF s.kind # "club" THEN Refuse(r, "scopeMismatch")
    ELSE IF name = Blank THEN Refuse(r, "invalidName")
    ELSE RunAdd(r, id, s, Item(s.club, s.principal, name))

CreateNote(r, id, s, name) ==
    IF s.kind = "platform" THEN Refuse(r, "scopeMismatch")
    ELSE IF name = Blank THEN Refuse(r, "invalidName")
    ELSE RunAdd(r, id, s, Note(s.principal, name))

CreateAnnouncement(r, id, s, name) ==
    IF name = Blank THEN Refuse(r, "invalidName")
    ELSE RunAdd(r, id, s, Announcement(name))

\* The Ticket is built inside the transaction, from the Item it references.
CreateTicket(r, id, s, item, name) ==
    IF s.kind = "platform" THEN Refuse(r, "scopeMismatch")
    ELSE Run(r, s, [NoTransaction EXCEPT !.op = "add", !.id = id, !.item = item, !.name = name])

RenameItem(r, id, s, name)         == RunRename(r, id, s, name)
RenameNote(r, id, s, name)         == RunRename(r, id, s, name)
RenameTicket(r, id, s, name)       == RunRename(r, id, s, name)
RenameAnnouncement(r, id, s, name) == RunRename(r, id, s, name)

\* pool.connect (waits for a client), BEGIN, and the RLS session keys.
FirstStatement(t) == IF t.op = "update" THEN "find"
                     ELSE IF t.item # Nobody THEN "findItem" ELSE "add"

Connect(r) ==
    /\ pc[r] = "connect"
    /\ Cardinality(Connected) < PoolSize
    /\ pc' = [pc EXCEPT ![r] = FirstStatement(tx[r])]
    /\ UNCHANGED <<rows, outbox, nextSeq, tx, answer, calls>>

\* The transaction is over, its client back in the pool, and the caller has
\* its result or exception.  Without Commit this is a ROLLBACK.
Finish(r, a) ==
    /\ pc' = [pc EXCEPT ![r] = "idle"]
    /\ tx' = [tx EXCEPT ![r] = NoTransaction]
    /\ answer' = [answer EXCEPT ![r] = [a EXCEPT !.call = tx[r].call]]

RollBack(r, a) == Finish(r, a) /\ UNCHANGED <<rows, outbox, nextSeq, calls>>

Fails(r, outcome) == RollBack(r, [NoAnswer EXCEPT !.outcome = outcome])

\* The body throws an error after statement s, or goes on to statement next
\* with the aggregate it built.
Proceed(r, next, row) ==
    /\ pc' = [pc EXCEPT ![r] = next]
    /\ tx' = [tx EXCEPT ![r].row = row]
    /\ UNCHANGED <<rows, outbox, nextSeq, answer, calls>>

Visible(r, id) == rows[id] # Absent /\ MayRead(tx[r].scope, rows[id])

\* findById, then rename on the aggregate.
Find(r) ==
    /\ pc[r] = "find"
    /\ IF ~Visible(r, tx[r].id) THEN Fails(r, "notFound")
       ELSE IF tx[r].name = Blank THEN Fails(r, "invalidName")
       ELSE Proceed(r, "update", [rows[tx[r].id] EXCEPT !.name = tx[r].name])

\* findById of the referenced Item, then Ticket.create: the Ticket belongs to
\* the Item's club and was created by the acting principal.
FindItem(r) ==
    LET t == tx[r] IN
    /\ pc[r] = "findItem"
    /\ IF ~Visible(r, t.item) THEN Fails(r, "notFound")
       ELSE IF t.name = Blank THEN Fails(r, "invalidName")
       ELSE Proceed(r, "add", Ticket(rows[t.item].club, t.scope.principal, t.item, t.name))

\* INSERT under the table's policy and primary key; its fact is recorded.
Add(r) ==
    /\ pc[r] = "add"
    /\ RowIsFree(r)
    /\ IF rows[tx[r].id] = Absent /\ MayWrite(tx[r].scope, tx[r].row)
       THEN Proceed(r, "outbox", tx[r].row)
       ELSE Fails(r, "persistenceFailed")

\* Broken: UPDATE ... WHERE id, without the version.
MatchesAnyVersion(r) ==
    LET stored == rows[tx[r].id] IN
    /\ stored # Absent
    /\ MayRead(tx[r].scope, stored) /\ MayWrite(tx[r].scope, stored)

Matches(r) ==
    LET stored == rows[tx[r].id] IN
    /\ stored # Absent
    /\ stored.version = tx[r].row.version
    /\ MayRead(tx[r].scope, stored) /\ MayWrite(tx[r].scope, stored)

\* UPDATE ... WHERE id AND version under the policy; its fact is recorded.
Update(r) ==
    /\ pc[r] = "update"
    /\ RowIsFree(r)
    /\ IF Matches(r) THEN Proceed(r, "outbox", tx[r].row)
       ELSE RollBack(r, [NoAnswer EXCEPT !.outcome = "conflict",
                             !.expected = tx[r].row.version,
                             !.stored = rows[tx[r].id].version,
                             !.id = tx[r].id, !.scope = tx[r].scope])

\* writer.write: INSERT of the fact; a rollback leaves a gap in seq.
WriteOutbox(r) ==
    /\ pc[r] = "outbox"
    /\ pc' = [pc EXCEPT ![r] = "commit"]
    /\ tx' = [tx EXCEPT ![r].seq = nextSeq]
    /\ nextSeq' = nextSeq + 1
    /\ UNCHANGED <<rows, outbox, answer, calls>>

\* The fact the aggregate recorded when it was created or renamed.
Recorded(t) ==
    [class |-> Class(t.row.kind, IF t.op = "add" THEN "created" ELSE "renamed"),
     scope |-> EventScope(t.row), aggregate |-> t.id, payload |-> [name |-> t.row.name]]

\* stored are the row's columns; version, by and call are history: the version
\* the fact led to, who acted, and in which call.
OutboxRow(t) ==
    [stored |-> OutboxColumns(Recorded(t)), seq |-> t.seq, version |-> Written(t).version,
     by |-> t.scope, call |-> t.call]

\* Broken: a COMMIT in doubt is reported like a failed statement.
CommitMisreported(r) ==
    /\ pc[r] = "commit"
    /\ rows' = [rows EXCEPT ![tx[r].id] = Written(tx[r])]
    /\ outbox' = outbox \cup {OutboxRow(tx[r])}
    /\ \E outcome \in {"ok", "persistenceFailed"} :
          Finish(r, [NoAnswer EXCEPT !.outcome = outcome])
    /\ UNCHANGED <<nextSeq, calls>>

\* COMMIT; its answer may be lost, and then the caller gets TransactionFailed.
Commit(r) ==
    /\ pc[r] = "commit"
    /\ rows' = [rows EXCEPT ![tx[r].id] = Written(tx[r])]
    /\ outbox' = outbox \cup {OutboxRow(tx[r])}
    /\ \E outcome \in {"ok", "transactionFailed"} :
          Finish(r, [NoAnswer EXCEPT !.outcome = outcome])
    /\ UNCHANGED <<nextSeq, calls>>

\* Any statement, BEGIN or COMMIT fails, or the process dies: ROLLBACK.
StatementFails(r) ==
    /\ pc[r] # "idle"
    /\ Fails(r, IF pc[r] \in {"connect", "commit"} THEN "transactionFailed" ELSE "persistenceFailed")

UseCase(r) ==
    \E s \in Scopes, name \in Names :
        \/ \E id \in ItemIds : CreateItem(r, id, s, name) \/ RenameItem(r, id, s, name)
        \/ \E id \in NoteIds : CreateNote(r, id, s, name) \/ RenameNote(r, id, s, name)
        \/ \E id \in TicketIds : \/ \E item \in ItemIds : CreateTicket(r, id, s, item, name)
                                 \/ RenameTicket(r, id, s, name)
        \/ \E id \in AnnouncementIds :
               CreateAnnouncement(r, id, s, name) \/ RenameAnnouncement(r, id, s, name)

\* The statements of a transaction as the code issues them.
Statement(r) ==
    Connect(r) \/ Find(r) \/ FindItem(r) \/ Add(r) \/ Update(r) \/ WriteOutbox(r) \/ Commit(r)

\* The bound is reached and all calls are answered (no deadlock).
NoMoreCalls ==
    /\ calls = MaxCalls
    /\ \A r \in Requests : pc[r] = "idle"
    /\ UNCHANGED vars

Next == NoMoreCalls \/ \E r \in Requests : UseCase(r) \/ Statement(r) \/ StatementFails(r)

Spec == Init /\ [][Next]_vars

\* PostgreSQL answers every statement, and the pool serves waiters in turn.
FairSpec == Spec /\ \A r \in Requests : WF_vars(Statement(r))

-----------------------------------------------------------------------------
Commands == INSTANCE SampleCommands WITH
    Names <- GoodNames,
    facts <- {[id |-> e.stored.aggregate, version |-> e.version, name |-> e.stored.payload.name,
               owner |-> [club |-> e.stored.club, principal |-> e.stored.principal],
               by |-> e.by] : e \in outbox}

\* Whatever interleaves or fails, the committed rows and outbox move as if the
\* commands ran one at a time, each whole, each by a caller entitled to it
\* (with-transaction.ts :146-151, "On rollback neither the aggregate change
\* nor the outbox rows are persisted", and the version check of update).
ImplementsCommands == Commands!Spec

EventsOf(id) == {e \in outbox : e.stored.aggregate = id}

\* The outbox alone tells the whole history of every row: one event for each
\* version, seq in the order of the versions, the last one with the row's name.
OutboxTellsHistory ==
    \A id \in Ids :
        IF rows[id] = Absent THEN EventsOf(id) = {}
        ELSE /\ Cardinality(EventsOf(id)) = rows[id].version
             /\ \A e, f \in EventsOf(id) : e.seq < f.seq <=> e.version < f.version
             /\ \E e \in EventsOf(id) : e.version = rows[id].version /\ e.stored.payload.name = rows[id].name

\* "This registry must cover every type the sample context actually emits"
\* (sample-event-registry.ts :63-65): every committed outbox row is rehydrated
\* into an instance of the class the aggregate recorded, the creation for the
\* first version and a rename for every later one, owned by whoever owns the
\* row now.  A row that cannot be is quarantined by the dispatcher.
EveryEventRehydrates ==
    \A e \in outbox :
        LET event == Rehydrate(e.stored)
            row   == rows[e.stored.aggregate] IN
        /\ Accepted(event)
        /\ event.class = Class(row.kind, IF e.version = 1 THEN "created" ELSE "renamed")
        /\ event.scope = EventScope(row)

\* A caller told ok has its change in the tables, and one told of a failure
\* left no trace in them, {ok: false} included; only a failed COMMIT leaves it
\* in doubt (rename-item.ts :40-47, with-transaction.ts :75-92).
AnswersAreHonest ==
    \A r \in Requests :
        LET traces == {e \in outbox : e.call = answer[r].call} IN
        /\ answer[r].outcome = "ok" => traces # {}
        /\ answer[r].outcome \notin {"none", "ok", "transactionFailed"} => traces = {}

\* "A Ticket's owner is its Item's Club" (create-ticket.ts :81-83).
TicketBelongsToItemsClub ==
    \A id \in TicketIds : rows[id] # Absent
        => /\ rows[rows[id].item] # Absent
           /\ rows[id].club = rows[rows[id].item].club

\* ConcurrentModificationError is thrown "when the stored version no longer
\* matches" (drizzle-item-repository.ts :54): "another writer committed in
\* between" the read and the write (concurrent-modification-error.ts :5-8).
ConflictMeansStale ==
    \A r \in Requests : answer[r].outcome = "conflict" => answer[r].expected # answer[r].stored

\* There is one other reason for it, where a row may be read by more callers
\* than may write it: the caller renames an item that is not its club's
\* (migration 0002 :24-35).  For every other table the lookup does prove that
\* the caller may act (rename-item.ts :27-30), still when it writes.
ConflictIsStaleOrForeign ==
    \A r \in Requests : answer[r].outcome = "conflict" =>
        \/ answer[r].expected # answer[r].stored
        \/ /\ rows[answer[r].id].kind = "item"
           /\ rows[answer[r].id].club # answer[r].scope.club

\* Every call is answered, although statements fail: no
\* transaction keeps its client, and row locks never wait in a circle.
CallsAreAnswered == \A r \in Requests : pc[r] # "idle" ~> pc[r] = "idle"
=============================================================================
